----------------------------- MODULE RecordsProofs ----------------------------
(***************************************************************************)
(* What is proved, for every value of their constants, of the factory's    *)
(* records and of those who read them: the commands that write documents   *)
(* together (WriteGroup), the dispatches that rest on them                 *)
(* (PacketDispatch) and the packets they are given (ContextPacket), the    *)
(* usage ledger, its money and what is learned from it (UsageLedger,       *)
(* UsageMoney), the forecasts (Forecast), the lifecycle event ledger       *)
(* (EventLedger), the backlog's tree (BacklogExport) and the console that  *)
(* reads them all (ControlCenter).                                         *)
(*                                                                         *)
(* Induction is by a smallest counterexample: of any numbers one is the    *)
(* smallest, and of the finite subsets of a set one has no smaller one.    *)
(***************************************************************************)
EXTENDS WriteGroup, PacketDispatch, ContextPacket, UsageLedger, UsageMoney, Forecast, EventLedger,
        ControlCenter, FiniteSetTheorems, WellFoundedInduction, TLAPS

-----------------------------------------------------------------------------
(* Numbers, finite sets and sums.                                          *)

\* A set of numbers has a smallest one.
LEMMA Smallest ==
    ASSUME NEW S \in SUBSET Nat, S # {}
    PROVE  \E n \in S : \A m \in S : n <= m
  <1>1. PICK n \in S : \A m \in S : ~(<<m, n>> \in OpToRel(<, Nat))
    BY NatLessThanWellFounded, WFMin
  <1>2. \A m \in S : ~(m < n)
    BY <1>1 DEF OpToRel
  <1> QED
    BY <1>2

\* A recursion that goes up from a number has a value for each.
Climbs(f, x, advance, a, b) == \A n \in a .. b : f[n] = IF n = a THEN x ELSE advance[f[n - 1]]

LEMMA Iterates ==
    ASSUME NEW D, NEW advance \in [D -> D], NEW x \in D, NEW a \in Nat, NEW b \in Nat
    PROVE  \E f \in [a .. b -> D] : Climbs(f, x, advance, a, b)
  <1> DEFINE Goes(f, m) == /\ f \in [a .. m -> D]
                           /\ \A n \in a .. m : f[n] = IF n = a THEN x ELSE advance[f[n - 1]]
             Bad == {m \in Nat : ~\E f : Goes(f, m)}
  <1>1. SUFFICES ASSUME Bad # {} PROVE FALSE
    <2>1. ASSUME Bad = {} PROVE \E f : Goes(f, b)
      <3> HIDE DEF Goes
      <3> QED BY <2>1
    <2>2. Bad = {} => \E f \in [a .. b -> D] : Climbs(f, x, advance, a, b)
      BY <2>1 DEF Climbs
    <2> QED BY <2>2
  <1>2. PICK m \in Bad : \A k \in Bad : m <= k
    <2>1. Bad \in SUBSET Nat
      OBVIOUS
    <2> HIDE DEF Bad
    <2> QED BY <1>1, <2>1, Smallest
  <1>3. CASE m <= a
    <2> DEFINE f == [n \in a .. m |-> x]
    <2>1. \A n \in a .. m : n = a
      BY <1>3
    <2>3. Goes(f, m)
      <3>1. f \in [a .. m -> D] /\ \A n \in a .. m : f[n] = x
        OBVIOUS
      <3> HIDE DEF f
      <3> QED BY <2>1, <3>1
    <2> HIDE DEF f, Goes
    <2> QED BY <1>2, <2>3
  <1>4. CASE ~(m <= a)
    <2>1. m \in Nat /\ m - 1 \in Nat /\ m - 1 < m /\ a <= m - 1
      BY <1>2, <1>4
    <2>2. PICK g : Goes(g, m - 1)
      <3>1. m - 1 \notin Bad
        <4> HIDE DEF Bad
        <4> QED BY <1>2, <2>1
      <3> HIDE DEF Goes
      <3> QED BY <2>1, <3>1
    <2>3. \A n \in a .. m - 1 : g[n] = (IF n = a THEN x ELSE advance[g[n - 1]]) /\ g[n] \in D
      BY <2>2
    <2> DEFINE f == [n \in a .. m |-> IF n = m THEN advance[g[m - 1]] ELSE g[n]]
    <2>4. m - 1 \in a .. m - 1 /\ g[m - 1] \in D
      BY <2>1, <2>3
    <2>5. \A n \in a .. m : f[n] = (IF n = a THEN x ELSE advance[f[n - 1]]) /\ f[n] \in D
      <3> SUFFICES ASSUME NEW n \in a .. m
                   PROVE  f[n] = (IF n = a THEN x ELSE advance[f[n - 1]]) /\ f[n] \in D
        OBVIOUS
      <3>1. CASE n = m
        <4>1. f[n] = advance[g[m - 1]] /\ f[m - 1] = g[m - 1] /\ n # a
          BY <2>1, <3>1
        <4> HIDE DEF f
        <4> QED BY <4>1, <2>4, <3>1
      <3>2. CASE n # m
        <4>1. n \in a .. m - 1 /\ f[n] = g[n]
          BY <2>1, <3>2
        <4>2. CASE n = a
          <5> HIDE DEF f
          <5> QED BY <4>1, <4>2, <2>3
        <4>3. CASE n # a
          <5>1. n - 1 \in a .. m /\ n - 1 # m
            BY <2>1, <3>2, <4>3
          <5>2. f[n - 1] = g[n - 1]
            BY <5>1
          <5> HIDE DEF f
          <5> QED BY <4>1, <4>3, <5>2, <2>3
        <4> QED BY <4>2, <4>3
      <3> QED BY <3>1, <3>2
    <2>6. Goes(f, m)
      <3>1. f = [n \in a .. m |-> f[n]]
        OBVIOUS
      <3> HIDE DEF f
      <3> QED BY <2>5, <3>1
    <2> HIDE DEF f, Goes
    <2> QED BY <1>2, <2>6
  <1> QED
    <2>1. m \in Nat
      BY <1>2
    <2> QED BY <1>3, <1>4

\* Of some subsets of a finite set, one has none of the others inside it.
LEMMA FinitelyMinimal ==
    ASSUME NEW S, IsFiniteSet(S), NEW Bad \in SUBSET SUBSET S, Bad # {}
    PROVE  \E T \in Bad : \A U \in SUBSET T : U # T => U \notin Bad
  <1>1. Bad \subseteq FiniteSubsetsOf(S)
    BY FS_FiniteSubsetsOfFinite
  <1>2. PICK T \in Bad : \A U \in Bad : ~(<<U, T>> \in StrictSubsetOrdering(S))
    BY <1>1, FS_StrictSubsetOrderingWellFounded, WFMin
  <1> QED
    BY <1>2 DEF StrictSubsetOrdering

LEMMA ImageFinite ==
    ASSUME NEW S, IsFiniteSet(S), NEW f
    PROVE  IsFiniteSet({f[x] : x \in S})
  <1> DEFINE T == {f[x] : x \in S}
             g == [x \in S |-> f[x]]
  <1>1. g \in Surjection(S, T)
    BY DEF Surjection
  <1> HIDE DEF T
  <1>2. IsFiniteSet(T)
    BY <1>1, FS_Surjection
  <1> QED
    BY <1>2 DEF T

LEMMA Largest ==
    ASSUME NEW S \in SUBSET Nat, IsFiniteSet(S), S # {}
    PROVE  Max(S) \in S /\ \A n \in S : n <= Max(S)
  <1> DEFINE Bad == {T \in SUBSET S : T # {} /\ ~\E m \in T : \A n \in T : n <= m}
  <1>1. Bad = {}
    <2>1. SUFFICES ASSUME Bad # {} PROVE FALSE
      OBVIOUS
    <2>2. Bad \in SUBSET SUBSET S
      OBVIOUS
    <2>3. PICK T \in Bad : \A U \in SUBSET T : U # T => U \notin Bad
      <3> HIDE DEF Bad
      <3> QED BY <2>1, <2>2, FinitelyMinimal
    <2>4. PICK x \in T : TRUE
      OBVIOUS
    <2>5. T \ {x} \notin Bad
      BY <2>3, <2>4
    <2>6. CASE T \ {x} = {}
      BY <2>3, <2>4, <2>6
    <2>7. CASE T \ {x} # {}
      <3>1. PICK m \in T \ {x} : \A n \in T \ {x} : n <= m
        BY <2>5, <2>7
      <3>2. m \in Nat /\ x \in Nat /\ T \subseteq Nat
        BY <3>1, <2>4
      <3>3. CASE x <= m
        BY <3>1, <3>2, <3>3, <2>3
      <3>4. CASE m < x
        BY <3>1, <3>2, <3>4, <2>3, <2>4
      <3> QED BY <3>2, <3>3, <3>4
    <2> QED BY <2>6, <2>7
  <1>2. \E m \in S : \A n \in S : m >= n
    BY <1>1
  <1> QED
    BY <1>2 DEF Max

\* As many elements as f sums up to over T.
Under(f, T) == {p \in T \X Nat : 1 <= p[2] /\ p[2] <= f[p[1]]}

LEMMA UnderOne ==
    ASSUME NEW S, NEW f \in [S -> Nat], NEW T \in SUBSET S, NEW x \in T,
           IsFiniteSet(Under(f, T \ {x}))
    PROVE  /\ IsFiniteSet(Under(f, T))
           /\ Cardinality(Under(f, T)) = f[x] + Cardinality(Under(f, T \ {x}))
  <1> DEFINE column == {x} \X (1 .. f[x])
  <1>1. IsFiniteSet({x}) /\ Cardinality({x}) = 1
    BY FS_Singleton
  <1>2. f[x] \in Nat /\ IsFiniteSet(1 .. f[x]) /\ Cardinality(1 .. f[x]) = f[x]
    <2>1. f[x] \in Nat
      OBVIOUS
    <2> QED
      BY <2>1, FS_Interval
  <1>3. IsFiniteSet(column) /\ Cardinality(column) = f[x]
    BY <1>1, <1>2, FS_Product
  <1>4. Under(f, T) = column \cup Under(f, T \ {x})
    <2>1. ASSUME NEW p \in Under(f, T) PROVE p \in column \cup Under(f, T \ {x})
      BY <2>1, <1>2 DEF Under
    <2>2. ASSUME NEW p \in column PROVE p \in Under(f, T)
      BY <2>2, <1>2 DEF Under
    <2>3. ASSUME NEW p \in Under(f, T \ {x}) PROVE p \in Under(f, T)
      BY <2>3 DEF Under
    <2> QED
      BY <2>1, <2>2, <2>3
  <1>5. column \cap Under(f, T \ {x}) = {}
    BY DEF Under
  <1>6. Cardinality({}) = 0
    BY FS_EmptySet
  <1>7. Cardinality(Under(f, T \ {x})) \in Nat
    BY FS_CardinalityType
  <1> HIDE DEF column
  <1>8. /\ IsFiniteSet(column \cup Under(f, T \ {x}))
        /\ Cardinality(column \cup Under(f, T \ {x})) =
              Cardinality(column) + Cardinality(Under(f, T \ {x})) - Cardinality(column \cap Under(f, T \ {x}))
    BY <1>3, FS_Union
  <1>9. Cardinality(Under(f, T)) = f[x] + Cardinality(Under(f, T \ {x})) - 0
    BY <1>3, <1>4, <1>5, <1>6, <1>8
  <1> QED
    BY <1>2, <1>4, <1>7, <1>8, <1>9

LEMMA UnderFinite ==
    ASSUME NEW S, IsFiniteSet(S), NEW f \in [S -> Nat], NEW T \in SUBSET S
    PROVE  IsFiniteSet(Under(f, T))
  <1> DEFINE Bad == {U \in SUBSET S : ~IsFiniteSet(Under(f, U))}
  <1>1. SUFFICES ASSUME Bad # {} PROVE FALSE
    OBVIOUS
  <1>2. Bad \in SUBSET SUBSET S
    OBVIOUS
  <1>3. PICK U \in Bad : \A V \in SUBSET U : V # U => V \notin Bad
    <2> HIDE DEF Bad
    <2> QED BY <1>1, <1>2, FinitelyMinimal
  <1>4. U # {}
    <2>1. Under(f, {}) = {}
      BY DEF Under
    <2> QED
      BY <2>1, FS_EmptySet
  <1>5. PICK x \in U : TRUE
    BY <1>4
  <1>6. IsFiniteSet(Under(f, U \ {x}))
    BY <1>3, <1>5
  <1> QED
    BY <1>6, UnderOne

\* The recursion that a fold unwinds to, for whatever way of choosing elements.
Sums(g, f, pick, S) ==
    g = [T \in SUBSET S |-> IF T = {} THEN 0 ELSE f[pick[T]] + g[T \ {pick[T]}]]

Picks(pick, S) == \A T \in SUBSET S : T # {} => pick[T] \in T

LEMMA SumsExist ==
    ASSUME NEW S, IsFiniteSet(S), NEW f \in [S -> Nat], NEW pick, Picks(pick, S)
    PROVE  Sums([T \in SUBSET S |-> Cardinality(Under(f, T))], f, pick, S)
  <1> DEFINE g == [T \in SUBSET S |-> Cardinality(Under(f, T))]
  <1>1. ASSUME NEW T \in SUBSET S
        PROVE  g[T] = IF T = {} THEN 0 ELSE f[pick[T]] + g[T \ {pick[T]}]
    <2>1. CASE T = {}
      <3>1. Under(f, {}) = {}
        BY DEF Under
      <3> QED
        BY <3>1, <2>1, FS_EmptySet
    <2>2. CASE T # {}
      <3>1. pick[T] \in T
        BY <2>2 DEF Picks
      <3>2. IsFiniteSet(Under(f, T \ {pick[T]}))
        BY UnderFinite
      <3>3. Cardinality(Under(f, T)) = f[pick[T]] + Cardinality(Under(f, T \ {pick[T]}))
        BY <3>1, <3>2, UnderOne
      <3> QED
        BY <3>3, <2>2
    <2> QED
      BY <2>1, <2>2
  <1> QED
    BY <1>1 DEF Sums

LEMMA SumsUnique ==
    ASSUME NEW S, IsFiniteSet(S), NEW f \in [S -> Nat], NEW pick, Picks(pick, S),
           NEW g, Sums(g, f, pick, S), NEW T \in SUBSET S
    PROVE  g[T] = Cardinality(Under(f, T))
  <1> DEFINE h == [U \in SUBSET S |-> Cardinality(Under(f, U))]
             Bad == {U \in SUBSET S : g[U] # h[U]}
  <1>0. Sums(h, f, pick, S)
    BY SumsExist
  <1>1. SUFFICES ASSUME Bad # {} PROVE FALSE
    OBVIOUS
  <1>2. Bad \in SUBSET SUBSET S
    OBVIOUS
  <1>3. PICK U \in Bad : \A V \in SUBSET U : V # U => V \notin Bad
    <2> HIDE DEF Bad
    <2> QED BY <1>1, <1>2, FinitelyMinimal
  <1>4. ASSUME NEW V \in SUBSET S
        PROVE  /\ g[V] = IF V = {} THEN 0 ELSE f[pick[V]] + g[V \ {pick[V]}]
               /\ h[V] = IF V = {} THEN 0 ELSE f[pick[V]] + h[V \ {pick[V]}]
    <2> HIDE DEF h
    <2> QED BY <1>0 DEF Sums
  <1>5. U # {} /\ pick[U] \in U
    BY <1>4 DEF Picks
  <1>6. g[U \ {pick[U]}] = h[U \ {pick[U]}]
    BY <1>3, <1>5
  <1> QED
    BY <1>4, <1>5, <1>6

Picked(S) == [T \in SUBSET S |-> CHOOSE x \in T : TRUE]

LEMMA SumCounts ==
    ASSUME NEW f, IsFiniteSet(DOMAIN f), f \in [DOMAIN f -> Nat]
    PROVE  SumFunction(f) = Cardinality(Under(f, DOMAIN f))
  <1> DEFINE S == DOMAIN f
             body(g) == [s \in SUBSET S |->
                            IF s = {} THEN 0
                            ELSE f[CHOOSE x \in s : TRUE] + g[s \ {CHOOSE x \in s : TRUE}]]
             iter == CHOOSE g : g = body(g)
  <1>1. SumFunction(f) = iter[S]
    BY DEF SumFunction, SumFunctionOnSet, FoldFunctionOnSet, MapThenFoldSet
  <1>2. Picks(Picked(S), S)
    BY DEF Picks, Picked
  <1>3. ASSUME NEW g
        PROVE  Sums(g, f, Picked(S), S) <=> g = body(g)
    <2>1. \A s \in SUBSET S : Picked(S)[s] = CHOOSE x \in s : TRUE
      BY DEF Picked
    <2> QED BY <2>1 DEF Sums
  <1>4. \E g : g = body(g)
    <2>1. Sums([T \in SUBSET S |-> Cardinality(Under(f, T))], f, Picked(S), S)
      BY <1>2, SumsExist
    <2> HIDE DEF body
    <2> QED BY <1>3, <2>1
  <1>5. iter = body(iter)
    <2> HIDE DEF body
    <2> QED BY <1>4, Zenon
  <1> HIDE DEF iter
  <1>6. Sums(iter, f, Picked(S), S)
    BY <1>3, <1>5
  <1> QED
    BY <1>1, <1>2, <1>6, SumsUnique

LEMMA SumTyped ==
    ASSUME NEW f, IsFiniteSet(DOMAIN f), f \in [DOMAIN f -> Nat]
    PROVE  SumFunction(f) \in Nat
  BY SumCounts, UnderFinite, FS_CardinalityType

LEMMA SumDisjoint ==
    ASSUME NEW S, NEW f \in [S -> Nat], IsFiniteSet(S), NEW A, NEW B, A \cup B = S, A \cap B = {},
           NEW a, NEW b, a = [x \in A |-> f[x]], b = [x \in B |-> f[x]]
    PROVE  SumFunction(f) = SumFunction(a) + SumFunction(b)
  <1>1. a \in [A -> Nat] /\ b \in [B -> Nat] /\ IsFiniteSet(A) /\ IsFiniteSet(B)
    BY FS_Subset
  <1>2. /\ SumFunction(f) = Cardinality(Under(f, S))
        /\ SumFunction(a) = Cardinality(Under(a, A))
        /\ SumFunction(b) = Cardinality(Under(b, B))
    BY <1>1, SumCounts
  <1>3. /\ Under(f, S) = Under(a, A) \cup Under(b, B)
        /\ Under(a, A) \cap Under(b, B) = {}
    BY DEF Under
  <1>4. IsFiniteSet(Under(a, A)) /\ IsFiniteSet(Under(b, B))
    BY <1>1, UnderFinite
  <1>5. Cardinality(Under(a, A) \cup Under(b, B)) =
           Cardinality(Under(a, A)) + Cardinality(Under(b, B)) - Cardinality({})
    BY <1>3, <1>4, FS_Union
  <1>6. Cardinality({}) = 0
    BY FS_EmptySet
  <1>7. Cardinality(Under(a, A)) \in Nat /\ Cardinality(Under(b, B)) \in Nat
    BY <1>4, FS_CardinalityType
  <1> QED
    BY <1>2, <1>3, <1>5, <1>6, <1>7

-----------------------------------------------------------------------------
(* `_write_group`: how far it got, destination by destination.             *)

Untouched(k) == disk[Files[k]] = Previous(Files[k])
Saved(k) == Files[k] \in existed => Files[k] \in backup
Replaced(k) == disk[Files[k]] = "new" /\ Saved(k)

Phases == {"stage", "replace", "put", "restore", "succeeded", "failed", "dead"}

GroupTypes ==
    /\ existed \subseteq File
    /\ disk \in [File -> {"old", "new", "none"}]
    /\ done \in 0 .. Len(Files)
    /\ faults \in Nat
    /\ phase \in Phases

\* What is replaced comes first and can be undone, what comes after is as it was.
Progress ==
    /\ phase = "stage" => \A k \in DOMAIN Files : Untouched(k)
    /\ phase \in {"replace", "put"} => \A k \in 1 .. done : Replaced(k)
    /\ phase = "replace" => \A k \in done + 1 .. Len(Files) : Untouched(k)
    /\ phase = "put" => /\ done < Len(Files) /\ Saved(done + 1)
                        /\ \A k \in done + 2 .. Len(Files) : Untouched(k)
    /\ phase = "restore" => /\ faults >= 1
                            /\ \A k \in 1 .. done : Saved(k)
                            /\ \A k \in done + 1 .. Len(Files) : Untouched(k)

\* How a command that came back left the set, but for a restoration that failed.
Left ==
    /\ phase = "succeeded" => \A k \in DOMAIN Files : disk[Files[k]] = "new"
    /\ phase = "failed" =>
           \/ \A k \in DOMAIN Files : Untouched(k)
           \/ (\A k \in DOMAIN Files : disk[Files[k]] = "new") /\ backup # {}
           \/ faults >= 2

Recoverable ==
    \/ \A k \in DOMAIN Files : disk[Files[k]] = "new"
    \/ \A k \in DOMAIN Files : Files[k] \in existed => disk[Files[k]] = "old" \/ Files[k] \in backup

GroupInv == GroupTypes /\ Progress /\ Left /\ Recoverable

LEMMA GroupInvInit == GroupInit => GroupInv
  <1> SUFFICES ASSUME GroupInit PROVE GroupInv
    OBVIOUS
  <1> USE FilesAssumption
  <1>1. \A k \in DOMAIN Files : Files[k] \in File
    BY DEF File
  <1>2. \A k \in DOMAIN Files : Untouched(k)
    BY <1>1 DEF GroupInit, Untouched
  <1>3. GroupTypes
    BY DEF GroupInit, GroupTypes, Previous, Phases
  <1>4. Recoverable
    BY <1>2 DEF Recoverable, Untouched, Previous
  <1> QED
    BY <1>2, <1>3, <1>4 DEF GroupInv, GroupInit, Progress, Left

\* A destination's file is written alone.
LEMMA OneAtATime ==
    ASSUME GroupTypes, NEW k \in DOMAIN Files, NEW value,
           disk' = [disk EXCEPT ![Files[k]] = value]
    PROVE  /\ disk'[Files[k]] = value
           /\ \A j \in DOMAIN Files : j # k => disk'[Files[j]] = disk[Files[j]] /\ Files[j] # Files[k]
  BY FilesAssumption DEF GroupTypes, File

LEMMA GroupInvNext == GroupInv /\ [GroupNext]_groupVars => GroupInv'
  <1> SUFFICES ASSUME GroupInv, [GroupNext]_groupVars PROVE GroupInv'
    OBVIOUS
  <1> USE FilesAssumption
  <1>0. GroupTypes /\ Progress /\ Left /\ Recoverable
    BY DEF GroupInv
  <1>1. CASE UNCHANGED groupVars
    BY <1>0, <1>1 DEF GroupInv, GroupTypes, Progress, Left, Recoverable, Untouched, Saved,
                      Replaced, Previous, groupVars
  <1>2. CASE Stage \/ Staged \/ Die \/ Restored \/ Clean
    <2>1. UNCHANGED <<disk, existed>>
      BY <1>2 DEF Stage, Staged, Die, Restored, Clean
    <2>2. \A k \in DOMAIN Files : Untouched(k)' = Untouched(k)
      BY <2>1 DEF Untouched, Previous
    <2>3. GroupTypes'
      BY <1>0, <1>2, <2>1 DEF GroupTypes, Phases, Stage, Staged, Die, Restored, Clean, More, Fail
    <2>4. Progress'
      BY <1>0, <1>2, <2>2 DEF GroupTypes, Progress, Stage, Staged, Die, Restored, Clean, More, Fail
    <2>5. CASE Clean
      <3>1. \A k \in DOMAIN Files : disk[Files[k]] = "new"
        BY <1>0, <2>5 DEF GroupTypes, Progress, Replaced, Clean, More
      <3> QED
        BY <1>0, <2>1, <2>3, <2>4, <2>5, <3>1 DEF GroupInv, Left, Recoverable, Clean, Fail
    <2>6. CASE ~Clean
      <3>1. UNCHANGED backup
        BY <1>2, <2>6 DEF Stage, Staged, Die, Restored
      <3>2. phase' = "failed" => \A k \in DOMAIN Files : Untouched(k)
        BY <1>0, <1>2, <2>6 DEF GroupTypes, Progress, Stage, Staged, Die, Restored, More
      <3>3. Left'
        BY <1>2, <2>2, <2>6, <3>2 DEF Left, Stage, Staged, Die, Restored
      <3> QED
        BY <1>0, <2>1, <2>3, <2>4, <3>1, <3>3 DEF GroupInv, Recoverable
    <2> QED
      BY <2>5, <2>6
  <1>3. CASE MoveAside
    <2> DEFINE k == done + 1
    <2>1. k \in DOMAIN Files /\ This = Files[k] /\ This \in File /\ phase = "replace"
      BY <1>0, <1>3 DEF GroupTypes, MoveAside, More, This, File
    <2>2. CASE disk' = [disk EXCEPT ![This] = "none"] /\ phase' = "put"
      <3>1. /\ backup' = backup \cup ({This} \cap existed) /\ UNCHANGED <<faults, done, existed>>
        BY <1>3, <2>2 DEF MoveAside
      <3>2. GroupTypes'
        BY <1>0, <2>1, <2>2, <3>1 DEF GroupTypes, Phases
      <3>3. \A j \in DOMAIN Files : j # k => disk'[Files[j]] = disk[Files[j]]
        BY <1>0, <2>1, <2>2, OneAtATime
      <3>4. \A j \in 1 .. done : Replaced(j)'
        BY <1>0, <2>1, <3>1, <3>3 DEF GroupTypes, Progress, Replaced, Saved
      <3>5. \A j \in done + 2 .. Len(Files) : Untouched(j)'
        BY <1>0, <2>1, <3>1, <3>3 DEF GroupTypes, Progress, Untouched, Previous
      <3>6. Saved(k)'
        BY <2>1, <3>1 DEF Saved
      <3>7. Progress' /\ Left'
        BY <1>0, <2>1, <2>2, <3>1, <3>4, <3>5, <3>6 DEF GroupTypes, Progress, Left
      <3>8. Recoverable'
        BY <1>0, <2>1, <3>1, <3>4, <3>5, <3>6
           DEF GroupTypes, Recoverable, Replaced, Saved, Untouched, Previous
      <3> QED
        BY <3>2, <3>7, <3>8 DEF GroupInv
    <2>3. CASE phase' = "restore" /\ UNCHANGED <<disk, backup, done>>
      <3>1. Fail /\ UNCHANGED existed
        BY <1>3, <2>3 DEF MoveAside
      <3>2. GroupTypes' /\ Left' /\ Recoverable'
        BY <1>0, <2>3, <3>1 DEF GroupTypes, Phases, Left, Recoverable, Fail
      <3>3. \A j \in DOMAIN Files : Untouched(j)' = Untouched(j) /\ Saved(j)' = Saved(j)
        BY <2>3, <3>1 DEF Untouched, Saved, Previous
      <3>4. Progress'
        BY <1>0, <2>1, <2>3, <3>1, <3>3 DEF GroupTypes, Progress, Replaced, Fail
      <3> QED
        BY <3>2, <3>4 DEF GroupInv
    <2> QED
      BY <1>3, <2>2, <2>3 DEF MoveAside
  <1>4. CASE MoveIn
    <2> DEFINE k == done + 1
    <2>1. /\ k \in DOMAIN Files /\ This = Files[k] /\ This \in File /\ phase = "put"
          /\ done' = k /\ UNCHANGED <<backup, existed>>
      BY <1>0, <1>4 DEF GroupTypes, Progress, MoveIn, This, File
    <2>2. CASE disk' = [disk EXCEPT ![This] = "new"] /\ phase' = "replace" /\ UNCHANGED faults
      <3>1. GroupTypes'
        BY <1>0, <2>1, <2>2 DEF GroupTypes, Phases
      <3>2. /\ disk'[Files[k]] = "new"
            /\ \A j \in DOMAIN Files : j # k => disk'[Files[j]] = disk[Files[j]]
        BY <1>0, <2>1, <2>2, OneAtATime
      <3>3. \A j \in 1 .. k : Replaced(j)'
        BY <1>0, <2>1, <3>2 DEF GroupTypes, Progress, Replaced, Saved
      <3>4. \A j \in k + 1 .. Len(Files) : Untouched(j)'
        BY <1>0, <2>1, <3>2 DEF GroupTypes, Progress, Untouched, Previous
      <3>5. Progress' /\ Left'
        BY <2>1, <2>2, <3>3, <3>4 DEF Progress, Left
      <3>6. Recoverable'
        BY <1>0, <2>1, <3>3, <3>4 DEF GroupTypes, Recoverable, Replaced, Saved, Untouched, Previous
      <3> QED
        BY <3>1, <3>5, <3>6 DEF GroupInv
    <2>3. CASE Fail /\ phase' = "restore" /\ UNCHANGED <<disk, staged>>
      <3>1. GroupTypes' /\ Left' /\ Recoverable'
        BY <1>0, <2>1, <2>3 DEF GroupTypes, Phases, Left, Recoverable, Fail
      <3>2. \A j \in DOMAIN Files : Untouched(j)' = Untouched(j) /\ Saved(j)' = Saved(j)
        BY <2>1, <2>3 DEF Untouched, Saved, Previous
      <3>3. Progress'
        BY <1>0, <2>1, <2>3, <3>2 DEF GroupTypes, Progress, Replaced, Fail
      <3> QED
        BY <3>1, <3>3 DEF GroupInv
    <2> QED
      BY <1>4, <2>2, <2>3 DEF MoveIn
  <1>5. CASE Restore
    <2>1. done \in DOMAIN Files /\ phase = "restore" /\ UNCHANGED existed
      BY <1>0, <1>5 DEF GroupTypes, Restore
    <2>2. CASE Fail /\ phase' = "failed" /\ UNCHANGED <<disk, backup, done>>
      BY <1>0, <2>1, <2>2 DEF GroupInv, GroupTypes, Phases, Progress, Left, Recoverable, Fail
    <2>3. CASE /\ disk' = [disk EXCEPT ![Files[done]] = Previous(Files[done])]
               /\ backup' = backup \ {Files[done]}
               /\ done' = done - 1 /\ UNCHANGED <<phase, faults>>
      <3>1. Files[done] \in File /\ Previous(Files[done]) \in {"old", "new", "none"}
        BY <2>1 DEF File, Previous
      <3>2. GroupTypes'
        BY <1>0, <2>1, <2>3, <3>1 DEF GroupTypes
      <3>3. /\ disk'[Files[done]] = Previous(Files[done])
            /\ \A j \in DOMAIN Files : j # done =>
                   disk'[Files[j]] = disk[Files[j]] /\ Files[j] # Files[done]
        BY <1>0, <2>1, <2>3, OneAtATime
      <3>4. \A j \in 1 .. done - 1 : Saved(j)'
        BY <1>0, <2>1, <2>3, <3>3 DEF Progress, Saved
      <3>5. \A j \in done .. Len(Files) : Untouched(j)'
        BY <1>0, <2>1, <2>3, <3>3 DEF Progress, Untouched, Previous
      <3>6. Progress' /\ Left'
        BY <1>0, <2>1, <2>3, <3>4, <3>5 DEF Progress, Left, GroupTypes
      <3>7. Recoverable'
        BY <1>0, <2>1, <3>4, <3>5 DEF GroupTypes, Recoverable, Saved, Untouched, Previous
      <3> QED
        BY <3>2, <3>6, <3>7 DEF GroupInv
    <2> QED
      BY <1>5, <2>2, <2>3 DEF Restore
  <1> QED
    BY <1>1, <1>2, <1>3, <1>4, <1>5 DEF GroupNext

\* A failure never leaves the documents of two exports side by side, and until
\* the new export is in place the old one can be put together again, whichever
\* call fails and wherever the process dies (`_write_group`).
THEOREM ExportsStayWhole == GroupSpec => []OneExport
  <1>1. GroupInv => OneExport
    <2> SUFFICES ASSUME GroupInv PROVE OneExport
      OBVIOUS
    <2>1. \A f \in File : \E k \in DOMAIN Files : f = Files[k]
      BY DEF File
    <2>2. disk = [f \in File |-> disk[f]]
      BY DEF GroupInv, GroupTypes
    <2>3. (\A k \in DOMAIN Files : disk[Files[k]] = "new") => disk = [f \in File |-> "new"]
      BY <2>1, <2>2
    <2>4. (\A k \in DOMAIN Files : Untouched(k)) => disk = [f \in File |-> Previous(f)]
      BY <2>1, <2>2 DEF Untouched
    <2>5. (\E f \in File : disk[f] # "new") => \A f \in existed : disk[f] = "old" \/ f \in backup
      BY <2>1 DEF GroupInv, GroupTypes, Recoverable
    <2> QED
      BY <2>3, <2>4, <2>5 DEF GroupInv, Left, OneExport
  <1> QED
    BY <1>1, GroupInvInit, GroupInvNext, PTL DEF GroupSpec

-----------------------------------------------------------------------------
(* `dispatch-packet`: what a dispatch has read holds when its run starts.  *)

Version == 1 .. LastVersion

\* The agents of the rosters people land, and the runs they may have.
Rostered(v) == {RosterOf[v][i] : i \in DOMAIN RosterOf[v]}
Runs == UNION {{[kind |-> k, agent |-> e.id, actor |-> e.actor, commit |-> n] :
                   k \in Kind, e \in Rostered(v), n \in Nat} : v \in Version}

Commits == UNION {Draft(n) : n \in Nat}

\* The stages from a given one on.
FromHistory == {"history", "signed"}
FromRoster == FromHistory \cup {"roster"}
FromAuthorize == FromRoster \cup {"authorize"}
FromVerify == FromAuthorize \cup {"verify"}
FromContract == FromVerify \cup {"contract"}

HandoverTypes ==
    /\ fetched \in Version
    /\ commits \in Seq(Commits)
    /\ unit = [phase |-> unit.phase, runs |-> unit.runs, findings |-> unit.findings]
    /\ unit.runs \in Seq(Runs)
    /\ unit.phase = "implementation" => Len(commits) = 0
    /\ dispatch.stage \in FromContract \cup {"idle"}
    /\ dispatch = [stage |-> dispatch.stage, kind |-> dispatch.kind, since |-> dispatch.since,
                   head |-> dispatch.head, contract |-> dispatch.contract, base |-> dispatch.base,
                   text |-> dispatch.text, approval |-> dispatch.approval, at |-> dispatch.at,
                   roster |-> dispatch.roster, snapshot |-> dispatch.snapshot,
                   findings |-> dispatch.findings, agent |-> dispatch.agent]

Window == dispatch.since .. fetched

\* The code under review: the rules people landed admit all of its series, and
\* it passes their gates.
Reviewed ==
    /\ dispatch.base \in Window
    /\ dispatch.head \in 1 .. Len(commits)
    /\ \A i \in 1 .. dispatch.head : commits[i].does # "forbidden"
    /\ dispatch.base \in commits[dispatch.head].works

Approved ==
    /\ dispatch.approval.content = dispatch.text
    /\ dispatch.at - dispatch.approval.at <= MaxAge
    /\ dispatch.kind = "implementation" => ~dispatch.approval.continuation

Chosen ==
    /\ dispatch.findings = dispatch.snapshot.findings
    /\ dispatch.roster \in Version => dispatch.agent \in Rostered(dispatch.roster)
    /\ dispatch.kind = "review" =>
           /\ LatestProduced(dispatch.snapshot, dispatch.head)
           /\ dispatch.agent.id \notin ProducedBy(dispatch.snapshot)

\* What a dispatch has established, at its stage.
Established ==
    /\ dispatch.stage \in FromContract => dispatch.kind \in Kind /\ dispatch.since \in 1 .. fetched
    /\ dispatch.stage \in FromVerify =>
           /\ dispatch.head \in 0 .. Len(commits)
           /\ dispatch.kind = "review" => dispatch.head >= 1
           /\ dispatch.kind # "implementation" => dispatch.contract \in Window
    /\ dispatch.stage \in FromAuthorize => (dispatch.kind = "review" => Reviewed)
    /\ dispatch.stage \in FromRoster => Approved
    /\ dispatch.stage \in FromHistory =>
           /\ dispatch.kind # "implementation" => dispatch.roster \in Window
           /\ dispatch.kind = "implementation" /\ Len(commits) = 0 => dispatch.roster = 1
    /\ dispatch.stage = "signed" => Chosen

HandoverInv ==
    /\ HandoverTypes
    /\ Established
    /\ DispatchBound
    /\ started # Nothing => dispatch.stage = "idle"

LEMMA SelectedFits ==
    ASSUME NEW u, dispatch.roster \in Version, Selected(u) # Nothing
    PROVE  /\ Selected(u) \in Rostered(dispatch.roster)
           /\ dispatch.kind = "review" => Selected(u).id \notin ProducedBy(u)
  <1> DEFINE roster == RosterOf[dispatch.roster]
             may == {i \in DOMAIN roster : Eligible(roster[i], u)}
             first == CHOOSE i \in may : \A j \in may : i <= j
  <1>1. may # {} /\ Selected(u) = roster[first]
    BY DEF Selected
  <1>2. DOMAIN roster \subseteq Nat
    BY RosterAssumption DEF Version
  <1>3. first \in may
    BY <1>1, <1>2, Smallest
  <1> QED
    BY <1>1, <1>3 DEF Rostered, Eligible

\* What was current at some time of a dispatch is a version people landed.
LEMMA WindowLanded ==
    ASSUME HandoverTypes, Established, dispatch.stage \in FromContract
    PROVE  Window \subseteq Version
  <1>1. dispatch.since \in 1 .. fetched /\ fetched \in 1 .. LastVersion /\ LastVersion \in Nat
    BY VersionAssumption DEF HandoverTypes, Established, Version
  <1>2. ASSUME NEW b \in Window PROVE b \in Version
    BY <1>1 DEF Window, Version
  <1> QED
    BY <1>2

LEMMA HandoverInvInit == HandoverInit => HandoverInv
  <1> SUFFICES ASSUME HandoverInit PROVE HandoverInv
    OBVIOUS
  <1>1. HandoverTypes
    BY VersionAssumption DEF HandoverInit, HandoverTypes, NoDispatch, Version, FromContract
  <1> QED
    BY <1>1 DEF HandoverInit, HandoverInv, NoDispatch, Established, DispatchBound, FromContract,
                FromVerify, FromAuthorize, FromRoster, FromHistory

\* While a dispatch is under way nothing has been started.
LEMMA ReadStep ==
    ASSUME HandoverInv, dispatch.stage # "idle",
           UNCHANGED <<worldVars, unit, past, started>>, HandoverTypes', Established'
    PROVE  HandoverInv'
  BY DEF HandoverInv, DispatchBound

LEMMA KeepDecline ==
    ASSUME HandoverInv, dispatch.stage # "idle",
           UNCHANGED <<worldVars, unit, past, started>>, Decline
    PROVE  HandoverInv'
  <1>1. HandoverTypes'
    BY DEF HandoverInv, HandoverTypes, Decline, NoDispatch, worldVars
  <1>2. Established'
    BY DEF Decline, NoDispatch, Established, FromContract,
           FromVerify, FromAuthorize, FromRoster, FromHistory
  <1> QED
    BY <1>1, <1>2, ReadStep

LEMMA KeepBegin ==
    ASSUME HandoverInv, NEW kind \in Kind, BeginDispatch(kind)
    PROVE  HandoverInv'
  <1>1. /\ dispatch'.stage = "contract" /\ dispatch'.kind = kind /\ dispatch'.since = fetched
        /\ started' = Nothing /\ UNCHANGED <<fetched, commits, unit>>
    BY DEF BeginDispatch, NoDispatch, worldVars
  <1>2. HandoverTypes'
    BY <1>1 DEF HandoverInv, HandoverTypes, BeginDispatch, NoDispatch, FromContract
  <1>3. Established'
    BY <1>1 DEF HandoverInv, HandoverTypes, Version, Established, FromContract, FromVerify,
                FromAuthorize, FromRoster, FromHistory
  <1> QED
    BY <1>1, <1>2, <1>3 DEF HandoverInv, DispatchBound

LEMMA KeepReadContract ==
    ASSUME HandoverInv, ReadContract
    PROVE  HandoverInv'
  <1>0. /\ HandoverTypes /\ Established /\ dispatch.stage = "contract"
        /\ UNCHANGED <<worldVars, unit, past, started>>
    BY DEF HandoverInv, ReadContract
  <1>1. PICK n \in (IF dispatch.kind = "review" THEN 1 .. Tip ELSE {Tip}) :
            \/ Decline
            \/ /\ dispatch.kind # "implementation" => AnchorAgrees(ConfigAt(n))
               /\ dispatch' = [dispatch EXCEPT
                      !.stage = IF dispatch.kind = "review" THEN "verify" ELSE "authorize",
                      !.head = n, !.contract = Contract(dispatch.kind, n)]
    BY DEF ReadContract
  <1>2. CASE Decline
    BY <1>0, <1>2, KeepDecline
  <1>3. CASE ~Decline
    <2>1. /\ dispatch'.stage = IF dispatch.kind = "review" THEN "verify" ELSE "authorize"
          /\ dispatch'.head = n /\ dispatch'.contract = Contract(dispatch.kind, n)
          /\ UNCHANGED <<dispatch.kind, dispatch.since, fetched, commits, unit>>
      BY <1>0, <1>1, <1>3 DEF HandoverTypes, worldVars
    <2>2. dispatch.kind # "implementation" => dispatch'.contract = fetched
      BY <1>1, <1>3, <2>1 DEF Contract, Authoritative, AnchorAgrees
    <2>3. n \in 0 .. Len(commits) /\ (dispatch.kind = "review" => n >= 1)
      BY <1>0 DEF HandoverTypes, Tip
    <2>4. HandoverTypes'
      BY <1>0, <1>1, <1>3, <2>1 DEF HandoverTypes, FromContract, FromVerify, FromAuthorize
    <2>5. Established'
      BY <1>0, <2>1, <2>2, <2>3 DEF Established, HandoverTypes, Version, Window, FromContract,
           FromVerify, FromAuthorize, FromRoster, FromHistory
    <2> QED
      BY <1>0, <2>4, <2>5, ReadStep
  <1> QED
    BY <1>2, <1>3

LEMMA KeepDerive ==
    ASSUME HandoverInv, Derive
    PROVE  HandoverInv'
  <1>0. /\ HandoverTypes /\ Established /\ dispatch.stage = "verify"
        /\ UNCHANGED <<worldVars, unit, past, started>>
    BY DEF HandoverInv, Derive
  <1>1. CASE Decline
    BY <1>0, <1>1, KeepDecline
  <1>2. CASE ~Decline
    <2>1. PICK base \in Version :
              /\ base = fetched /\ "forbidden" \notin Published(dispatch.head)
              /\ GatesPass(dispatch.head, base)
              /\ dispatch' = [dispatch EXCEPT !.stage = "authorize", !.base = base]
      BY <1>2 DEF Derive, BaseCurrent, GatesOf, Version
    <2>2. /\ dispatch'.stage = "authorize" /\ dispatch'.base = fetched
          /\ UNCHANGED <<dispatch.kind, dispatch.since, dispatch.head, dispatch.contract,
                         fetched, commits, unit>>
      BY <1>0, <2>1 DEF HandoverTypes, worldVars
    <2>3. base \in commits[dispatch.head].works
      BY <2>1, VersionAssumption DEF GatesPass, Version
    <2>4. \A i \in 1 .. dispatch.head : commits[i].does # "forbidden"
      BY <2>1 DEF Published
    <2>5. HandoverTypes'
      BY <1>0, <2>1, <2>2 DEF HandoverTypes, FromContract, FromVerify, FromAuthorize
    <2>6. dispatch.kind = "review" => Reviewed'
      BY <1>0, <2>1, <2>2, <2>3, <2>4 DEF Established, Reviewed, Window, HandoverTypes, Version,
           FromContract, FromVerify
    <2>7. Established'
      BY <1>0, <2>2, <2>6 DEF Established, Window, FromContract, FromVerify, FromAuthorize,
           FromRoster, FromHistory
    <2> QED
      BY <1>0, <2>5, <2>7, ReadStep
  <1> QED
    BY <1>1, <1>2

LEMMA KeepCheckAuthorization ==
    ASSUME HandoverInv, CheckAuthorization
    PROVE  HandoverInv'
  <1>0. /\ HandoverTypes /\ Established /\ dispatch.stage = "authorize"
        /\ UNCHANGED <<worldVars, unit, past, started>>
    BY DEF HandoverInv, CheckAuthorization
  <1>1. CASE Decline
    BY <1>0, <1>1, KeepDecline
  <1>2. CASE ~Decline
    <2>1. PICK text \in 0 .. content :
              /\ Permits(signed, text)
              /\ dispatch' = [dispatch EXCEPT !.stage = "roster", !.text = text,
                                              !.approval = signed, !.at = now]
      BY <1>2 DEF CheckAuthorization
    <2>2. /\ dispatch'.stage = "roster" /\ dispatch'.text = text /\ dispatch'.approval = signed
          /\ dispatch'.at = now
          /\ UNCHANGED <<dispatch.kind, dispatch.since, dispatch.head, dispatch.contract,
                         dispatch.base, fetched, commits, unit>>
      BY <1>0, <2>1 DEF HandoverTypes, worldVars
    <2>3. Approved'
      BY <2>1, <2>2 DEF Approved, Permits
    <2>4. HandoverTypes'
      BY <1>0, <2>1, <2>2 DEF HandoverTypes, FromContract, FromVerify, FromAuthorize, FromRoster
    <2>5. Established'
      BY <1>0, <2>2, <2>3 DEF Established, Reviewed, Window, FromContract, FromVerify,
           FromAuthorize, FromRoster, FromHistory
    <2> QED
      BY <1>0, <2>4, <2>5, ReadStep
  <1> QED
    BY <1>1, <1>2 DEF CheckAuthorization

LEMMA KeepReadRoster ==
    ASSUME HandoverInv, ReadRoster
    PROVE  HandoverInv'
  <1>0. /\ HandoverTypes /\ Established /\ dispatch.stage = "roster"
        /\ UNCHANGED <<worldVars, unit, past, started>>
        /\ dispatch' = [dispatch EXCEPT !.stage = "history", !.roster = RosterPin]
    BY DEF HandoverInv, ReadRoster
  <1>1. /\ dispatch'.stage = "history" /\ dispatch'.roster = RosterPin
        /\ UNCHANGED <<dispatch.kind, dispatch.since, dispatch.head, dispatch.contract,
                       dispatch.base, dispatch.text, dispatch.approval, dispatch.at,
                       fetched, commits, unit>>
    BY <1>0 DEF HandoverTypes, worldVars
  <1>2. /\ dispatch.kind = "review" => RosterPin = dispatch.base
        /\ dispatch.kind = "repair" => RosterPin = fetched
        /\ dispatch.kind = "implementation" => RosterPin = ConfigAt(dispatch.head)
    BY DEF RosterPin
  <1>3. dispatch.kind \in Kind /\ dispatch.since \in 1 .. fetched
    BY <1>0 DEF Established, FromContract, FromVerify, FromAuthorize, FromRoster
  <1>4. dispatch.kind # "implementation" => RosterPin \in Window
    BY <1>0, <1>2, <1>3 DEF Kind, Established, Reviewed, Window, HandoverTypes, Version,
       FromAuthorize, FromRoster
  <1>5. dispatch.kind = "implementation" /\ Len(commits) = 0 => RosterPin = 1
    BY <1>0, <1>2 DEF ConfigAt, Established, FromVerify, FromAuthorize, FromRoster
  <1>6. HandoverTypes'
    BY <1>0, <1>1 DEF HandoverTypes, FromContract, FromVerify, FromAuthorize, FromRoster, FromHistory
  <1>7. Established'
    BY <1>0, <1>1, <1>4, <1>5 DEF Established, Reviewed, Approved, Window, FromContract,
         FromVerify, FromAuthorize, FromRoster, FromHistory
  <1> QED
    BY <1>0, <1>6, <1>7, ReadStep

LEMMA KeepReadHistory ==
    ASSUME HandoverInv, ReadHistory
    PROVE  HandoverInv'
  <1>0. /\ HandoverTypes /\ Established /\ dispatch.stage = "history"
        /\ UNCHANGED <<worldVars, unit, past, started>>
    BY DEF HandoverInv, ReadHistory
  <1>1. CASE Decline
    BY <1>0, <1>1, KeepDecline
  <1>2. CASE ~Decline
    <2>1. PICK u \in past \union {unit}, findings \in {Nothing, "reported", "rewritten"} :
              /\ findings = u.findings
              /\ dispatch.kind = "review" => LatestProduced(u, dispatch.head)
              /\ Selected(u) # Nothing
              /\ dispatch' = [dispatch EXCEPT !.stage = "signed", !.snapshot = u,
                                              !.findings = findings, !.agent = Selected(u)]
      BY <1>2 DEF ReadHistory
    <2>2. /\ dispatch'.stage = "signed" /\ dispatch'.snapshot = u /\ dispatch'.findings = u.findings
          /\ dispatch'.agent = Selected(u)
          /\ UNCHANGED <<dispatch.kind, dispatch.since, dispatch.head, dispatch.contract,
                         dispatch.base, dispatch.text, dispatch.approval, dispatch.at,
                         dispatch.roster, fetched, commits, unit>>
      BY <1>0, <2>1 DEF HandoverTypes, worldVars
    <2>3. dispatch.kind = "review" => dispatch.roster \in Version
      <3>1. dispatch.kind = "review" => dispatch.roster \in Window
        BY <1>0 DEF Established, FromHistory
      <3> QED
        BY <1>0, <3>1, WindowLanded DEF FromContract, FromVerify, FromAuthorize, FromRoster, FromHistory
    <2>4. /\ dispatch.roster \in Version => Selected(u) \in Rostered(dispatch.roster)
          /\ dispatch.kind = "review" => Selected(u).id \notin ProducedBy(u)
      BY <2>1, <2>3, SelectedFits
    <2>5. Chosen'
      BY <2>1, <2>2, <2>4 DEF Chosen, LatestProduced, ProducedBy, Producing, Rostered
    <2>6. HandoverTypes'
      BY <1>0, <2>1, <2>2 DEF HandoverTypes, FromContract, FromVerify, FromAuthorize, FromRoster,
         FromHistory
    <2>7. Established'
      BY <1>0, <2>2, <2>5 DEF Established, Reviewed, Approved, Window, FromContract,
           FromVerify, FromAuthorize, FromRoster, FromHistory
    <2> QED
      BY <1>0, <2>6, <2>7, ReadStep
  <1> QED
    BY <1>1, <1>2

\* A run is of an agent a landed roster names, by the name it has there.
LEMMA RunsNamed ==
    ASSUME NEW r \in Runs
    PROVE  \E v \in Version : \E i \in DOMAIN RosterOf[v] :
               r.agent = RosterOf[v][i].id /\ r.actor = RosterOf[v][i].actor
  BY DEF Runs, Rostered

\* Two agents of landed rosters that go by different names are different.
LEMMA OtherActor ==
    ASSUME NEW r \in Runs, NEW v \in Version, NEW e \in Rostered(v), e.id # r.agent
    PROVE  e.actor # r.actor
  <1>1. PICK w \in Version : \E j \in DOMAIN RosterOf[w] :
            r.agent = RosterOf[w][j].id /\ r.actor = RosterOf[w][j].actor
    BY RunsNamed
  <1>2. PICK i \in DOMAIN RosterOf[v] : e = RosterOf[v][i]
    BY DEF Rostered
  <1> QED
    BY <1>1, <1>2, RosterAssumption DEF Version

\* The run that is started carries on what its dispatch established.
LEMMA KeepStartRun ==
    ASSUME HandoverInv, StartRun
    PROVE  HandoverInv'
  <1>0. /\ HandoverTypes /\ Established /\ dispatch.stage = "signed" /\ started = Nothing
        /\ UNCHANGED worldVars /\ dispatch' = NoDispatch
    BY DEF HandoverInv, StartRun
  <1>1. Established'
    BY <1>0 DEF NoDispatch, Established, FromContract, FromVerify, FromAuthorize, FromRoster,
                FromHistory
  <1>2. CASE UNCHANGED <<unit, past, started>>
    <2>1. HandoverTypes'
      BY <1>0, <1>2 DEF HandoverTypes, NoDispatch, worldVars
    <2> QED
      BY <1>0, <1>1, <1>2, <2>1 DEF HandoverInv, DispatchBound
  <1>3. CASE ~UNCHANGED <<unit, past, started>>
    <2> DEFINE run == [kind |-> dispatch.kind, agent |-> dispatch.agent.id,
                       actor |-> dispatch.agent.actor, commit |-> 0]
               next == IF dispatch.kind = "review" THEN unit.phase ELSE "running"
    <2>1. /\ dispatch.snapshot = unit /\ unit.phase = dispatch.kind /\ started' = dispatch
          /\ unit' = [unit EXCEPT !.phase = next, !.runs = Append(@, run)]
      BY <1>3 DEF StartRun, Current, Advance
    <2>2. dispatch.kind \in Kind /\ dispatch.since \in 1 .. fetched /\ fetched \in Version
      BY <1>0 DEF Established, HandoverTypes, FromContract, FromVerify, FromAuthorize,
         FromRoster, FromHistory
    <2>3. dispatch.roster \in Version
      <3>1. CASE dispatch.kind = "implementation"
        BY <1>0, <2>1, <3>1, VersionAssumption DEF Established, HandoverTypes, FromHistory, Version
      <3>2. CASE dispatch.kind # "implementation"
        <4>1. dispatch.roster \in Window
          BY <1>0, <3>2 DEF Established, FromHistory
        <4> QED
          BY <1>0, <4>1, WindowLanded DEF FromContract, FromVerify, FromAuthorize, FromRoster,
             FromHistory
      <3> QED
        BY <3>1, <3>2
    <2>4. dispatch.agent \in Rostered(dispatch.roster)
      BY <1>0, <2>3 DEF Established, Chosen
    <2>5. run \in Runs
      BY <2>2, <2>3, <2>4 DEF Runs
    <2>6. /\ unit'.runs = Append(unit.runs, run) /\ unit'.phase = next
          /\ unit' = [phase |-> unit'.phase, runs |-> unit'.runs, findings |-> unit'.findings]
      <3> HIDE DEF run, next
      <3> QED
        BY <1>0, <2>1 DEF HandoverTypes
    <2>7. unit'.runs \in Seq(Runs)
      BY <1>0, <2>5, <2>6 DEF HandoverTypes
    <2>8. HandoverTypes'
      <3>1. next # "implementation" \/ unit.phase = "implementation"
        OBVIOUS
      <3> QED
        BY <1>0, <2>6, <2>7, <3>1 DEF HandoverTypes, NoDispatch, worldVars
    <2>9. dispatch.kind = "review" =>
              /\ \E i \in Producing(unit) :
                    dispatch.head = unit.runs[i].commit /\ \A j \in i + 1 .. Len(unit.runs) : unit.runs[j].kind = "review"
              /\ \A i \in Producing(unit)' : unit'.runs[i].actor # dispatch.agent.actor
      <3> SUFFICES ASSUME dispatch.kind = "review"
                   PROVE  /\ \E i \in Producing(unit) :
                                /\ dispatch.head = unit.runs[i].commit
                                /\ \A j \in i + 1 .. Len(unit.runs) : unit.runs[j].kind = "review"
                          /\ \A i \in Producing(unit)' : unit'.runs[i].actor # dispatch.agent.actor
        OBVIOUS
      <3>1. LatestProduced(unit, dispatch.head) /\ dispatch.agent.id \notin ProducedBy(unit)
        BY <1>0, <2>1 DEF Established, Chosen
      <3>2. unit.runs \in Seq(Runs)
        BY <1>0 DEF HandoverTypes
      <3>3. ASSUME NEW i \in Producing(unit)'
            PROVE  i \in Producing(unit) /\ unit'.runs[i] = unit.runs[i]
        <4>1. run.kind = "review"
          OBVIOUS
        <4> HIDE DEF run
        <4> QED
          BY <2>5, <2>6, <3>2, <4>1 DEF Producing
      <3>4. ASSUME NEW i \in Producing(unit)
            PROVE  unit.runs[i].actor # dispatch.agent.actor
        <4>1. unit.runs[i] \in Runs /\ unit.runs[i].agent # dispatch.agent.id
          BY <3>1, <3>2 DEF Producing, ProducedBy
        <4> QED
          BY <2>3, <2>4, <4>1, OtherActor
      <3>5. PICK i \in Producing(unit) :
                unit.runs[i].commit = dispatch.head /\ \A j \in Producing(unit) : j <= i
        BY <3>1 DEF LatestProduced
      <3>6. \A j \in i + 1 .. Len(unit.runs) : unit.runs[j].kind = "review"
        BY <3>2, <3>5 DEF Producing
      <3> QED
        BY <3>3, <3>4, <3>5, <3>6
    <2>10. DispatchBound'
      <3>1. UNCHANGED <<commits, fetched>>
        BY <1>0 DEF worldVars
      <3>2. Approved /\ dispatch.findings = unit.findings
        BY <1>0, <2>1 DEF Established, Chosen, FromRoster, FromHistory
      <3>3. dispatch.kind # "implementation" =>
                {dispatch.contract, dispatch.roster} \subseteq dispatch.since .. fetched
        BY <1>0 DEF Established, Window, FromVerify, FromAuthorize, FromRoster, FromHistory
      <3>4. dispatch.kind = "review" => Reviewed
        BY <1>0 DEF Established, FromAuthorize, FromRoster, FromHistory
      <3> QED
        BY <2>1, <2>9, <3>1, <3>2, <3>3, <3>4 DEF DispatchBound, Approved, Reviewed, Window, Producing
    <2> QED
      BY <1>0, <1>1, <2>8, <2>10 DEF HandoverInv, NoDispatch
  <1> QED
    BY <1>2, <1>3

\* What a dispatch under way has established is not undone by a base that lands,
\* a commit that is added or what becomes of the unit.
LEMMA WorldMoves ==
    ASSUME HandoverTypes, Established, UNCHANGED dispatch,
           fetched' \in Version, fetched <= fetched',
           Len(commits') \in Nat, Len(commits) <= Len(commits'),
           \A i \in 1 .. Len(commits) : commits'[i] = commits[i]
    PROVE  Established'
  <1>0. fetched \in Nat /\ fetched' \in Nat /\ Len(commits) \in Nat
    BY VersionAssumption DEF HandoverTypes, Version
  <1>1. \A b : b \in Window => b \in Window'
    <2>1. CASE dispatch.stage \in FromContract
      BY <1>0, <2>1 DEF Established, Window
    <2>2. CASE dispatch.stage \notin FromContract
      BY <1>0 DEF Window
    <2> QED
      BY <2>1, <2>2
  <1>2. Reviewed => Reviewed'
    BY <1>0, <1>1 DEF Reviewed
  <1>3. Approved' = Approved /\ Chosen' = Chosen
    BY DEF Approved, Chosen, LatestProduced, ProducedBy, Producing, Rostered
  <1>4. Len(commits') = 0 => Len(commits) = 0
    BY <1>0
  <1> QED
    BY <1>0, <1>1, <1>2, <1>3, <1>4 DEF Established

LEMMA KeepWorld ==
    ASSUME HandoverInv, Land \/ EditContent \/ Tick \/ Authorize
    PROVE  HandoverInv'
  <1>1. /\ UNCHANGED <<commits, unit, past, dispatch, started>> /\ HandoverTypes /\ Established
        /\ fetched' = fetched \/ (fetched < LastVersion /\ fetched' = fetched + 1)
    BY DEF HandoverInv, Land, EditContent, Tick, Authorize
  <1>2. fetched' \in Version /\ fetched <= fetched' /\ fetched \in Nat /\ fetched' \in Nat
    BY <1>1, VersionAssumption DEF HandoverTypes, Version
  <1>3. HandoverTypes'
    BY <1>1, <1>2 DEF HandoverTypes
  <1>4. Established'
    BY <1>1, <1>2, WorldMoves DEF HandoverTypes
  <1>5. DispatchBound'
    BY <1>1, <1>2 DEF HandoverInv, DispatchBound, Producing
  <1> QED
    BY <1>1, <1>3, <1>4, <1>5 DEF HandoverInv

LEMMA SetEntry ==
    ASSUME NEW S, NEW s \in Seq(S), NEW i, NEW x, i \in 1 .. Len(s) => x \in S
    PROVE  [s EXCEPT ![i] = x] \in Seq(S)
  <1>1. s \in [1 .. Len(s) -> S] /\ Len(s) \in Nat
    OBVIOUS
  <1>2. [s EXCEPT ![i] = x] \in [1 .. Len(s) -> S]
    BY <1>1
  <1> QED
    BY <1>1, <1>2

LEMMA FinishedTyped ==
    ASSUME unit.runs \in Seq(Runs), NEW n \in Nat
    PROVE  Finished(n) \in Seq(Runs)
  <1> DEFINE last == Len(unit.runs)
  <1>1. ASSUME NEW r \in Runs PROVE [r EXCEPT !.commit = n] \in Runs
    <2>1. PICK v \in Version : \E k \in Kind, e \in Rostered(v), m \in Nat :
              r = [kind |-> k, agent |-> e.id, actor |-> e.actor, commit |-> m]
      BY DEF Runs
    <2>2. PICK k \in Kind, e \in Rostered(v), m \in Nat :
              r = [kind |-> k, agent |-> e.id, actor |-> e.actor, commit |-> m]
      BY <2>1
    <2>3. [r EXCEPT !.commit = n] = [kind |-> k, agent |-> e.id, actor |-> e.actor, commit |-> n]
      BY <2>2
    <2> QED
      BY <2>3 DEF Runs
  <1>2. Finished(n) = [unit.runs EXCEPT ![last] = [unit.runs[last] EXCEPT !.commit = n]]
    BY DEF Finished
  <1>3. last \in 1 .. Len(unit.runs) => unit.runs[last] \in Runs
    OBVIOUS
  <1> QED
    BY <1>1, <1>2, <1>3, SetEntry

LEMMA KeepFinishProducing ==
    ASSUME HandoverInv, FinishProducing
    PROVE  HandoverInv'
  <1>1. /\ HandoverTypes /\ Established /\ UNCHANGED <<fetched, dispatch>> /\ started' = Nothing
    BY DEF HandoverInv, FinishProducing
  <1>2. /\ commits' \in Seq(Commits) /\ Len(commits) <= Len(commits')
        /\ \A i \in 1 .. Len(commits) : commits'[i] = commits[i]
    <2>1. CASE commits' = commits
      BY <1>1, <2>1 DEF HandoverTypes
    <2>2. CASE \E d \in Draft(Tip + 1) : commits' = Append(commits, d)
      <3>1. PICK d \in Draft(Tip + 1) : commits' = Append(commits, d)
        BY <2>2
      <3>2. commits \in Seq(Commits) /\ Tip + 1 \in Nat
        BY <1>1 DEF HandoverTypes, Tip
      <3>3. d \in Commits
        BY <3>1, <3>2 DEF Commits
      <3> QED
        BY <3>1, <3>2, <3>3
    <2> QED
      BY <2>1, <2>2 DEF FinishProducing
  <1>3. /\ unit'.phase = "verifying" /\ unit'.runs \in Seq(Runs)
        /\ unit' = [phase |-> unit'.phase, runs |-> unit'.runs, findings |-> unit'.findings]
    <2>1. CASE unit' = [unit EXCEPT !.phase = "verifying"]
      BY <1>1, <2>1 DEF HandoverTypes
    <2>2. CASE unit' = [unit EXCEPT !.phase = "verifying", !.runs = Finished(Tip + 1)]
      <3>1. Finished(Tip + 1) \in Seq(Runs)
        BY <1>1, FinishedTyped DEF HandoverTypes, Tip
      <3> QED
        BY <1>1, <2>2, <3>1 DEF HandoverTypes
    <2> QED
      BY <2>1, <2>2 DEF FinishProducing, Advance
  <1>4. HandoverTypes'
    BY <1>1, <1>2, <1>3 DEF HandoverTypes
  <1>5. Established'
    <2>1. Len(commits') \in Nat /\ fetched' \in Version /\ fetched <= fetched'
      BY <1>1, <1>2, VersionAssumption DEF HandoverTypes, Version
    <2> QED
      BY <1>1, <1>2, <2>1, WorldMoves
  <1> QED
    BY <1>1, <1>4, <1>5 DEF HandoverInv, DispatchBound

LEMMA KeepRecord ==
    ASSUME HandoverInv, RecordVerification \/ RecordReview
    PROVE  HandoverInv'
  <1>1. /\ HandoverTypes /\ Established /\ UNCHANGED <<fetched, commits, dispatch>>
        /\ started' \in {Nothing, started}
    BY DEF HandoverInv, RecordVerification, RecordReview, worldVars
  <1>2. /\ unit'.phase # "implementation" /\ unit'.runs = unit.runs
        /\ unit' = [phase |-> unit'.phase, runs |-> unit'.runs, findings |-> unit'.findings]
    BY <1>1 DEF RecordVerification, RecordReview, Advance, HandoverTypes
  <1>3. HandoverTypes'
    BY <1>1, <1>2 DEF HandoverTypes
  <1>4. Established'
    BY <1>1, WorldMoves, VersionAssumption DEF HandoverTypes, Version
  <1>5. DispatchBound'
    BY <1>1, <1>2 DEF HandoverInv, DispatchBound, Producing
  <1> QED
    BY <1>1, <1>3, <1>4, <1>5 DEF HandoverInv

LEMMA HandoverInvNext == HandoverInv /\ [HandoverNext]_handoverVars => HandoverInv'
  <1> SUFFICES ASSUME HandoverInv, [HandoverNext]_handoverVars PROVE HandoverInv'
    OBVIOUS
  <1>1. CASE HandoverNext
    BY <1>1, KeepBegin, KeepReadContract, KeepDerive, KeepCheckAuthorization, KeepReadRoster,
       KeepReadHistory, KeepStartRun, KeepFinishProducing, KeepRecord, KeepWorld DEF HandoverNext
  <1>2. CASE UNCHANGED handoverVars
    <2>1. UNCHANGED <<fetched, commits, unit, dispatch, started>>
      BY <1>2 DEF handoverVars, worldVars
    <2> QED
      BY <2>1, WorldMoves, VersionAssumption
         DEF HandoverInv, HandoverTypes, DispatchBound, Producing, Version
  <1> QED
    BY <1>1, <1>2

\* However the base, the issue, the candidate and the unit move while a packet is
\* built, the run it starts rests on what the packet claims: text people approved,
\* rules and gates of a base that was current, the latest producer's head, and a
\* reviewer who had no hand in it (`_dispatch_packet`, `_derived_verification`,
\* `_require_attested_envelope`).
THEOREM RunsRestOnTheirPacket == HandoverSpec => []DispatchBound
  <1>1. HandoverInv => DispatchBound
    BY DEF HandoverInv
  <1> QED
    BY <1>1, HandoverInvInit, HandoverInvNext, PTL DEF HandoverSpec

-----------------------------------------------------------------------------
(* The usage ledger: overlapping commands that record and calibrate.      *)

\* One record of an attempt, whatever id it came under.
OneId(file) == \A i, j \in DOMAIN file : i[1] = j[1] => i = j

FineEstimate(e) == e # <<>> => e[1] \in Nat
FineActual(t) == t # <<>> => t[1].value \in Nat \cup {Unknown}
FineRecord(r) == FineEstimate(r.estimate) /\ FineActual(r.actual)

FineFile(file) ==
    /\ IsFiniteSet(DOMAIN file)
    /\ OneId(file)
    /\ \A i \in DOMAIN file : FineRecord(file[i])

FineCalibration(cal) == cal.at \in [Key -> [samples : Nat, total : Nat]]

Lessons(cal, file, k) == {i \in cal.observed : Teaches(file[i]) /\ OnPath(i, k)}

\* What was learned is what the ledger says of the attempts observed.
LearnedFrom(cal, file) ==
    /\ cal.observed \subseteq DOMAIN file
    /\ \A i \in cal.observed : Observable(file[i])
    /\ \A k \in Key :
          /\ cal.at[k].samples = Cardinality({i[1] : i \in Lessons(cal, file, k)})
          /\ cal.at[k].total = SumFunction(Ratios(file, Lessons(cal, file, k)))

UsageInv ==
    /\ DOMAIN estimated = Attempt /\ DOMAIN took = Attempt /\ DOMAIN clerk = Clerk
    /\ \A a \in Attempt : FineEstimate(estimated[a]) /\ FineActual(took[a])
    /\ FineFile(usage)
    /\ FineCalibration(calibration)
    /\ ~lapped => LearnedFrom(calibration, usage)
    /\ \A c \in Clerk : clerk[c] # <<>> =>
          /\ "id" \in DOMAIN clerk[c][1] =>
                FineFile(clerk[c][1].file) /\ FineRecord(clerk[c][1].record)
          /\ "learned" \in DOMAIN clerk[c][1] =>
                /\ FineCalibration(clerk[c][1].learned)
                /\ ~lapped => LearnedFrom(clerk[c][1].learned, usage)

-----------------------------------------------------------------------------
\* A record that is accepted leaves what was there: ids and filled sections.
Keeps(file, new) ==
    \A i \in DOMAIN file :
        /\ {j \in DOMAIN new : j[1] = i[1]} = {i}
        /\ file[i].estimate # <<>> => new[i].estimate = file[i].estimate
        /\ file[i].actual # <<>> => new[i].actual = file[i].actual

LEMMA MergedSection ==
    ASSUME NEW e, NEW f, NEW m \in MergeSection(e, f)
    PROVE  (e # <<>> => m = e) /\ m \in {e, f}
  BY DEF MergeSection

LEMMA RecordedSection ==
    ASSUME NEW file, NEW i, NEW record, FineFile(file), FineRecord(record),
           NEW new \in Record(file, i, record)
    PROVE  FineFile(new) /\ Keeps(file, new)
  <1>1. PICK r : /\ new = Put(file, i, r)
                 /\ FineRecord(r)
                 /\ i \in DOMAIN file =>
                       /\ file[i].estimate # <<>> => r.estimate = file[i].estimate
                       /\ file[i].actual # <<>> => r.actual = file[i].actual
    <2>1. CASE i \notin DOMAIN file
      BY <2>1 DEF Record
    <2>2. CASE i \in DOMAIN file
      <3>1. PICK e \in MergeSection(file[i].estimate, record.estimate),
                 t \in MergeSection(file[i].actual, record.actual) :
                 new = Put(file, i, [estimate |-> e, actual |-> t])
        <4>1. ~\E j \in DOMAIN file : j[1] = i[1] /\ j # i
          BY DEF Record
        <4>2. new \in {Put(file, i, [estimate |-> e, actual |-> t]) :
                          e \in MergeSection(file[i].estimate, record.estimate),
                          t \in MergeSection(file[i].actual, record.actual)}
          BY <4>1, <2>2 DEF Record
        <4> QED
          BY <4>2
      <3> DEFINE r == [estimate |-> e, actual |-> t]
      <3>2. r.estimate = e /\ r.actual = t
        OBVIOUS
      <3>3. FineRecord(file[i])
        BY <2>2 DEF FineFile
      <3>4. FineEstimate(e) /\ FineActual(t)
        BY <3>3, MergedSection DEF FineRecord
      <3>5. /\ file[i].estimate # <<>> => e = file[i].estimate
            /\ file[i].actual # <<>> => t = file[i].actual
        BY MergedSection
      <3>6. FineRecord(r)
        BY <3>2, <3>4 DEF FineRecord
      <3>7. new = Put(file, i, r)
        BY <3>1
      <3>8. /\ file[i].estimate # <<>> => r.estimate = file[i].estimate
            /\ file[i].actual # <<>> => r.actual = file[i].actual
        BY <3>2, <3>5
      <3> HIDE DEF r
      <3> QED
        BY <3>6, <3>7, <3>8
    <2> QED
      BY <2>1, <2>2
  <1>2. /\ DOMAIN new = DOMAIN file \cup {i}
        /\ new[i] = r
        /\ \A j \in DOMAIN file : j # i => new[j] = file[j]
    BY <1>1 DEF Put
  <1>3. \A j \in DOMAIN file : j[1] = i[1] => j = i
    BY DEF Record
  <1>4. OneId(new)
    BY <1>2, <1>3 DEF FineFile, OneId
  <1>5. IsFiniteSet(DOMAIN new)
    BY <1>2, FS_AddElement DEF FineFile
  <1>6. \A j \in DOMAIN new : FineRecord(new[j])
    BY <1>1, <1>2 DEF FineFile
  <1>7. ASSUME NEW j \in DOMAIN file
        PROVE  /\ {k \in DOMAIN new : k[1] = j[1]} = {j}
               /\ file[j].estimate # <<>> => new[j].estimate = file[j].estimate
               /\ file[j].actual # <<>> => new[j].actual = file[j].actual
    <2>1. j \in DOMAIN new
      BY <1>2
    <2>2. {k \in DOMAIN new : k[1] = j[1]} = {j}
      BY <2>1, <1>4 DEF OneId
    <2> QED
      BY <2>2, <1>1, <1>2
  <1> QED
    BY <1>4, <1>5, <1>6, <1>7 DEF FineFile, Keeps

\* What an attempt taught is taught by the records that keep it.
LEMMA LearnedKept ==
    ASSUME NEW cal, NEW file, NEW new, LearnedFrom(cal, file), Keeps(file, new)
    PROVE  LearnedFrom(cal, new)
  <1>1. ASSUME NEW i \in cal.observed
        PROVE  /\ i \in DOMAIN new
               /\ new[i].estimate = file[i].estimate /\ new[i].actual = file[i].actual
    <2>1. i \in DOMAIN file /\ Observable(file[i])
      BY DEF LearnedFrom
    <2>2. file[i].estimate # <<>> /\ file[i].actual # <<>>
      BY <2>1 DEF Observable
    <2>3. i \in DOMAIN new
      BY <2>1 DEF Keeps
    <2> QED
      BY <2>1, <2>2, <2>3 DEF Keeps
  <1>2. ASSUME NEW i \in cal.observed
        PROVE  /\ Observable(new[i]) /\ (Teaches(new[i]) <=> Teaches(file[i]))
               /\ Ratio(new[i]) = Ratio(file[i])
    BY <1>1 DEF LearnedFrom, Observable, Teaches, Ratio
  <1>3. ASSUME NEW k \in Key
        PROVE  /\ Lessons(cal, new, k) = Lessons(cal, file, k)
               /\ Ratios(new, Lessons(cal, new, k)) = Ratios(file, Lessons(cal, file, k))
    <2>1. Lessons(cal, new, k) = Lessons(cal, file, k)
      BY <1>2 DEF Lessons
    <2>2. \A i \in Lessons(cal, file, k) : Ratio(new[i]) = Ratio(file[i])
      BY <1>2 DEF Lessons
    <2> QED
      BY <2>1, <2>2 DEF Ratios
  <1> QED
    BY <1>1, <1>2, <1>3 DEF LearnedFrom

-----------------------------------------------------------------------------
LEMMA Clamped == \A n \in Int : Max({1, Min({Ceiling, n})}) \in Nat
  <1> SUFFICES ASSUME NEW n \in Int PROVE Max({1, Min({Ceiling, n})}) \in Nat
    OBVIOUS
  <1>1. \E m \in {Ceiling, n} : \A k \in {Ceiling, n} : m <= k
    BY DEF Ceiling, Unit
  <1>2. Min({Ceiling, n}) \in Int
    BY <1>1 DEF Min, Ceiling, Unit
  <1> DEFINE m == Min({Ceiling, n})
  <1> HIDE DEF m
  <1>3. \E x \in {1, m} : \A k \in {1, m} : x >= k
    BY <1>2 DEF m
  <1>4. Max({1, m}) \in {1, m} /\ Max({1, m}) >= 1
    BY <1>2, <1>3 DEF Max, m
  <1> QED
    BY <1>2, <1>4 DEF m

LEMMA RatioTyped ==
    ASSUME NEW r, FineRecord(r), Teaches(r)
    PROVE  Ratio(r) \in Nat
  <1>1. r.estimate[1] \in Nat \ {0} /\ r.actual[1].value \in Nat
    BY DEF FineRecord, FineEstimate, FineActual, Teaches, Observable
  <1>2. (r.actual[1].value * Unit) \div r.estimate[1] \in Int
    BY <1>1 DEF Unit
  <1> QED
    BY <1>2, Clamped DEF Ratio

\* Attempts are as many as their records.
LEMMA AttemptsCounted ==
    ASSUME NEW L, IsFiniteSet(L), \A i, j \in L : i[1] = j[1] => i = j
    PROVE  Cardinality({i[1] : i \in L}) = Cardinality(L)
  <1> DEFINE T == {i[1] : i \in L}
             f == [i \in L |-> i[1]]
  <1>1. f \in Bijection(L, T)
    BY DEF Bijection, Injection, Surjection, IsInjective
  <1>2. ExistsBijection(L, T)
    BY <1>1 DEF ExistsBijection
  <1> HIDE DEF T
  <1>3. Cardinality(T) = Cardinality(L)
    BY <1>2, FS_Bijection
  <1> QED
    BY <1>3 DEF T

LEMMA Learned ==
    ASSUME NEW cal, NEW file, FineFile(file), FineCalibration(cal), LearnedFrom(cal, file)
    PROVE  FineCalibration(Learn(cal, file)) /\ LearnedFrom(Learn(cal, file), file)
  <1> DEFINE new == Learn(cal, file)
             seen == {i \in DOMAIN file : Observable(file[i])} \ cal.observed
             fresh(k) == {i \in seen : Teaches(file[i]) /\ OnPath(i, k)}
             known(k) == Lessons(cal, file, k)
  <1>1. /\ new.observed = cal.observed \cup seen
        /\ new.at = [k \in Key |-> [samples |-> cal.at[k].samples + Cardinality(fresh(k)),
                                    total |-> cal.at[k].total + SumFunction(Ratios(file, fresh(k)))]]
    BY DEF Learn
  <1>2. ASSUME NEW k \in Key
        PROVE  /\ Lessons(new, file, k) = known(k) \cup fresh(k)
               /\ known(k) \cap fresh(k) = {}
               /\ known(k) \subseteq DOMAIN file /\ fresh(k) \subseteq DOMAIN file
    BY <1>1 DEF Lessons, LearnedFrom
  <1>3. ASSUME NEW k \in Key, NEW L, L \subseteq DOMAIN file, \A i \in L : Teaches(file[i])
        PROVE  /\ IsFiniteSet(L)
               /\ Ratios(file, L) \in [L -> Nat]
               /\ Cardinality({i[1] : i \in L}) = Cardinality(L)
    <2>1. IsFiniteSet(L)
      BY <1>3, FS_Subset DEF FineFile
    <2>2. \A i \in L : Ratio(file[i]) \in Nat
      BY <1>3, RatioTyped DEF FineFile
    <2>3. \A i, j \in L : i[1] = j[1] => i = j
      BY <1>3 DEF FineFile, OneId
    <2> QED
      BY <2>1, <2>2, <2>3, AttemptsCounted DEF Ratios
  <1> HIDE DEF new, seen
  <1>4. ASSUME NEW k \in Key
        PROVE  /\ new.at[k] \in [samples : Nat, total : Nat]
               /\ new.at[k].samples = Cardinality({i[1] : i \in Lessons(new, file, k)})
               /\ new.at[k].total = SumFunction(Ratios(file, Lessons(new, file, k)))
    <2> DEFINE L == Lessons(new, file, k)
               A == known(k)
               B == fresh(k)
    <2>1. L = A \cup B /\ A \cap B = {} /\ A \subseteq DOMAIN file /\ B \subseteq DOMAIN file
      BY <1>2, <1>4
    <2>2. (\A i \in A : Teaches(file[i])) /\ (\A i \in B : Teaches(file[i]))
      BY DEF Lessons
    <2>3. /\ cal.at[k].samples = Cardinality({i[1] : i \in A})
          /\ cal.at[k].total = SumFunction(Ratios(file, A))
          /\ cal.at[k].samples \in Nat /\ cal.at[k].total \in Nat
      BY <1>4 DEF LearnedFrom, FineCalibration
    <2>4. /\ new.at[k] = [samples |-> cal.at[k].samples + Cardinality(B),
                          total |-> cal.at[k].total + SumFunction(Ratios(file, B))]
      BY <1>1, <1>4
    <2> HIDE DEF L, A, B
    <2>5. /\ IsFiniteSet(A) /\ Ratios(file, A) \in [A -> Nat] /\ Cardinality({i[1] : i \in A}) = Cardinality(A)
          /\ IsFiniteSet(B) /\ Ratios(file, B) \in [B -> Nat]
      BY <1>3, <1>4, <2>1, <2>2
    <2>6. IsFiniteSet(L) /\ Ratios(file, L) \in [L -> Nat] /\ Cardinality({i[1] : i \in L}) = Cardinality(L)
      BY <1>3, <1>4, <2>1, <2>2
    <2>7. Cardinality(L) = Cardinality(A) + Cardinality(B)
      <3>1. Cardinality(A \cup B) = Cardinality(A) + Cardinality(B) - Cardinality({})
        BY <2>1, <2>5, FS_Union
      <3> QED
        BY <3>1, <2>1, <2>5, FS_EmptySet, FS_CardinalityType
    <2>8. SumFunction(Ratios(file, L)) = SumFunction(Ratios(file, A)) + SumFunction(Ratios(file, B))
      <3>1. /\ Ratios(file, A) = [i \in A |-> Ratios(file, L)[i]]
            /\ Ratios(file, B) = [i \in B |-> Ratios(file, L)[i]]
        BY <2>1 DEF Ratios
      <3> DEFINE f == Ratios(file, L)
                 a == Ratios(file, A)
                 b == Ratios(file, B)
      <3> HIDE DEF f, a, b
      <3>2. /\ f \in [L -> Nat] /\ IsFiniteSet(L) /\ A \cup B = L /\ A \cap B = {}
            /\ a = [i \in A |-> f[i]] /\ b = [i \in B |-> f[i]]
        BY <3>1, <2>1, <2>6 DEF f, a, b
      <3>3. SumFunction(f) = SumFunction(a) + SumFunction(b)
        BY <3>2, SumDisjoint
      <3> QED
        BY <3>3 DEF f, a, b
    <2>9. Cardinality(B) \in Nat /\ SumFunction(Ratios(file, B)) \in Nat
      <3>1. DOMAIN Ratios(file, B) = B
        BY DEF Ratios
      <3> QED
        BY <3>1, <2>5, SumTyped, FS_CardinalityType
    <2>10. /\ new.at[k].samples = Cardinality({i[1] : i \in L})
           /\ new.at[k].total = SumFunction(Ratios(file, L))
      BY <2>3, <2>4, <2>5, <2>6, <2>7, <2>8
    <2>11. new.at[k] \in [samples : Nat, total : Nat]
      BY <2>3, <2>4, <2>9
    <2> QED
      BY <2>10, <2>11 DEF L
  <1>5. FineCalibration(new)
    BY <1>1, <1>4 DEF FineCalibration
  <1>6. LearnedFrom(new, file)
    BY <1>1, <1>4 DEF LearnedFrom, seen
  <1> QED
    BY <1>5, <1>6 DEF new

-----------------------------------------------------------------------------
(* Commands that overlap.                                                  *)

LEMMA UsageInvInit == UsageInit => UsageInv
  <1> SUFFICES ASSUME UsageInit PROVE UsageInv
    OBVIOUS
  <1>1. LearnedFrom(calibration, usage)
    <2>1. \A k \in Key : /\ Lessons(calibration, usage, k) = {}
                         /\ calibration.at[k].samples = 0 /\ calibration.at[k].total = 0
      BY DEF UsageInit, Lessons, NoSamples
    <2>2. Cardinality({i[1] : i \in {}}) = 0
      BY FS_EmptySet
    <2>3. SumFunction(Ratios(usage, {})) = 0
      <3> DEFINE f == Ratios(usage, {})
      <3>1. DOMAIN f = {} /\ f \in [{} -> Nat]
        BY DEF Ratios
      <3>2. Under(f, {}) = {}
        BY DEF Under
      <3> HIDE DEF f
      <3>3. SumFunction(f) = Cardinality({})
        BY <3>1, <3>2, SumCounts, FS_EmptySet
      <3> QED
        BY <3>3, FS_EmptySet DEF f
    <2>4. calibration.observed = {}
      BY DEF UsageInit
    <2> QED
      BY <2>1, <2>2, <2>3, <2>4 DEF LearnedFrom
  <1>2. FineFile(usage)
    BY FS_EmptySet DEF UsageInit, FineFile, OneId
  <1>3. FineCalibration(calibration)
    BY DEF UsageInit, FineCalibration, NoSamples
  <1> QED
    BY <1>1, <1>2, <1>3 DEF UsageInit, UsageInv, FineEstimate, FineActual

LEMMA CoefficientTyped ==
    ASSUME NEW a \in Attempt, NEW at \in [Key -> [samples : Nat, total : Nat]]
    PROVE  Corrected(a, at) \in Nat
  <1> DEFINE sampled == {k \in DOMAIN Path[a] : at[Path[a][k]].samples >= MinSamples}
  <1>1. sampled \subseteq Nat
    BY UsageAssumption
  <1>2. Coefficient(a, at) \in Nat
    <2>1. CASE sampled = {}
      BY <2>1 DEF Coefficient, Unit
    <2>2. CASE sampled # {}
      <3>1. Min(sampled) \in sampled
        BY <1>1, <2>2, Smallest DEF Min
      <3>2. Coefficient(a, at) = Mean(at[Path[a][Min(sampled)]])
        BY <2>2 DEF Coefficient
      <3>3. Path[a][Min(sampled)] \in Key
        <4> DEFINE keys(b) == {Path[b][k] : k \in DOMAIN Path[b]}
        <4>1. Path[a][Min(sampled)] \in keys(a)
          BY <3>1
        <4>2. Key = UNION {keys(b) : b \in Attempt}
          BY DEF Key
        <4> HIDE DEF keys
        <4> QED
          BY <4>1, <4>2
      <3>4. at[Path[a][Min(sampled)]].samples >= MinSamples
        BY <3>1
      <3> DEFINE s == at[Path[a][Min(sampled)]]
      <3> HIDE DEF s
      <3>5. s.samples \in Nat /\ s.total \in Nat /\ s.samples # 0
        BY <3>3, <3>4, UsageAssumption DEF s
      <3>6. s.total \div s.samples \in Nat
        BY <3>5
      <3> QED
        BY <3>2, <3>6 DEF Mean, s
    <2> QED
      BY <2>1, <2>2
  <1>3. Baseline[a] \in Nat
    BY UsageAssumption
  <1> QED
    BY <1>2, <1>3 DEF Corrected, Unit

\* The commands under way, when only one of them moves.
LEMMA ClerkMoves ==
    ASSUME UsageInv, NEW c \in Clerk, NEW work,
           clerk' = [clerk EXCEPT ![c] = work],
           UNCHANGED <<estimated, took, usage, calibration, lapped>>,
           work # <<>> =>
             /\ "id" \in DOMAIN work[1] => FineFile(work[1].file) /\ FineRecord(work[1].record)
             /\ "learned" \in DOMAIN work[1] =>
                   /\ FineCalibration(work[1].learned)
                   /\ ~lapped => LearnedFrom(work[1].learned, usage)
    PROVE  UsageInv'
  <1>1. DOMAIN clerk' = Clerk /\ clerk'[c] = work /\ \A d \in Clerk : d # c => clerk'[d] = clerk[d]
    BY DEF UsageInv
  <1> QED
    BY <1>1 DEF UsageInv

LEMMA KeepUsageEstimate == ASSUME UsageInv, NEW a \in Attempt, Estimate(a) PROVE UsageInv'
  <1>1. Corrected(a, calibration.at) \in Nat
    BY CoefficientTyped DEF UsageInv, FineCalibration
  <1>2. estimated' = [estimated EXCEPT ![a] = <<Corrected(a, calibration.at)>>]
    BY DEF Estimate
  <1>3. DOMAIN estimated' = Attempt /\ \A b \in Attempt : FineEstimate(estimated'[b])
    BY <1>1, <1>2 DEF UsageInv, FineEstimate
  <1> QED
    BY <1>3 DEF UsageInv, Estimate

LEMMA KeepUsageEnd == ASSUME UsageInv, NEW a \in Attempt, End(a) \/ Cancel(a) PROVE UsageInv'
  <1>1. PICK t : /\ took' = [took EXCEPT ![a] = <<t>>] /\ t.value \in Nat \cup {Unknown}
                 /\ UNCHANGED <<estimated, usage, calibration, clerk, lapped>>
    <2>1. CASE End(a)
      <3>1. PICK f \in Factor : took' = [took EXCEPT ![a] =
                      <<[value |-> f * Baseline[a], result |-> "completed"]>>]
        BY <2>1 DEF End
      <3>2. f * Baseline[a] \in Nat
        BY UsageAssumption
      <3> QED
        BY <2>1, <3>1, <3>2 DEF End
    <2>2. CASE Cancel(a)
      BY <2>2 DEF Cancel
    <2> QED
      BY <2>1, <2>2
  <1>2. DOMAIN took' = Attempt /\ \A b \in Attempt : FineActual(took'[b])
    BY <1>1 DEF UsageInv, FineActual
  <1> QED
    BY <1>1, <1>2 DEF UsageInv

LEMMA KeepReadUsage == ASSUME UsageInv, NEW c \in Clerk, NEW a \in Attempt, ReadUsage(c, a) PROVE UsageInv'
  <1>1. ASSUME NEW i, NEW report, FineRecord(report),
               clerk' = [clerk EXCEPT ![c] = <<[file |-> usage, id |-> i, record |-> report]>>]
        PROVE  UsageInv'
    <2> DEFINE work == <<[file |-> usage, id |-> i, record |-> report]>>
    <2>1. /\ work[1].file = usage /\ work[1].record = report /\ "learned" \notin DOMAIN work[1]
      OBVIOUS
    <2>2. UNCHANGED <<estimated, took, usage, calibration, lapped>>
      BY DEF ReadUsage
    <2>3. clerk' = [clerk EXCEPT ![c] = work] /\ FineFile(usage)
      BY <1>1 DEF UsageInv
    <2> HIDE DEF work
    <2> QED
      BY <1>1, <2>1, <2>2, <2>3, ClerkMoves
  <1>2. ASSUME NEW report \in Reports(a) PROVE FineRecord(report)
    BY DEF Reports, UsageInv, FineRecord, FineEstimate, FineActual
  <1>3. FineRecord(Hearsay)
    BY DEF Hearsay, FineRecord, FineEstimate, FineActual
  <1> QED
    BY <1>1, <1>2, <1>3 DEF ReadUsage

LEMMA KeepWriteUsage ==
    ASSUME UsageInv, NEW c \in Clerk, WriteUsage(c)
    PROVE  UsageInv' /\ (lapped' \/ Keeps(usage, usage'))
  <1> DEFINE w == clerk[c][1]
             written == Record(w.file, w.id, w.record)
  <1>0. FineFile(usage) => Keeps(usage, usage)
    BY DEF FineFile, OneId, Keeps
  <1>1. FineFile(w.file) /\ FineRecord(w.record)
    BY DEF WriteUsage, UsageInv
  <1>2. /\ clerk' = [clerk EXCEPT ![c] = <<>>] /\ UNCHANGED <<estimated, took, calibration>>
        /\ \/ UNCHANGED <<usage, lapped>>
           \/ usage' \in written /\ lapped' = (lapped \/ usage # w.file)
    BY DEF WriteUsage
  <1>3. CASE UNCHANGED <<usage, lapped>>
    <2>1. UsageInv'
      BY <1>2, <1>3, ClerkMoves
    <2> QED
      BY <2>1, <1>0, <1>3 DEF UsageInv
  <1>4. CASE usage' \in written /\ lapped' = (lapped \/ usage # w.file)
    <2>1. FineFile(usage') /\ Keeps(w.file, usage')
      BY <1>1, <1>4, RecordedSection
    <2>2. ~lapped' => ~lapped /\ Keeps(usage, usage')
      BY <1>4, <2>1
    <2>3. \A cal : ~lapped' /\ LearnedFrom(cal, usage) => LearnedFrom(cal, usage')
      BY <2>2, LearnedKept
    <2>4. DOMAIN clerk' = Clerk /\ clerk'[c] = <<>> /\ \A d \in Clerk : d # c => clerk'[d] = clerk[d]
      BY <1>2 DEF UsageInv
    <2>5. UsageInv'
      BY <1>2, <2>1, <2>2, <2>3, <2>4 DEF UsageInv
    <2> QED
      BY <2>5, <2>2
  <1> QED
    BY <1>2, <1>3, <1>4

LEMMA KeepReadCalibration == ASSUME UsageInv, NEW c \in Clerk, ReadCalibration(c) PROVE UsageInv'
  <1> DEFINE work == <<[learned |-> Learn(calibration, usage)]>>
  <1>1. FineCalibration(Learn(calibration, usage)) /\ LearnedFrom(Learn(calibration, usage), usage)
    BY Learned DEF UsageInv, ReadCalibration
  <1>2. work[1].learned = Learn(calibration, usage) /\ "id" \notin DOMAIN work[1]
    OBVIOUS
  <1>3. /\ clerk' = [clerk EXCEPT ![c] = work]
        /\ UNCHANGED <<estimated, took, usage, calibration, lapped>>
    BY DEF ReadCalibration
  <1> HIDE DEF work
  <1> QED
    BY <1>1, <1>2, <1>3, ClerkMoves

LEMMA KeepWriteCalibration == ASSUME UsageInv, NEW c \in Clerk, WriteCalibration(c) PROVE UsageInv'
  <1>1. /\ FineCalibration(calibration') /\ (~lapped => LearnedFrom(calibration', usage))
        /\ clerk' = [clerk EXCEPT ![c] = <<>>] /\ UNCHANGED <<estimated, took, usage, lapped>>
    BY DEF WriteCalibration, UsageInv
  <1>2. DOMAIN clerk' = Clerk /\ clerk'[c] = <<>> /\ \A d \in Clerk : d # c => clerk'[d] = clerk[d]
    BY <1>1 DEF UsageInv
  <1> QED
    BY <1>1, <1>2 DEF UsageInv

LEMMA UsageInvNext == UsageInv /\ [UsageNext]_usageVars => UsageInv' /\ (lapped' \/ Keeps(usage, usage'))
  <1> SUFFICES ASSUME UsageInv, [UsageNext]_usageVars PROVE UsageInv' /\ (lapped' \/ Keeps(usage, usage'))
    OBVIOUS
  <1>0. Keeps(usage, usage)
    BY DEF UsageInv, FineFile, OneId, Keeps
  <1>1. ASSUME NEW a \in Attempt, Estimate(a) PROVE UsageInv' /\ usage' = usage
    BY <1>1, KeepUsageEstimate DEF Estimate
  <1>2. ASSUME NEW a \in Attempt, End(a) \/ Cancel(a) PROVE UsageInv' /\ usage' = usage
    BY <1>2, KeepUsageEnd DEF End, Cancel
  <1>3. ASSUME NEW c \in Clerk, NEW a \in Attempt, ReadUsage(c, a) PROVE UsageInv' /\ usage' = usage
    BY <1>3, KeepReadUsage DEF ReadUsage
  <1>4. ASSUME NEW c \in Clerk, WriteUsage(c) PROVE UsageInv' /\ (lapped' \/ Keeps(usage, usage'))
    BY <1>4, KeepWriteUsage
  <1>5. ASSUME NEW c \in Clerk, ReadCalibration(c) PROVE UsageInv' /\ usage' = usage
    BY <1>5, KeepReadCalibration DEF ReadCalibration
  <1>6. ASSUME NEW c \in Clerk, WriteCalibration(c) PROVE UsageInv' /\ usage' = usage
    BY <1>6, KeepWriteCalibration DEF WriteCalibration
  <1>7. CASE UNCHANGED usageVars
    BY <1>0, <1>7 DEF usageVars, UsageInv
  <1>8. CASE UsageNext
    BY <1>0, <1>1, <1>2, <1>3, <1>4, <1>5, <1>6, <1>8 DEF UsageNext
  <1> QED
    BY <1>7, <1>8

\* `observe_all` and `calibrate-usage`, however they overlap with `record-usage`:
\* unless a command wrote over what another had written, the samples and the sum
\* at every key are those of the attempts observed, each once.
THEOREM CalibrationFollowsLedger == UsageSpec => []CalibrationAgrees
  <1>1. UsageInv => CalibrationAgrees
    BY DEF UsageInv, LearnedFrom, Lessons, CalibrationAgrees
  <1> QED
    BY <1>1, UsageInvInit, UsageInvNext, PTL DEF UsageSpec

\* `append` and `_merge_section`: an attempt's record keeps its id, and a section
\* that was filled is never changed, by any command but one that wrote over a file
\* replaced since it was read (which loses records: MCUsageLedger).
THEOREM SectionsStay == UsageSpec => SectionsKept
  <1>1. UsageInv /\ [UsageNext]_usageVars => (lapped' \/ Keeps(usage, usage'))
    BY UsageInvNext
  <1>2. (lapped' \/ Keeps(usage, usage')) => [lapped' \/ \A i \in DOMAIN usage : StaysOn(i)]_usageVars
    BY DEF Keeps, StaysOn
  <1> QED
    BY <1>1, <1>2, UsageInvInit, UsageInvNext, PTL DEF UsageSpec, SectionsKept

-----------------------------------------------------------------------------
(* What a run cost.                                                        *)

HonestClaim(c) ==
    /\ c.figures.usd # None =>
          /\ c.pricing # None
          /\ \A k \in Priced(c.pricing) : c.tokens[k] # None
          /\ c.figures.usd = Cost(c.pricing, c.tokens)
    /\ c.figures.billed # None => c.pricing.mode = "payg"

LEMMA ClaimFields ==
  ASSUME NEW c \in Claim
  PROVE  /\ c.pricing # None => c.pricing \in Pricing
         /\ c.figures.status \in Status
         /\ c.units \in Units \cup {None}
BY SMT DEF Claim, Figures

\* What passes both tests of a record that is loaded states no more than is known.
LEMMA LoadedHonest ==
  ASSUME NEW c \in Claim, WellFormed(c), Reproducible(c)
  PROVE  HonestClaim(c)
PROOF
  <1>1. CASE c.pricing = None
    BY <1>1, ClaimFields DEF WellFormed, HonestClaim, Status, Mode
  <1>2. CASE c.pricing # None
    <2>1. PICK e \in Equivalent(c.tokens, c.pricing, c.units) :
             e.status = c.figures.status /\ e.usd = c.figures.usd /\ e.billed = c.figures.billed
      BY <1>2 DEF Reproducible
    <2>2. e.usd = UsdFor(c.pricing, c.tokens) /\ (e.billed # None => c.pricing.mode = "payg")
      <3>1. CASE c.pricing.mode = "subscription"
        BY <3>1, <1>2, <2>1 DEF Equivalent
      <3>2. CASE c.pricing.mode # "subscription"
        BY <3>2, <1>2, <2>1, ClaimFields DEF Equivalent, Pricing, Mode
      <3> QED BY <3>1, <3>2
    <2>3. UsdFor(c.pricing, c.tokens) # None =>
             /\ \A k \in Priced(c.pricing) : c.tokens[k] # None
             /\ UsdFor(c.pricing, c.tokens) = Cost(c.pricing, c.tokens)
      BY DEF UsdFor
    <2> QED BY <1>2, <2>1, <2>2, <2>3 DEF HonestClaim
  <1> QED BY <1>1, <1>2

\* What Forge builds, read back with the capacity it was written with, is accepted.
LEMMA BuiltLoads ==
  ASSUME NEW c \in Claim, Built(c)
  PROVE  WellFormed(c) /\ Reproducible(c)
PROOF
  <1>1. PICK given \in Units \cup {None} : \E e \in Equivalent(c.tokens, c.pricing, given) :
             /\ c.figures = [status |-> e.status, usd |-> e.usd, billed |-> e.billed]
             /\ c.units = e.units
    BY DEF Built
  <1>2. PICK e \in Equivalent(c.tokens, c.pricing, given) :
             /\ c.figures = [status |-> e.status, usd |-> e.usd, billed |-> e.billed]
             /\ c.units = e.units
    BY <1>1
  <1>3. c.figures.status = e.status /\ c.figures.usd = e.usd /\ c.figures.billed = e.billed
    BY <1>2
  <1>4. CASE c.pricing = None
    <2>1. e = [status |-> "unknown", usd |-> None, billed |-> None, units |-> given]
      BY <1>2, <1>4 DEF Equivalent
    <2> QED BY <2>1, <1>3, <1>4 DEF WellFormed, Reproducible
  <1>5. CASE c.pricing # None /\ c.pricing.mode = "subscription"
    <2> DEFINE built(u) == [status |-> "subscription", usd |-> UsdFor(c.pricing, c.tokens), billed |-> None,
                units |-> Capacity(c.pricing, c.tokens, u)]
    <2>1. \A u : Equivalent(c.tokens, c.pricing, u) = {built(u)}
      BY <1>5 DEF Equivalent
    <2>2. e = built(given) /\ built(c.units) \in Equivalent(c.tokens, c.pricing, c.units)
      BY <2>1, <1>2
    <2>3. e.status = "subscription" /\ e.usd = UsdFor(c.pricing, c.tokens) /\ e.billed = None
      BY <2>2
    <2> QED BY <2>2, <2>3, <1>3, <1>5 DEF WellFormed, Reproducible
  <1>6. CASE c.pricing # None /\ c.pricing.mode = "payg"
    <2>1. e = [status |-> IF UsdFor(c.pricing, c.tokens) = None THEN "unknown" ELSE "payg",
                usd |-> UsdFor(c.pricing, c.tokens), billed |-> UsdFor(c.pricing, c.tokens), units |-> None]
      BY <1>2, <1>6 DEF Equivalent
    <2>2. e \in Equivalent(c.tokens, c.pricing, c.units)
      BY <2>1, <1>2, <1>6 DEF Equivalent
    <2> QED BY <2>1, <2>2, <1>3, <1>6 DEF WellFormed, Reproducible
  <1> QED BY <1>4, <1>5, <1>6, ClaimFields DEF Pricing, Mode

MoneyInv ==
    /\ claim \in Claim /\ entry \in {"submitted", "recorded", "refused"}
    /\ HonestMoney

\* `monetary_equivalent`, `_load_monetary` and `_require_reproducible_money`: what is
\* recorded is known and follows from the snapshot, and what Forge built is recorded.
THEOREM HonestMoneyHolds == MoneySpec => []HonestMoney
PROOF
  <1>1. MoneyInit => MoneyInv
    BY DEF MoneyInit, MoneyInv, HonestMoney
  <1>2. MoneyInv /\ [MoneyNext]_moneyVars => MoneyInv'
    <2> SUFFICES ASSUME MoneyInv, [MoneyNext]_moneyVars PROVE MoneyInv'
      OBVIOUS
    <2>1. CASE Load
      <3>1. claim' = claim /\ claim \in Claim
        BY <2>1 DEF Load, MoneyInv
      <3>2. CASE entry' = "recorded"
        <4>1. HonestClaim(claim)
          BY <2>1, <3>1, <3>2, LoadedHonest DEF Load
        <4> QED BY <4>1, <3>1, <3>2 DEF MoneyInv, HonestMoney, HonestClaim
      <3>3. CASE entry' = "refused"
        <4>1. ~Built(claim)
          BY <2>1, <3>1, <3>3, BuiltLoads DEF Load
        <4> QED BY <4>1, <3>1, <3>3 DEF MoneyInv, HonestMoney, Built
      <3> QED BY <3>2, <3>3, <2>1 DEF Load
    <2>2. CASE UNCHANGED moneyVars
      BY <2>2 DEF moneyVars, MoneyInv, HonestMoney, Built
    <2> QED BY <2>1, <2>2 DEF MoneyNext
  <1>3. MoneyInv => HonestMoney
    BY DEF MoneyInv
  <1> QED BY <1>1, <1>2, <1>3, PTL DEF MoneySpec

-----------------------------------------------------------------------------
(* A unit's duration.                                                      *)

LEMMA RankFound ==
    ASSUME NEW samples, NEW q \in 1 .. 100, IsFiniteSet(DOMAIN samples), DOMAIN samples # {},
           \A i \in DOMAIN samples : samples[i] \in Nat
    PROVE  NearestRank(samples, q) \in Nat
  <1> DEFINE D == DOMAIN samples
             N == Cardinality(D)
             rank == (q * N + 99) \div 100
             upto(v) == {i \in D : samples[i] <= v}
             below(v) == {i \in D : samples[i] < v}
             V == {samples[i] : i \in D}
  <1>1. N \in Nat /\ N >= 1
    <2>1. N \in Nat
      BY FS_CardinalityType
    <2>2. N # 0
      BY FS_EmptySet
    <2> QED BY <2>1, <2>2
  <1>2. rank \in Nat /\ 1 <= rank /\ rank <= N
    <2> HIDE DEF N
    <2>1. q \in Nat /\ 1 <= q /\ q <= 100
      OBVIOUS
    <2>2. q * N >= 1 /\ q * N <= 100 * N /\ q * N \in Nat
      BY <1>1, <2>1
    <2> QED BY <1>1, <2>2
  <1>3. V \subseteq Nat /\ V # {} /\ IsFiniteSet(V)
    BY ImageFinite
  <1>4. \A v : /\ IsFiniteSet(upto(v)) /\ Cardinality(upto(v)) \in Nat
               /\ IsFiniteSet(below(v)) /\ Cardinality(below(v)) \in Nat
    <2> TAKE v
    <2>1. upto(v) \in SUBSET D /\ below(v) \in SUBSET D
      OBVIOUS
    <2> HIDE DEF D, upto, below
    <2>2. IsFiniteSet(D)
      BY DEF D
    <2> QED BY <2>1, <2>2, FS_Subset, FS_CardinalityType
  <1> DEFINE R == {v \in V : Cardinality(upto(v)) >= rank}
  <1>5. R # {}
    <2> DEFINE m == Max(V)
    <2>1. m \in V /\ \A v \in V : v <= m
      BY <1>3, Largest
    <2>2. upto(m) = D
      BY <2>1
    <2> HIDE DEF V, m, D, upto, rank
    <2>3. m \in R
      BY <2>1, <2>2, <1>2
    <2> QED BY <2>3
  <1>6. PICK v \in R : \A w \in R : v <= w
    <2>1. R \in SUBSET Nat
      BY <1>3
    <2> HIDE DEF R
    <2> QED BY <2>1, <1>5, Smallest
  <1>7. Cardinality(below(v)) < rank
    <2>1. SUFFICES ASSUME Cardinality(below(v)) >= rank PROVE FALSE
      <3> HIDE DEF below, rank
      <3> QED BY <1>2, <1>4
    <2>2. below(v) # {}
      <3> HIDE DEF below, rank
      <3> QED BY <2>1, <1>2, FS_EmptySet
    <2> DEFINE W == {samples[i] : i \in below(v)}
    <2>3. W \subseteq V /\ W # {} /\ IsFiniteSet(W)
      <3>1. IsFiniteSet(W)
        <4> HIDE DEF below
        <4> QED BY <1>4, ImageFinite
      <3> QED BY <3>1, <2>2
    <2>4. PICK w \in W : \A x \in W : x <= w
      <3> HIDE DEF W, V
      <3> QED BY <1>3, <2>3, Largest
    <2>5. w \in V /\ w < v
      BY <2>4
    <2>6. upto(w) = below(v)
      BY <2>4, <2>5, <1>3
    <2>7. w \in R
      <3> HIDE DEF upto, below, V, rank
      <3> QED BY <2>1, <2>5, <2>6
    <2> QED
      BY <1>6, <2>5, <2>7, <1>3
  <1>8. \E x \in V : Cardinality(upto(x)) >= rank /\ Cardinality(below(x)) < rank
    <2> HIDE DEF upto, below, V, rank
    <2> QED BY <1>6, <1>7
  <1>9. NearestRank(samples, q) \in V
    <2>1. NearestRank(samples, q) = CHOOSE x \in V : Cardinality(upto(x)) >= rank /\ Cardinality(below(x)) < rank
      BY DEF NearestRank
    <2> HIDE DEF upto, below, V, rank
    <2> QED BY <2>1, <1>8
  <1> QED
    BY <1>3, <1>9

LEMMA UpToFinite == ASSUME NEW n \in Nat PROVE IsFiniteSet(1 .. n)
  BY FS_Interval

LEMMA DurationTyped == ASSUME NEW u \in Task, NEW q \in 1 .. 100 PROVE Duration(u, q) \in Nat
  <1>0. /\ \A m \in DOMAIN Runtimes : Runtimes[m] \in Seq(Nat)
        /\ IsFiniteSet(DOMAIN Runtimes)
        /\ Limit \in Nat /\ Enough \in Nat /\ Enough >= 1
    BY ForecastAssumption
  <1>1. Mission[u] \in DOMAIN Runtimes /\ Runtimes[Mission[u]] \in Seq(Nat)
    BY ForecastAssumption
  <1>2. CASE Len(Runtimes[Mission[u]]) >= Enough
    <2> DEFINE s == Runtimes[Mission[u]]
    <2>1. DOMAIN s = 1 .. Len(s) /\ Len(s) \in Nat /\ Len(s) >= 1 /\ \A i \in DOMAIN s : s[i] \in Nat
      BY <1>0, <1>1, <1>2
    <2> HIDE DEF s
    <2> DEFINE n == Len(s)
    <2> HIDE DEF n
    <2>0. n \in Nat /\ n >= 1 /\ DOMAIN s = 1 .. n
      BY <2>1 DEF n
    <2>2. IsFiniteSet(DOMAIN s) /\ DOMAIN s # {}
      <3>1. IsFiniteSet(1 .. n)
        BY <2>0, UpToFinite
      <3>2. DOMAIN s = 1 .. n /\ 1 \in 1 .. n
        BY <2>0
      <3> QED BY <3>1, <3>2, Zenon
    <2>3. NearestRank(s, q) \in Nat
      BY <2>1, <2>2, RankFound
    <2> QED BY <2>3, <1>2 DEF Duration, s
  <1>3. CASE ~(Len(Runtimes[Mission[u]]) >= Enough) /\ Cardinality(DOMAIN Pooled) >= Enough
    <2>1. DOMAIN Pooled = UNION {{m} \X DOMAIN Runtimes[m] : m \in DOMAIN Runtimes}
      BY DEF Pooled
    <2>2. IsFiniteSet(DOMAIN Pooled)
      <3> DEFINE g == [m \in DOMAIN Runtimes |-> {m} \X DOMAIN Runtimes[m]]
                 T == {g[m] : m \in DOMAIN Runtimes}
      <3>1. IsFiniteSet(T)
        <4> DEFINE M == DOMAIN Runtimes
        <4>1. IsFiniteSet(M) /\ T = {g[m] : m \in M}
          BY <1>0
        <4> HIDE DEF g, T, M
        <4> QED BY <4>1, ImageFinite
      <3>2. ASSUME NEW m \in DOMAIN Runtimes PROVE IsFiniteSet(g[m])
        <4>1. DOMAIN Runtimes[m] = 1 .. Len(Runtimes[m]) /\ Len(Runtimes[m]) \in Nat
          BY <1>0
        <4> DEFINE n == Len(Runtimes[m])
        <4> HIDE DEF n
        <4>0. n \in Nat /\ DOMAIN Runtimes[m] = 1 .. n
          BY <4>1 DEF n
        <4>4. IsFiniteSet(1 .. n)
          BY <4>0, UpToFinite
        <4>2. IsFiniteSet(DOMAIN Runtimes[m]) /\ IsFiniteSet({m})
          BY <4>0, <4>4, FS_Singleton
        <4>3. IsFiniteSet({m} \X DOMAIN Runtimes[m])
          BY <4>2, FS_Product
        <4> QED BY <4>3
      <3>3. \A t \in T : IsFiniteSet(t)
        BY <3>2
      <3>4. DOMAIN Pooled = UNION T
        BY <2>1
      <3> HIDE DEF T
      <3> QED BY <3>1, <3>3, <3>4, FS_UNION
    <2>3. \A p \in DOMAIN Pooled : Pooled[p] \in Nat
      <3> SUFFICES ASSUME NEW p \in DOMAIN Pooled PROVE Pooled[p] \in Nat
        OBVIOUS
      <3>1. PICK m \in DOMAIN Runtimes : p \in {m} \X DOMAIN Runtimes[m]
        BY <2>1
      <3>2. p[1] = m /\ p[2] \in DOMAIN Runtimes[m]
        BY <3>1
      <3>3. Pooled[p] = Runtimes[p[1]][p[2]]
        BY <2>1 DEF Pooled
      <3>4. Runtimes[m] \in Seq(Nat)
        BY <1>0
      <3> QED BY <3>2, <3>3, <3>4
    <2>4. DOMAIN Pooled # {}
      <3>1. Cardinality(DOMAIN Pooled) # 0
        <4>1. ~(0 >= Enough)
          BY <1>0
        <4> QED BY <1>3, <4>1
      <3> QED BY <3>1, FS_EmptySet
    <2>5. NearestRank(Pooled, q) \in Nat
      BY <2>2, <2>3, <2>4, RankFound
    <2> QED BY <2>5, <1>3 DEF Duration
  <1>4. CASE ~(Len(Runtimes[Mission[u]]) >= Enough) /\ ~(Cardinality(DOMAIN Pooled) >= Enough)
    BY <1>0, <1>4 DEF Duration
  <1> QED BY <1>2, <1>3, <1>4

-----------------------------------------------------------------------------
(* The schedule: what the recursion over dependencies comes to.           *)

\* When the last of a unit's dependencies is done, and when it is.
LatestOf(at, f, u) == Max({at} \cup {f[d] : d \in DependsOn[u]})

Ends(f, u) ==
    IF progress[u] = "completed" THEN hour
    ELSE IF progress[u] = "running" THEN Max({hour, Since(u) + Duration(u, 50)})
    ELSE LatestOf(hour, f, u) + Duration(u, 50)

LEMMA EndsLocal ==
    ASSUME NEW u, NEW f, NEW g, \A d \in DependsOn[u] : f[d] = g[d]
    PROVE  Ends(f, u) = Ends(g, u)
  <1>1. {f[d] : d \in DependsOn[u]} = {g[d] : d \in DependsOn[u]}
    OBVIOUS
  <1> QED
    BY <1>1 DEF Ends, LatestOf

\* Some units build on none of each other: the ones to look at first.
LEMMA BuildsOnOthers ==
    ASSUME NEW D \in SUBSET Task, D # {}
    PROVE  \E u \in D : DependsOn[u] \subseteq Task \ D
  <1>1. PICK u \in D : DependsOn[u] \cap D = {}
    BY ForecastAssumption
  <1>2. DependsOn[u] \subseteq Task
    BY ForecastAssumption
  <1> QED
    BY <1>1, <1>2

Forecastable(D) ==
    /\ \A u \in D : DependsOn[u] \subseteq D
    /\ \E f : f = [u \in D |-> Ends(f, u)]

LEMMA ForecastOneMore ==
    ASSUME NEW D \in SUBSET Task, NEW u \in Task, u \notin D, DependsOn[u] \subseteq D, Forecastable(D)
    PROVE  Forecastable(D \cup {u})
  <1>1. PICK f : f = [v \in D |-> Ends(f, v)]
    BY DEF Forecastable
  <1> DEFINE g == [v \in D \cup {u} |-> IF v = u THEN Ends(f, u) ELSE f[v]]
  <1>2. \A d \in D : g[d] = f[d]
    OBVIOUS
  <1>3. ASSUME NEW v \in D \cup {u} PROVE g[v] = Ends(g, v)
    <2>1. Ends(g, v) = Ends(f, v)
      <3>1. DependsOn[v] \subseteq D
        BY DEF Forecastable
      <3>2. \A d \in DependsOn[v] : g[d] = f[d]
        BY <3>1, <1>2
      <3> HIDE DEF g
      <3> QED BY <3>2, EndsLocal
    <2>2. CASE v = u
      BY <2>1, <2>2
    <2>3. CASE v # u
      <3>1. g[v] = f[v] /\ v \in D
        BY <2>3
      <3>2. f[v] = Ends(f, v)
        BY <1>1, <3>1
      <3> QED BY <2>1, <3>1, <3>2
    <2> QED BY <2>2, <2>3
  <1>4. g = [v \in D \cup {u} |-> Ends(g, v)]
    <2>1. g = [v \in D \cup {u} |-> g[v]]
      OBVIOUS
    <2> HIDE DEF g
    <2> QED BY <2>1, <1>3
  <1>5. \A v \in D \cup {u} : DependsOn[v] \subseteq D \cup {u}
    BY DEF Forecastable
  <1>6. \E h : h = [v \in D \cup {u} |-> Ends(h, v)]
    <2> HIDE DEF g
    <2> QED BY <1>4
  <1> QED
    BY <1>5, <1>6 DEF Forecastable

LEMMA AllForecastable == Forecastable(Task)
  <1> DEFINE Bad == {T \in SUBSET Task : Forecastable(Task \ T)}
  <1>1. Task \in Bad
    <2>1. [u \in {} |-> 0] = [u \in {} |-> Ends([v \in {} |-> 0], u)]
      OBVIOUS
    <2>2. \E f : f = [u \in {} |-> Ends(f, u)]
      <3> DEFINE f == [u \in {} |-> 0]
      <3>1. f = [u \in {} |-> Ends(f, u)]
        OBVIOUS
      <3> HIDE DEF f
      <3> QED BY <3>1
    <2>3. Forecastable({})
      BY <2>2 DEF Forecastable
    <2>4. Task \ Task = {}
      OBVIOUS
    <2> QED BY <2>3, <2>4
  <1>2. PICK T \in Bad : \A U \in SUBSET T : U # T => U \notin Bad
    <2>1. Bad \in SUBSET SUBSET Task /\ IsFiniteSet(Task)
      BY ForecastAssumption
    <2> HIDE DEF Bad
    <2> QED BY <1>1, <2>1, FinitelyMinimal
  <1>3. CASE T = {}
    <2>1. Task \ {} = Task
      OBVIOUS
    <2> QED BY <1>2, <1>3, <2>1
  <1>4. CASE T # {}
    <2>1. PICK u \in T : DependsOn[u] \subseteq Task \ T
      BY <1>2, <1>4, BuildsOnOthers
    <2>2. Forecastable((Task \ T) \cup {u})
      BY <1>2, <2>1, ForecastOneMore
    <2>3. (Task \ T) \cup {u} = Task \ (T \ {u})
      BY <1>2, <2>1
    <2>4. T \ {u} \in Bad
      BY <1>2, <2>2, <2>3
    <2> QED BY <1>2, <2>1, <2>4
  <1> QED
    BY <1>3, <1>4

Unwound(f) == f = [u \in Task |-> Ends(f, u)]

LEMMA FinishUnwinds == Unwound(Finish(50))
  <1> DEFINE body(f) == [u \in Task |->
                 IF progress[u] = "completed" THEN hour
                 ELSE IF progress[u] = "running" THEN Max({hour, Since(u) + Duration(u, 50)})
                 ELSE Max({hour} \cup {f[d] : d \in DependsOn[u]}) + Duration(u, 50)]
             finish == CHOOSE f : f = body(f)
  <1>1. Finish(50) = finish
    BY DEF Finish
  <1>2. \A f : body(f) = [u \in Task |-> Ends(f, u)]
    BY DEF Ends, LatestOf
  <1>3. \E f : f = body(f)
    <2> HIDE DEF body
    <2> QED BY <1>2, AllForecastable DEF Forecastable
  <1>4. finish = body(finish)
    <2> HIDE DEF body
    <2> QED BY <1>3, Zenon
  <1> HIDE DEF finish, body
  <1> QED
    BY <1>1, <1>2, <1>4 DEF Unwound

\* The forecast is determined by the units' state.
LEMMA FinishUnique ==
    ASSUME NEW f, NEW g, Unwound(f), Unwound(g)
    PROVE  \A u \in Task : f[u] = g[u]
  <1> DEFINE D == {u \in Task : f[u] # g[u]}
  <1>1. SUFFICES ASSUME D # {} PROVE FALSE
    OBVIOUS
  <1>2. PICK u \in D : DependsOn[u] \subseteq Task \ D
    <2>1. D \in SUBSET Task
      OBVIOUS
    <2> HIDE DEF D
    <2> QED BY <1>1, <2>1, BuildsOnOthers
  <1>3. Ends(f, u) = Ends(g, u)
    BY <1>2, EndsLocal
  <1> QED
    BY <1>2, <1>3 DEF Unwound

-----------------------------------------------------------------------------
ForecastTypes ==
    /\ progress \in [Task -> {"pending", "running", "completed", "failed"}]
    /\ begun \in [Task -> Nat]
    /\ hour \in Nat
    /\ told \subseteq Task
    /\ \A u \in Task : begun[u] <= hour

LEMMA StartBounded ==
    ASSUME NEW at \in Nat, NEW f, NEW u \in Task, \A d \in DependsOn[u] : f[d] \in Nat
    PROVE  /\ LatestOf(at, f, u) \in Nat /\ LatestOf(at, f, u) >= at
           /\ \A d \in DependsOn[u] : f[d] <= LatestOf(at, f, u)
           /\ LatestOf(at, f, u) = at \/ \E d \in DependsOn[u] : f[d] = LatestOf(at, f, u)
  <1> DEFINE T == {f[d] : d \in DependsOn[u]}
             S == {at} \cup T
  <1>1. S \subseteq Nat /\ S # {} /\ IsFiniteSet(S)
    <2>1. IsFiniteSet(DependsOn[u])
      BY ForecastAssumption, FS_Subset
    <2>2. IsFiniteSet(T)
      BY <2>1, ImageFinite
    <2>3. IsFiniteSet({at} \cup T)
      <3> HIDE DEF T
      <3>2. IsFiniteSet(T \cup {at})
        BY <2>2, FS_AddElement
      <3>3. T \cup {at} = {at} \cup T
        OBVIOUS
      <3> QED BY <3>2, <3>3
    <2> QED BY <2>3
  <1>2. Max(S) \in S /\ \A n \in S : n <= Max(S)
    <2> HIDE DEF S
    <2> QED BY <1>1, Largest
  <1>3. LatestOf(at, f, u) = Max(S)
    BY DEF LatestOf
  <1>4. LatestOf(at, f, u) \in S /\ \A n \in S : n <= LatestOf(at, f, u)
    <2> HIDE DEF S
    <2> QED BY <1>2, <1>3
  <1> QED
    BY <1>1, <1>4

LEMMA LargerOf == ASSUME NEW m \in Nat, NEW n \in Nat
                  PROVE  /\ Max({m, n}) \in Nat /\ Max({m, n}) >= m /\ Max({m, n}) >= n
                         /\ Max({m, n}) = m \/ Max({m, n}) = n
  <1>1. \E x \in {m, n} : \A y \in {m, n} : x >= y
    OBVIOUS
  <1>2. Max({m, n}) \in {m, n} /\ \A y \in {m, n} : Max({m, n}) >= y
    BY <1>1 DEF Max
  <1> QED BY <1>2

LEMMA FinishTyped ==
    ASSUME ForecastTypes, NEW f, Unwound(f)
    PROVE  \A u \in Task : f[u] \in Nat /\ f[u] >= hour
  <1> DEFINE D == {u \in Task : ~(f[u] \in Nat /\ f[u] >= hour)}
  <1>1. SUFFICES ASSUME D # {} PROVE FALSE
    OBVIOUS
  <1>2. PICK u \in D : DependsOn[u] \subseteq Task \ D
    <2>1. D \in SUBSET Task
      OBVIOUS
    <2> HIDE DEF D
    <2> QED BY <1>1, <2>1, BuildsOnOthers
  <1>3. f[u] = Ends(f, u) /\ Duration(u, 50) \in Nat
    BY <1>2, DurationTyped DEF Unwound
  <1>4. \A d \in DependsOn[u] : f[d] \in Nat
    BY <1>2
  <1> DEFINE start == LatestOf(hour, f, u)
  <1>5. start \in Nat /\ start >= hour
    BY <1>2, <1>4, StartBounded DEF ForecastTypes
  <1>6. LET m == Max({hour, Since(u) + Duration(u, 50)}) IN m \in Nat /\ m >= hour
    <2>1. Since(u) + Duration(u, 50) \in Nat /\ hour \in Nat
      BY <1>2, <1>3 DEF ForecastTypes, Since
    <2> QED BY <2>1, LargerOf
  <1>7. Ends(f, u) \in {hour, Max({hour, Since(u) + Duration(u, 50)}), start + Duration(u, 50)}
    BY DEF Ends
  <1> HIDE DEF start
  <1>8. Ends(f, u) \in Nat /\ Ends(f, u) >= hour
    BY <1>3, <1>5, <1>6, <1>7 DEF ForecastTypes
  <1> QED
    BY <1>2, <1>3, <1>8

LEMMA EtaBounds ==
    ASSUME ForecastTypes
    PROVE  /\ Eta(50) \in Nat /\ Eta(50) >= hour
           /\ \A u \in Remaining : Finish(50)[u] <= Eta(50)
           /\ Eta(50) = hour \/ \E u \in Remaining : Finish(50)[u] = Eta(50)
  <1> DEFINE F == Finish(50)
             T == {F[u] : u \in Remaining}
  <1>1. T \subseteq Nat /\ IsFiniteSet(T)
    <2>1. IsFiniteSet(Remaining) /\ Remaining \subseteq Task
      BY ForecastAssumption, FS_Subset DEF Remaining
    <2>2. \A u \in Task : F[u] \in Nat
      <3> HIDE DEF F
      <3> QED BY FinishTyped, FinishUnwinds DEF F
    <2> HIDE DEF F
    <2> QED BY <2>1, <2>2, ImageFinite
  <1>2. Eta(50) = Max(T \cup {hour})
    <2>1. T \cup {hour} = {hour} \cup T
      OBVIOUS
    <2> HIDE DEF T
    <2> QED BY <2>1 DEF Eta, T
  <1>3. Eta(50) \in T \cup {hour} /\ \A n \in T \cup {hour} : n <= Eta(50)
    <2> HIDE DEF T
    <2>1. IsFiniteSet(T \cup {hour}) /\ T \cup {hour} \subseteq Nat /\ T \cup {hour} # {}
      BY <1>1, FS_AddElement DEF ForecastTypes
    <2> QED BY <1>2, <2>1, Largest
  <1> HIDE DEF F
  <1> QED
    BY <1>1, <1>3 DEF ForecastTypes, F

EtaBound ==
    /\ Eta(50) \in Nat /\ Eta(50) >= hour
    /\ \A u \in Remaining : Finish(50)[u] <= Eta(50)
    /\ Eta(50) = hour \/ \E u \in Remaining : Finish(50)[u] = Eta(50)

Unwinds == \A u \in Task : /\ Finish(50)[u] = Ends(Finish(50), u)
                           /\ Finish(50)[u] \in Nat /\ Finish(50)[u] >= hour

LEMMA Forecasts == ForecastTypes => Unwinds /\ EtaBound
  <1> SUFFICES ASSUME ForecastTypes PROVE Unwinds /\ EtaBound
    OBVIOUS
  <1>1. EtaBound
    BY EtaBounds DEF EtaBound
  <1> DEFINE F == Finish(50)
  <1>2. Unwound(F)
    BY FinishUnwinds
  <1> HIDE DEF F
  <1>3. \A u \in Task : F[u] = Ends(F, u) /\ F[u] \in Nat /\ F[u] >= hour
    BY <1>2, FinishTyped DEF Unwound
  <1> QED
    BY <1>1, <1>3 DEF Unwinds, F

LEMMA ForecastsNext == ForecastTypes' => Unwinds' /\ EtaBound'
  BY Forecasts, PTL

-----------------------------------------------------------------------------
(* A step of the work, and the forecasts on either side of it.             *)

Was(u) == Finish(50)[u]
Is(u) == Finish(50)'[u]

UnitKept(u) ==
    /\ progress'[u] = progress[u]
    /\ Since(u)' = Since(u) \/ (Since(u) = hour /\ Since(u)' = hour')
UnitBegan(u) ==
    /\ progress[u] = "pending" /\ \A d \in DependsOn[u] : progress[d] = "completed"
    /\ progress'[u] = "running" /\ Since(u)' = hour /\ hour' = hour
UnitDone(u) ==
    /\ progress[u] = "running" /\ hour >= Since(u) + Duration(u, 50)
    /\ progress'[u] = "completed" /\ hour' = hour
UnitLost(u) ==
    /\ progress[u] = "running"
    /\ progress'[u] = "failed" /\ hour' = hour

LEMMA WasIs ==
    ASSUME ForecastTypes, ForecastTypes', NEW u \in Task
    PROVE  /\ Was(u) \in Nat /\ Was(u) >= hour
           /\ progress[u] = "completed" => Was(u) = hour
           /\ progress[u] = "running" => Was(u) = Max({hour, Since(u) + Duration(u, 50)})
           /\ progress[u] \in {"pending", "failed"} =>
                 Was(u) = LatestOf(hour, Finish(50), u) + Duration(u, 50)
           /\ Is(u) \in Nat /\ Is(u) >= hour'
           /\ progress'[u] = "completed" => Is(u) = hour'
           /\ progress'[u] = "running" => Is(u) = Max({hour', Since(u)' + Duration(u, 50)})
           /\ progress'[u] \in {"pending", "failed"} =>
                 Is(u) = LatestOf(hour', Finish(50)', u) + Duration(u, 50)
           /\ hour \in Nat /\ hour' \in Nat /\ Since(u) \in Nat /\ Since(u)' \in Nat
           /\ Duration(u, 50) \in Nat /\ DependsOn[u] \subseteq Task
           /\ Since(u) <= hour
  <1>1. Unwinds /\ Unwinds'
    BY Forecasts, ForecastsNext
  <1>2. Was(u) = Ends(Finish(50), u) /\ Was(u) \in Nat /\ Was(u) >= hour
    BY <1>1 DEF Unwinds, Was
  <1>3. Is(u) = Ends(Finish(50), u)' /\ Is(u) \in Nat /\ Is(u) >= hour'
    BY <1>1 DEF Unwinds, Is
  <1>4. DependsOn[u] \subseteq Task
    BY ForecastAssumption
  <1>5. Duration(u, 50) \in Nat
    BY DurationTyped
  <1>6. /\ hour \in Nat /\ hour' \in Nat /\ Since(u) \in Nat /\ Since(u)' \in Nat
        /\ Since(u) <= hour
    BY DEF ForecastTypes, Since
  <1> QED
    BY <1>2, <1>3, <1>4, <1>5, <1>6 DEF Ends

LEMMA StartsWasIs ==
    ASSUME ForecastTypes, ForecastTypes', NEW u \in Task
    PROVE  /\ LatestOf(hour, Finish(50), u) \in Nat /\ LatestOf(hour, Finish(50), u) >= hour
           /\ \A d \in DependsOn[u] : Was(d) <= LatestOf(hour, Finish(50), u)
           /\ \/ LatestOf(hour, Finish(50), u) = hour
              \/ \E d \in DependsOn[u] : Was(d) = LatestOf(hour, Finish(50), u)
           /\ LatestOf(hour', Finish(50)', u) \in Nat /\ LatestOf(hour', Finish(50)', u) >= hour'
           /\ \A d \in DependsOn[u] : Is(d) <= LatestOf(hour', Finish(50)', u)
           /\ \/ LatestOf(hour', Finish(50)', u) = hour'
              \/ \E d \in DependsOn[u] : Is(d) = LatestOf(hour', Finish(50)', u)
  <1>1. \A d \in DependsOn[u] : Finish(50)[d] \in Nat /\ Finish(50)'[d] \in Nat
    BY WasIs DEF Was, Is
  <1>2. hour \in Nat /\ hour' \in Nat
    BY DEF ForecastTypes
  <1> DEFINE a == Finish(50)
             b == Finish(50)'
  <1> HIDE DEF a, b
  <1>3. /\ LatestOf(hour, a, u) \in Nat /\ LatestOf(hour, a, u) >= hour
        /\ \A d \in DependsOn[u] : a[d] <= LatestOf(hour, a, u)
        /\ LatestOf(hour, a, u) = hour \/ \E d \in DependsOn[u] : a[d] = LatestOf(hour, a, u)
    BY <1>1, <1>2, StartBounded DEF a
  <1>4. /\ LatestOf(hour', b, u) \in Nat /\ LatestOf(hour', b, u) >= hour'
        /\ \A d \in DependsOn[u] : b[d] <= LatestOf(hour', b, u)
        /\ LatestOf(hour', b, u) = hour' \/ \E d \in DependsOn[u] : b[d] = LatestOf(hour', b, u)
    BY <1>1, <1>2, StartBounded DEF b
  <1> QED
    BY <1>3, <1>4 DEF a, b, Was, Is

\* No step makes a forecast earlier, but one that completes a unit early.
LEMMA NeverEarlier ==
    ASSUME ForecastTypes, ForecastTypes', hour <= hour',
           \A u \in Task : UnitKept(u) \/ UnitBegan(u) \/ UnitDone(u) \/ UnitLost(u)
    PROVE  \A u \in Task : Was(u) <= Is(u)
  <1> DEFINE D == {u \in Task : ~(Was(u) <= Is(u))}
  <1>1. SUFFICES ASSUME D # {} PROVE FALSE
    OBVIOUS
  <1>2. PICK u \in D : DependsOn[u] \subseteq Task \ D
    <2>1. D \in SUBSET Task
      OBVIOUS
    <2> HIDE DEF D
    <2> QED BY <1>1, <2>1, BuildsOnOthers
  <1>3. u \in Task /\ (\A d \in DependsOn[u] : d \in Task /\ Was(d) <= Is(d)) /\ ~(Was(u) <= Is(u))
    BY <1>2
  <1> HIDE DEF D
  <1> DEFINE start == LatestOf(hour, Finish(50), u)
             next == LatestOf(hour', Finish(50)', u)
             dur == Duration(u, 50)
  <1>4. start <= next /\ start \in Nat /\ next \in Nat /\ hour <= start /\ hour' <= next
    <2>0. /\ start \in Nat /\ start >= hour
          /\ start = hour \/ \E d \in DependsOn[u] : Was(d) = start
          /\ next \in Nat /\ next >= hour'
          /\ \A d \in DependsOn[u] : Is(d) <= next
      BY <1>3, StartsWasIs
    <2> HIDE DEF start, next
    <2>1. CASE start = hour
      BY <2>0, <2>1 DEF ForecastTypes
    <2>2. CASE \E d \in DependsOn[u] : Was(d) = start
      <3>1. PICK d \in DependsOn[u] : Was(d) = start
        BY <2>2
      <3>2. Was(d) <= Is(d) /\ Is(d) <= next /\ Was(d) \in Nat /\ Is(d) \in Nat
        BY <1>3, <2>0, <3>1, WasIs
      <3> QED BY <2>0, <3>1, <3>2
    <2> QED BY <2>0, <2>1, <2>2
  <1>5. /\ Was(u) \in Nat /\ Was(u) >= hour
        /\ progress[u] = "completed" => Was(u) = hour
        /\ progress[u] = "running" => Was(u) = Max({hour, Since(u) + dur})
        /\ progress[u] \in {"pending", "failed"} => Was(u) = start + dur
        /\ Is(u) \in Nat /\ Is(u) >= hour'
        /\ progress'[u] = "completed" => Is(u) = hour'
        /\ progress'[u] = "running" => Is(u) = Max({hour', Since(u)' + dur})
        /\ progress'[u] \in {"pending", "failed"} => Is(u) = next + dur
        /\ hour \in Nat /\ hour' \in Nat /\ Since(u) \in Nat /\ Since(u)' \in Nat
        /\ dur \in Nat
        /\ Since(u) <= hour
    BY <1>3, WasIs
  <1> HIDE DEF start, next, dur
  <1>6. /\ Max({hour, Since(u) + dur}) \in {hour, Since(u) + dur}
        /\ Max({hour, Since(u) + dur}) >= hour /\ Max({hour, Since(u) + dur}) >= Since(u) + dur
        /\ Max({hour', Since(u)' + dur}) >= Since(u)' + dur
    BY <1>5, LargerOf
  <1>7. progress[u] \in {"pending", "running", "completed", "failed"}
    BY <1>3 DEF ForecastTypes
  <1>8. CASE UnitKept(u)
    BY <1>3, <1>4, <1>5, <1>6, <1>7, <1>8 DEF UnitKept
  <1>9. CASE UnitBegan(u)
    <2>1. start = hour
      <3>1. \A d \in DependsOn[u] : Was(d) = hour
        BY <1>3, <1>9, WasIs DEF UnitBegan
      <3> QED BY <3>1, <1>3, StartsWasIs DEF start
    <2> QED BY <2>1, <1>3, <1>5, <1>6, <1>9 DEF UnitBegan
  <1>10. CASE UnitDone(u)
    BY <1>3, <1>5, <1>6, <1>10 DEF UnitDone, dur
  <1>11. CASE UnitLost(u)
    BY <1>3, <1>4, <1>5, <1>6, <1>11 DEF UnitLost
  <1> QED
    BY <1>3, <1>8, <1>9, <1>10, <1>11

\* A unit that starts as soon as it may, or ends when it was to, changes nothing.
LEMMA OnTime ==
    ASSUME ForecastTypes, ForecastTypes', hour' = hour,
           \A u \in Task : UnitKept(u) \/ UnitBegan(u) \/ UnitDone(u)
    PROVE  \A u \in Task : Was(u) = Is(u)
  <1> DEFINE D == {u \in Task : Was(u) # Is(u)}
  <1>1. SUFFICES ASSUME D # {} PROVE FALSE
    OBVIOUS
  <1>2. PICK u \in D : DependsOn[u] \subseteq Task \ D
    <2>1. D \in SUBSET Task
      OBVIOUS
    <2> HIDE DEF D
    <2> QED BY <1>1, <2>1, BuildsOnOthers
  <1>3. u \in Task /\ (\A d \in DependsOn[u] : Was(d) = Is(d)) /\ Was(u) # Is(u)
    BY <1>2
  <1> HIDE DEF D
  <1>4. LatestOf(hour, Finish(50), u) = LatestOf(hour', Finish(50)', u)
    <2>1. {Finish(50)[d] : d \in DependsOn[u]} = {Finish(50)'[d] : d \in DependsOn[u]}
      BY <1>3 DEF Was, Is
    <2> QED BY <2>1 DEF LatestOf
  <1> DEFINE dur == Duration(u, 50)
             start == LatestOf(hour, Finish(50), u)
  <1>5. /\ progress[u] = "completed" => Was(u) = hour
        /\ progress[u] = "running" => Was(u) = Max({hour, Since(u) + dur})
        /\ progress[u] \in {"pending", "failed"} => Was(u) = start + dur
        /\ progress'[u] = "completed" => Is(u) = hour'
        /\ progress'[u] = "running" => Is(u) = Max({hour', Since(u)' + dur})
        /\ progress'[u] \in {"pending", "failed"} => Is(u) = start + dur
        /\ hour \in Nat /\ Since(u) \in Nat /\ dur \in Nat
    BY <1>3, <1>4, WasIs
  <1>6. progress[u] \in {"pending", "running", "completed", "failed"}
    BY <1>3 DEF ForecastTypes
  <1>7. start = hour \/ \E d \in DependsOn[u] : Was(d) = start
    BY <1>3, StartsWasIs
  <1> HIDE DEF dur, start
  <1>8. CASE UnitKept(u)
    BY <1>3, <1>5, <1>6, <1>8 DEF UnitKept
  <1>9. CASE UnitBegan(u)
    <2>1. start = hour
      <3>1. \A d \in DependsOn[u] : Was(d) = hour
        BY <1>3, <1>9, WasIs DEF UnitBegan
      <3> QED BY <3>1, <1>7
    <2>2. Max({hour, hour + dur}) = hour + dur
      <3>1. hour + dur \in Nat
        BY <1>5
      <3>2. LET m == Max({hour, hour + dur}) IN m >= hour + dur /\ (m = hour \/ m = hour + dur)
        BY <3>1, <1>5, LargerOf
      <3> QED BY <3>2, <1>5
    <2> QED BY <2>1, <2>2, <1>3, <1>5, <1>9 DEF UnitBegan
  <1>10. CASE UnitDone(u)
    <2>1. Since(u) + dur <= hour
      BY <1>5, <1>10 DEF UnitDone, dur
    <2>2. Max({hour, Since(u) + dur}) = hour
      <3>1. Since(u) + dur \in Nat
        BY <1>5
      <3>2. LET m == Max({hour, Since(u) + dur}) IN m >= hour /\ (m = hour \/ m = Since(u) + dur)
        BY <3>1, <1>5, LargerOf
      <3> QED BY <3>2, <2>1, <1>5
    <2> QED BY <2>2, <1>3, <1>5, <1>10 DEF UnitDone
  <1> QED
    BY <1>3, <1>8, <1>9, <1>10

\* An hour in which everything that could run does and nothing is overdue.
WorkedHour == \A u \in Task :
    /\ ~Runnable(u) /\ progress[u] # "failed"
    /\ progress[u] = "running" => u \in told /\ hour < Since(u) + Duration(u, 50)

LEMMA StillAhead ==
    ASSUME ForecastTypes, ForecastTypes', WorkedHour
    PROVE  \A u \in Task : progress[u] # "completed" => Was(u) > hour
  <1> DEFINE D == {u \in Task : progress[u] # "completed" /\ ~(Was(u) > hour)}
  <1>1. SUFFICES ASSUME D # {} PROVE FALSE
    OBVIOUS
  <1>2. PICK u \in D : DependsOn[u] \subseteq Task \ D
    <2>1. D \in SUBSET Task
      OBVIOUS
    <2> HIDE DEF D
    <2> QED BY <1>1, <2>1, BuildsOnOthers
  <1>3. /\ u \in Task /\ progress[u] # "completed" /\ ~(Was(u) > hour)
        /\ \A d \in DependsOn[u] : progress[d] # "completed" => Was(d) > hour
    BY <1>2
  <1> HIDE DEF D
  <1>4. progress[u] \in {"running", "pending"}
    BY <1>3 DEF ForecastTypes, WorkedHour
  <1>5. CASE progress[u] = "running"
    <2>1. Was(u) = Max({hour, Since(u) + Duration(u, 50)}) /\ hour \in Nat /\ Since(u) \in Nat /\ Duration(u, 50) \in Nat
      BY <1>3, <1>5, WasIs
    <2>2. Since(u) + Duration(u, 50) \in Nat /\ hour < Since(u) + Duration(u, 50)
      BY <1>3, <1>5, <2>1 DEF WorkedHour
    <2>3. Was(u) >= Since(u) + Duration(u, 50) /\ Was(u) \in Nat
      BY <2>1, <2>2, LargerOf
    <2> QED BY <1>3, <2>1, <2>2, <2>3
  <1>6. CASE progress[u] = "pending"
    <2>1. PICK d \in DependsOn[u] : progress[d] # "completed"
      BY <1>3, <1>6 DEF WorkedHour, Runnable, BlockingReasons
    <2> DEFINE start == LatestOf(hour, Finish(50), u)
    <2>2. Was(u) = start + Duration(u, 50) /\ hour \in Nat /\ Duration(u, 50) \in Nat /\ DependsOn[u] \subseteq Task
      BY <1>3, <1>6, WasIs
    <2>3. start \in Nat /\ Was(d) <= start
      BY <1>3, StartsWasIs
    <2>4. Was(d) > hour /\ Was(d) \in Nat
      BY <1>3, <2>1, <2>2, WasIs
    <2> HIDE DEF start
    <2> QED BY <1>3, <2>2, <2>3, <2>4
  <1> QED
    BY <1>4, <1>5, <1>6

LEMMA AnHourOn ==
    ASSUME ForecastTypes, ForecastTypes', WorkedHour, hour' = hour + 1, \A u \in Task : UnitKept(u),
           \A u \in Task : u \in told => Since(u)' = Since(u)
    PROVE  \A u \in Task : progress[u] # "completed" => Was(u) = Is(u)
  <1> DEFINE D == {u \in Task : progress[u] # "completed" /\ Was(u) # Is(u)}
  <1>1. SUFFICES ASSUME D # {} PROVE FALSE
    OBVIOUS
  <1>2. PICK u \in D : DependsOn[u] \subseteq Task \ D
    <2>1. D \in SUBSET Task
      OBVIOUS
    <2> HIDE DEF D
    <2> QED BY <1>1, <2>1, BuildsOnOthers
  <1>3. /\ u \in Task /\ progress[u] # "completed" /\ Was(u) # Is(u)
        /\ \A d \in DependsOn[u] : d \in Task /\ (progress[d] # "completed" => Was(d) = Is(d))
    BY <1>2
  <1> HIDE DEF D
  <1>4. progress[u] \in {"running", "pending"} /\ progress'[u] = progress[u]
    BY <1>3 DEF ForecastTypes, WorkedHour, UnitKept
  <1>5. hour \in Nat /\ Since(u) \in Nat /\ Duration(u, 50) \in Nat
    BY <1>3, WasIs
  <1>6. CASE progress[u] = "running"
    <2> DEFINE end == Since(u) + Duration(u, 50)
    <2>0. Since(u)' = Since(u)
      BY <1>3, <1>6 DEF WorkedHour
    <2>1. Was(u) = Max({hour, end}) /\ Is(u) = Max({hour + 1, end})
      BY <2>0, <1>3, <1>4, <1>6, WasIs
    <2>2. end \in Nat /\ hour < end /\ hour + 1 \in Nat
      BY <1>3, <1>5, <1>6 DEF WorkedHour
    <2> HIDE DEF end
    <2>3. /\ Max({hour, end}) >= end /\ Max({hour, end}) \in {hour, end}
          /\ Max({hour + 1, end}) >= end /\ Max({hour + 1, end}) \in {hour + 1, end}
      BY <1>5, <2>2, LargerOf
    <2>4. Max({hour, end}) = end /\ Max({hour + 1, end}) = end
      BY <1>5, <2>2, <2>3
    <2> QED BY <1>3, <2>1, <2>4
  <1>7. CASE progress[u] = "pending"
    <2> DEFINE start == LatestOf(hour, Finish(50), u)
               next == LatestOf(hour', Finish(50)', u)
    <2>1. PICK e \in DependsOn[u] : progress[e] # "completed"
      BY <1>3, <1>7 DEF WorkedHour, Runnable, BlockingReasons
    <2>2. Was(u) = start + Duration(u, 50) /\ Is(u) = next + Duration(u, 50)
      BY <1>3, <1>4, <1>7, WasIs
    <2>3. /\ start \in Nat /\ start >= hour
          /\ \A d \in DependsOn[u] : Was(d) <= start
          /\ start = hour \/ \E d \in DependsOn[u] : Was(d) = start
          /\ next \in Nat /\ next >= hour'
          /\ \A d \in DependsOn[u] : Is(d) <= next
          /\ next = hour' \/ \E d \in DependsOn[u] : Is(d) = next
      BY <1>3, StartsWasIs
    <2> HIDE DEF start, next
    <2>4. \A d \in DependsOn[u] : /\ Was(d) \in Nat /\ Is(d) \in Nat
                                  /\ progress[d] = "completed" => Was(d) = hour /\ Is(d) = hour'
                                  /\ progress[d] # "completed" => Was(d) > hour /\ Was(d) = Is(d)
      BY <1>3, WasIs, StillAhead DEF UnitKept
    <2>5. start > hour
      BY <2>1, <2>3, <2>4, <1>5
    <2>6. start <= next
      <3>1. PICK d \in DependsOn[u] : Was(d) = start
        BY <2>3, <2>5, <1>5
      <3>2. progress[d] # "completed"
        BY <2>4, <2>5, <3>1, <1>5
      <3> QED BY <2>3, <2>4, <3>1, <3>2
    <2>7. next <= start
      <3>1. CASE next = hour'
        BY <2>5, <3>1, <2>3, <1>5
      <3>2. CASE next # hour'
        <4>1. PICK d \in DependsOn[u] : Is(d) = next
          BY <2>3, <3>2
        <4>2. progress[d] # "completed"
          BY <2>4, <3>2, <4>1
        <4> QED BY <2>3, <2>4, <4>1, <4>2
      <3> QED BY <3>1, <3>2
    <2> QED BY <1>3, <2>2, <2>3, <2>6, <2>7
  <1> QED
    BY <1>4, <1>6, <1>7

\* Time alone moves no forecast by more than itself.
LEMMA AnHourAtMost ==
    ASSUME ForecastTypes, ForecastTypes', hour' = hour + 1, \A u \in Task : UnitKept(u)
    PROVE  \A u \in Task : Is(u) <= Was(u) + 1
  <1> DEFINE D == {u \in Task : ~(Is(u) <= Was(u) + 1)}
  <1>1. SUFFICES ASSUME D # {} PROVE FALSE
    OBVIOUS
  <1>2. PICK u \in D : DependsOn[u] \subseteq Task \ D
    <2>1. D \in SUBSET Task
      OBVIOUS
    <2> HIDE DEF D
    <2> QED BY <1>1, <2>1, BuildsOnOthers
  <1>3. /\ u \in Task /\ ~(Is(u) <= Was(u) + 1)
        /\ \A d \in DependsOn[u] : d \in Task /\ Is(d) <= Was(d) + 1
    BY <1>2
  <1> HIDE DEF D
  <1> DEFINE start == LatestOf(hour, Finish(50), u)
             next == LatestOf(hour', Finish(50)', u)
             dur == Duration(u, 50)
  <1>4. next <= start + 1 /\ start \in Nat /\ next \in Nat
    <2>0. /\ start \in Nat /\ start >= hour /\ next \in Nat
          /\ \A d \in DependsOn[u] : Was(d) <= start
          /\ next = hour' \/ \E d \in DependsOn[u] : Is(d) = next
      BY <1>3, StartsWasIs
    <2> HIDE DEF start, next
    <2>1. CASE next = hour'
      BY <2>0, <2>1 DEF ForecastTypes
    <2>2. CASE \E d \in DependsOn[u] : Is(d) = next
      <3>1. PICK d \in DependsOn[u] : Is(d) = next
        BY <2>2
      <3>2. Is(d) <= Was(d) + 1 /\ Was(d) <= start /\ Was(d) \in Nat
        BY <1>3, <2>0, <3>1, WasIs
      <3> QED BY <2>0, <3>1, <3>2
    <2> QED BY <2>0, <2>1, <2>2
  <1>5. /\ Was(u) \in Nat
        /\ progress[u] = "completed" => Was(u) = hour
        /\ progress[u] = "running" => Was(u) = Max({hour, Since(u) + dur})
        /\ progress[u] \in {"pending", "failed"} => Was(u) = start + dur
        /\ progress'[u] = "completed" => Is(u) = hour'
        /\ progress'[u] = "running" => Is(u) = Max({hour', Since(u)' + dur})
        /\ progress'[u] \in {"pending", "failed"} => Is(u) = next + dur
        /\ hour \in Nat /\ hour' \in Nat /\ Since(u) \in Nat /\ Since(u)' \in Nat
        /\ dur \in Nat
    BY <1>3, WasIs
  <1> HIDE DEF start, next, dur
  <1>6. /\ Max({hour, Since(u) + dur}) >= hour /\ Max({hour, Since(u) + dur}) >= Since(u) + dur
        /\ Max({hour, Since(u) + dur}) \in Nat
        /\ Max({hour', Since(u)' + dur}) \in {hour', Since(u)' + dur}
    BY <1>5, LargerOf
  <1>7. progress[u] \in {"pending", "running", "completed", "failed"}
    BY <1>3 DEF ForecastTypes
  <1>8. progress'[u] = progress[u] /\ Since(u)' <= Since(u) + 1
    BY <1>3, <1>5 DEF UnitKept
  <1> QED
    BY <1>3, <1>4, <1>5, <1>6, <1>7, <1>8

-----------------------------------------------------------------------------
LEMMA EtaNotEarlier ==
    ASSUME ForecastTypes, ForecastTypes', hour <= hour', \A u \in Task : Was(u) <= Is(u)
    PROVE  Eta(50)' >= Eta(50)
  <1>1. EtaBound /\ EtaBound'
    BY Forecasts, ForecastsNext
  <1>2. \A u \in Task : Was(u) \in Nat /\ Is(u) \in Nat /\ (progress'[u] = "completed" => Is(u) = hour')
    BY WasIs
  <1>3. hour \in Nat /\ hour' \in Nat
    BY DEF ForecastTypes
  <1>4. \A u \in Task : Is(u) <= Eta(50)'
    BY <1>1, <1>2 DEF EtaBound, Remaining, Is
  <1>5. CASE Eta(50) = hour
    BY <1>1, <1>3, <1>5 DEF EtaBound
  <1>6. CASE \E u \in Remaining : Was(u) = Eta(50)
    <2>1. PICK u \in Task : Was(u) = Eta(50)
      BY <1>6 DEF Remaining
    <2>2. Was(u) <= Is(u) /\ Is(u) <= Eta(50)'
      BY <1>4
    <2> QED BY <1>1, <1>2, <2>1, <2>2 DEF EtaBound
  <1> QED
    BY <1>1, <1>5, <1>6 DEF EtaBound, Was

LEMMA EtaNotLater ==
    ASSUME ForecastTypes, ForecastTypes', hour' <= Eta(50),
           \A u \in Task : progress'[u] # "completed" => progress[u] # "completed" /\ Was(u) = Is(u)
    PROVE  Eta(50)' <= Eta(50)
  <1>1. EtaBound /\ EtaBound'
    BY Forecasts, ForecastsNext
  <1>2. CASE Eta(50)' = hour'
    BY <1>2
  <1>3. CASE \E u \in Remaining' : Is(u) = Eta(50)'
    <2>1. PICK u \in Task : progress'[u] # "completed" /\ Is(u) = Eta(50)'
      BY <1>3 DEF Remaining
    <2>2. Was(u) <= Eta(50)
      BY <1>1, <2>1 DEF EtaBound, Remaining, Was
    <2> QED BY <2>1, <2>2
  <1> QED
    BY <1>1, <1>2, <1>3 DEF EtaBound, Is

LEMMA EtaAnHourLater ==
    ASSUME ForecastTypes, ForecastTypes', hour' = hour + 1, \A u \in Task : UnitKept(u)
    PROVE  Eta(50)' <= Eta(50) + 1
  <1>1. EtaBound /\ EtaBound'
    BY Forecasts, ForecastsNext
  <1>2. CASE Eta(50)' = hour'
    BY <1>1, <1>2 DEF EtaBound, ForecastTypes
  <1>3. CASE \E u \in Remaining' : Is(u) = Eta(50)'
    <2>1. PICK u \in Task : progress'[u] # "completed" /\ Is(u) = Eta(50)'
      BY <1>3 DEF Remaining
    <2>2. Was(u) <= Eta(50) /\ Was(u) \in Nat
      BY <1>1, <2>1, WasIs DEF EtaBound, Remaining, Was, UnitKept
    <2>3. Is(u) <= Was(u) + 1
      BY <2>1, AnHourAtMost
    <2> QED BY <1>1, <2>1, <2>2, <2>3 DEF EtaBound
  <1> QED
    BY <1>1, <1>2, <1>3 DEF EtaBound, Is

LEMMA ForecastTypesInit == ForecastInit => ForecastTypes
  BY DEF ForecastInit, ForecastTypes

LEMMA ForecastTypesNext == ForecastTypes /\ [ForecastNext]_forecastVars => ForecastTypes'
  <1> SUFFICES ASSUME ForecastTypes, [ForecastNext]_forecastVars PROVE ForecastTypes'
    OBVIOUS
  <1>1. CASE Hour
    BY <1>1 DEF Hour, ForecastTypes
  <1>2. ASSUME NEW u \in Task, StartTask(u) PROVE ForecastTypes'
    BY <1>2 DEF StartTask, ForecastTypes
  <1>3. ASSUME NEW u \in Task, CompleteTask(u) PROVE ForecastTypes'
    BY <1>3 DEF CompleteTask, ForecastTypes
  <1>4. ASSUME NEW u \in Task, FailTask(u) PROVE ForecastTypes'
    BY <1>4 DEF FailTask, ForecastTypes
  <1>5. ASSUME NEW u \in Task, TellStart(u) PROVE ForecastTypes'
    BY <1>5 DEF TellStart, ForecastTypes
  <1>6. CASE UNCHANGED forecastVars
    BY <1>6 DEF forecastVars, ForecastTypes
  <1> QED
    BY <1>1, <1>2, <1>3, <1>4, <1>5, <1>6 DEF ForecastNext

EndStable == Remaining # {} /\ ~early' =>
              /\ Eta(50)' >= Eta(50)
              /\ ~late' => Eta(50)' = Eta(50)

LEMMA TaskStable ==
    ASSUME ForecastTypes, ForecastTypes', hour' = hour, ~early',
           \A u \in Task : UnitKept(u) \/ UnitBegan(u) \/ UnitDone(u) \/ (late' /\ UnitLost(u))
    PROVE  EndStable
  <1>1. Eta(50)' >= Eta(50)
    <2>1. hour <= hour'
      BY DEF ForecastTypes
    <2>2. \A u \in Task : Was(u) <= Is(u)
      BY <2>1, NeverEarlier
    <2> QED BY <2>1, <2>2, EtaNotEarlier
  <1>2. ASSUME ~late' PROVE Eta(50)' = Eta(50)
    <2>1. \A u \in Task : Was(u) = Is(u)
      BY <1>2, OnTime
    <2>2. EtaBound /\ EtaBound'
      BY Forecasts, ForecastsNext
    <2>3. hour' <= Eta(50)
      BY <2>2 DEF EtaBound, ForecastTypes
    <2>4. \A u \in Task : progress'[u] # "completed" => progress[u] # "completed"
      BY <1>2 DEF UnitKept, UnitBegan, UnitDone
    <2>5. Eta(50)' <= Eta(50)
      BY <2>1, <2>3, <2>4, EtaNotLater
    <2> QED BY <1>1, <2>2, <2>5 DEF EtaBound
  <1> QED
    BY <1>1, <1>2 DEF EndStable

LEMMA HourStable == ASSUME ForecastTypes, ForecastTypes', Hour PROVE EndStable
  <1>1. hour' = hour + 1 /\ hour \in Nat /\ \A u \in Task : UnitKept(u)
    BY DEF Hour, ForecastTypes, UnitKept, Since
  <1>2. Eta(50)' >= Eta(50)
    <2>1. hour <= hour'
      BY <1>1
    <2>2. \A u \in Task : Was(u) <= Is(u)
      BY <1>1, <2>1, NeverEarlier
    <2> QED BY <2>1, <2>2, EtaNotEarlier
  <1>3. ASSUME ~late', Remaining # {} PROVE Eta(50)' = Eta(50)
    <2>0. ~\E u \in Task :
              \/ Runnable(u) \/ progress[u] = "failed"
              \/ progress[u] = "running" /\ (u \notin told \/ hour >= begun[u] + Duration(u, 50))
      <3>1. late' = (late \/ \E u \in Task :
              \/ Runnable(u) \/ progress[u] = "failed"
              \/ progress[u] = "running" /\ (u \notin told \/ hour >= begun[u] + Duration(u, 50)))
        BY DEF Hour
      <3> QED BY <1>3, <3>1, Zenon
    <2>1. WorkedHour
      BY <2>0, DurationTyped DEF WorkedHour, ForecastTypes, Since
    <2>2. \A u \in Task : progress[u] # "completed" => Was(u) = Is(u)
      <3>1. \A u \in Task : u \in told => Since(u)' = Since(u)
        BY DEF Hour, Since
      <3> QED BY <1>1, <2>1, <3>1, AnHourOn
    <2>3. EtaBound /\ EtaBound'
      BY Forecasts, ForecastsNext
    <2>4. PICK u \in Task : progress[u] # "completed"
      BY <1>3 DEF Remaining
    <2>5. Was(u) > hour /\ Was(u) \in Nat /\ Was(u) <= Eta(50)
      BY <2>1, <2>3, <2>4, StillAhead, WasIs DEF EtaBound, Remaining, Was
    <2>6. hour' <= Eta(50)
      BY <1>1, <2>3, <2>5 DEF EtaBound
    <2>7. Eta(50)' <= Eta(50)
      BY <1>1, <2>2, <2>6, EtaNotLater DEF UnitKept
    <2> QED BY <1>2, <2>3, <2>7 DEF EtaBound
  <1> QED
    BY <1>2, <1>3 DEF EndStable

LEMMA StepStable == ForecastTypes /\ ForecastTypes' /\ ForecastNext => EndStable
  <1> SUFFICES ASSUME ForecastTypes, ForecastTypes', ForecastNext PROVE EndStable
    OBVIOUS
  <1>1. CASE Hour
    BY <1>1, HourStable
  <1>2. CASE early'
    BY <1>2 DEF EndStable
  <1>3. ASSUME NEW u \in Task, StartTask(u), ~early' PROVE EndStable
    <2>1. \A v \in Task : UnitKept(v) \/ UnitBegan(v)
      BY <1>3 DEF StartTask, ForecastTypes, UnitKept, UnitBegan, Since
    <2> QED BY <2>1, <1>3, TaskStable DEF StartTask
  <1>4. ASSUME NEW u \in Task, CompleteTask(u), ~early' PROVE EndStable
    <2>0. Duration(u, 50) \in Nat
      BY <1>4, DurationTyped
    <2>3. early' = (early \/ hour < Since(u) + Duration(u, 50))
      BY <1>4 DEF CompleteTask
    <2>4. ~(hour < Since(u) + Duration(u, 50))
      BY <1>4, <2>3, Zenon
    <2>1. \A v \in Task : UnitKept(v) \/ UnitDone(v)
      BY <1>4, <2>4, <2>0 DEF CompleteTask, ForecastTypes, UnitKept, UnitDone, Since
    <2> QED BY <2>1, <1>4, TaskStable DEF CompleteTask
  <1>5. ASSUME NEW u \in Task, FailTask(u), ~early' PROVE EndStable
    <2>1. \A v \in Task : UnitKept(v) \/ (late' /\ UnitLost(v))
      BY <1>5 DEF FailTask, ForecastTypes, UnitKept, UnitLost, Since
    <2> QED BY <2>1, <1>5, TaskStable DEF FailTask
  <1>6. ASSUME NEW u \in Task, TellStart(u) PROVE EndStable
    BY <1>2, <1>6 DEF TellStart
  <1> QED
    BY <1>1, <1>2, <1>3, <1>4, <1>5, <1>6 DEF ForecastNext

\* `_schedule` and `_forecast_project`, asked again after every step of the work:
\* the end stays while work goes to plan, and an hour moves it by at most an hour
\* even while a unit runs whose startedAt is not given.
THEOREM ForecastStays == ForecastSpec => StableForecast
  <1>1. ForecastTypes /\ ForecastTypes' /\ Hour => Eta(50)' <= Eta(50) + 1
    <2> SUFFICES ASSUME ForecastTypes, ForecastTypes', Hour PROVE Eta(50)' <= Eta(50) + 1
      OBVIOUS
    <2>1. hour' = hour + 1 /\ \A u \in Task : UnitKept(u)
      BY DEF Hour, ForecastTypes, UnitKept, Since
    <2> QED BY <2>1, EtaAnHourLater
  <1>2. ForecastTypes /\ ForecastTypes' /\ [ForecastNext]_forecastVars =>
           [/\ Remaining # {} /\ ~early' =>
                 /\ Eta(50)' >= Eta(50)
                 /\ ~late' => Eta(50)' = Eta(50)
            /\ Hour => Eta(50)' <= Eta(50) + 1]_forecastVars
    BY <1>1, StepStable DEF EndStable
  <1> QED
    BY <1>2, ForecastTypesInit, ForecastTypesNext, PTL DEF ForecastSpec, StableForecast

-----------------------------------------------------------------------------
(* The critical path.                                                      *)

Tail50 == CHOOSE u \in Remaining : Finish(50)[u] = Eta(50)

TracedBack(path) ==
    IF Driver(path[1], 50) = {} THEN path
    ELSE <<CHOOSE d \in Driver(path[1], 50) : TRUE>> \o path

Traced(b, n) == b = [k \in 0 .. n |-> IF k = 0 THEN <<Tail50>> ELSE TracedBack(b[k - 1])]

LEMMA TraceExists == ASSUME NEW N \in Nat PROVE \E b : Traced(b, N)
  <1> DEFINE Bad == {n \in Nat : ~\E b : Traced(b, n)}
  <1>1. SUFFICES ASSUME Bad # {} PROVE FALSE
    OBVIOUS
  <1>2. PICK n \in Bad : \A m \in Bad : n <= m
    <2>1. Bad \in SUBSET Nat
      OBVIOUS
    <2> HIDE DEF Bad
    <2> QED BY <1>1, <2>1, Smallest
  <1>3. CASE n = 0
    <2> DEFINE b == [k \in 0 .. 0 |-> <<Tail50>>]
    <2>1. Traced(b, 0)
      BY DEF Traced
    <2> HIDE DEF b
    <2> QED BY <2>1, <1>2, <1>3
  <1>4. CASE n # 0
    <2>1. n - 1 \in Nat /\ n - 1 \notin Bad
      BY <1>2, <1>4
    <2>2. PICK b : Traced(b, n - 1)
      BY <2>1
    <2> DEFINE g == [k \in 0 .. n |-> IF k = n THEN TracedBack(b[n - 1]) ELSE b[k]]
    <2>3. ASSUME NEW k \in 0 .. n PROVE g[k] = IF k = 0 THEN <<Tail50>> ELSE TracedBack(g[k - 1])
      <3>1. \A m \in 0 .. n - 1 : b[m] = IF m = 0 THEN <<Tail50>> ELSE TracedBack(b[m - 1])
        BY <2>2 DEF Traced
      <3>2. \A m \in 0 .. n - 1 : g[m] = b[m]
        BY <1>2
      <3>3. CASE k = n
        <4>1. g[k] = TracedBack(b[n - 1]) /\ n - 1 \in 0 .. n - 1
          BY <3>3, <1>2, <2>1
        <4> HIDE DEF g
        <4> QED BY <4>1, <3>2, <3>3, <1>4
      <3>4. CASE k # n
        <4>1. k \in 0 .. n - 1 /\ (k # 0 => k - 1 \in 0 .. n - 1)
          BY <3>4, <1>2
        <4> HIDE DEF g
        <4> QED BY <4>1, <3>1, <3>2
      <3> QED BY <3>3, <3>4
    <2>4. Traced(g, n)
      <3>1. g = [k \in 0 .. n |-> g[k]]
        OBVIOUS
      <3> HIDE DEF g
      <3> QED BY <2>3, <3>1 DEF Traced
    <2> HIDE DEF g
    <2> QED BY <1>2, <2>4
  <1> QED
    BY <1>3, <1>4

\* A path that is traced back from the unit that finishes last.
DrivenPath(p) ==
    /\ p \in Seq(Task) /\ Len(p) >= 1
    /\ p[Len(p)] = Tail50
    /\ \A k \in 2 .. Len(p) : p[k - 1] \in Driver(p[k], 50)

LEMMA BackChain ==
    ASSUME NEW p, DrivenPath(p)
    PROVE  /\ DrivenPath(TracedBack(p))
           /\ (TracedBack(p) = p /\ Driver(p[1], 50) = {}) \/ Len(TracedBack(p)) = Len(p) + 1
  <1>1. CASE Driver(p[1], 50) = {}
    BY <1>1 DEF TracedBack
  <1>2. CASE Driver(p[1], 50) # {}
    <2> DEFINE d == CHOOSE x \in Driver(p[1], 50) : TRUE
               r == <<d>> \o p
    <2>1. d \in Driver(p[1], 50) /\ TracedBack(p) = r
      BY <1>2 DEF TracedBack
    <2>2. d \in Task
      <3>1. p[1] \in Task
        BY DEF DrivenPath
      <3> QED BY <2>1, <3>1, ForecastAssumption DEF Driver
    <2> HIDE DEF d
    <2>3. /\ r \in Seq(Task) /\ Len(r) = Len(p) + 1 /\ Len(p) \in Nat
          /\ r[1] = d /\ \A k \in 2 .. Len(p) + 1 : r[k] = p[k - 1]
      BY <2>2 DEF DrivenPath
    <2> HIDE DEF r
    <2>4. ASSUME NEW k \in 2 .. Len(r) PROVE r[k - 1] \in Driver(r[k], 50)
      <3>1. r[k] = p[k - 1]
        BY <2>3
      <3>2. CASE k = 2
        BY <2>1, <2>3, <3>1, <3>2
      <3>3. CASE k # 2
        <4>1. k - 1 \in 2 .. Len(p) /\ k - 1 \in 2 .. Len(p) + 1
          BY <2>3, <3>3
        <4>2. r[k - 1] = p[(k - 1) - 1]
          BY <2>3, <4>1
        <4> QED BY <3>1, <4>1, <4>2 DEF DrivenPath
      <3> QED BY <3>2, <3>3
    <2>5. r[Len(r)] = Tail50
      BY <2>3 DEF DrivenPath
    <2>6. DrivenPath(r)
      BY <2>3, <2>4, <2>5 DEF DrivenPath
    <2> QED BY <2>1, <2>3, <2>6
  <1> QED
    BY <1>1, <1>2

\* No unit comes up twice, for units do not depend on themselves.
LEMMA ChainShort ==
    ASSUME NEW p, DrivenPath(p)
    PROVE  Len(p) <= Cardinality(Task)
  <1>0. /\ Len(p) \in Nat /\ \A k \in 1 .. Len(p) : p[k] \in Task
        /\ \A k \in 2 .. Len(p) : p[k - 1] \in DependsOn[p[k]]
    BY DEF DrivenPath, Driver
  <1>1. ASSUME NEW i \in 1 .. Len(p), NEW j \in 1 .. Len(p), i < j, p[i] = p[j]
        PROVE  FALSE
    <2> DEFINE D == {p[k] : k \in i + 1 .. j}
    <2>1. D \in SUBSET Task /\ D # {}
      <3>1. \A k \in i + 1 .. j : k \in 1 .. Len(p)
        BY <1>0, <1>1
      <3>2. j \in i + 1 .. j
        BY <1>0, <1>1
      <3> QED BY <3>1, <3>2, <1>0
    <2>2. PICK u \in D : DependsOn[u] \subseteq Task \ D
      <3> HIDE DEF D
      <3> QED BY <2>1, BuildsOnOthers
    <2>3. PICK k \in i + 1 .. j : u = p[k]
      BY <2>2
    <2>4. k \in 2 .. Len(p)
      BY <1>0, <1>1, <2>3
    <2>5. p[k - 1] \in DependsOn[u]
      BY <1>0, <2>3, <2>4
    <2>6. p[k - 1] \in D
      <3>1. CASE k = i + 1
        <4>1. p[k - 1] = p[j] /\ j \in i + 1 .. j
          BY <1>0, <1>1, <3>1
        <4> QED BY <4>1
      <3>2. CASE k # i + 1
        <4>1. k - 1 \in i + 1 .. j
          BY <2>3, <3>2, <1>0
        <4> QED BY <4>1
      <3> QED BY <3>1, <3>2
    <2> QED BY <2>2, <2>5, <2>6
  <1> DEFINE n == Len(p)
             I == 1 .. n
             f == [k \in I |-> p[k]]
  <1>2. f \in Injection(I, Task)
    <2>1. \A i, j \in I : p[i] = p[j] => i = j
      <3> SUFFICES ASSUME NEW i \in I, NEW j \in I, p[i] = p[j], i # j PROVE FALSE
        OBVIOUS
      <3>1. i < j \/ j < i
        BY <1>0
      <3> QED BY <3>1, <1>1
    <2> QED BY <2>1, <1>0 DEF Injection, IsInjective
  <1>3. Cardinality(I) <= Cardinality(Task)
    <2>1. IsFiniteSet(Task)
      BY ForecastAssumption
    <2> HIDE DEF f, I
    <2> QED BY <1>2, <2>1, FS_Injection
  <1>4. Cardinality(1 .. n) = n
    <2> HIDE DEF n
    <2>1. n \in Nat
      BY <1>0 DEF n
    <2>2. Cardinality(1 .. n) = IF 1 > n THEN 0 ELSE n - 1 + 1
      BY <2>1, FS_Interval
    <2> QED BY <2>1, <2>2
  <1> QED
    BY <1>3, <1>4

\* How far back it was traced: until nothing drives the first unit's start.
LEMMA Tracing ==
    ASSUME NEW N \in Nat, NEW b, Traced(b, N), Tail50 \in Task
    PROVE  \A n \in 0 .. N : DrivenPath(b[n]) /\ (Driver(b[n][1], 50) = {} \/ Len(b[n]) = n + 1)
  <1> DEFINE Good(n) == DrivenPath(b[n]) /\ (Driver(b[n][1], 50) = {} \/ Len(b[n]) = n + 1)
             Bad == {n \in 0 .. N : ~Good(n)}
  <1>1. SUFFICES ASSUME Bad # {} PROVE FALSE
    OBVIOUS
  <1>2. PICK n \in Bad : \A m \in Bad : n <= m
    <2>1. Bad \in SUBSET Nat
      OBVIOUS
    <2> HIDE DEF Bad
    <2> QED BY <1>1, <2>1, Smallest
  <1>3. b[n] = IF n = 0 THEN <<Tail50>> ELSE TracedBack(b[n - 1])
    BY <1>2 DEF Traced
  <1>4. CASE n = 0
    <2>1. b[n] = <<Tail50>>
      BY <1>3, <1>4
    <2> DEFINE p == <<Tail50>>
    <2>2. p \in Seq(Task) /\ Len(p) = 1 /\ p[1] = Tail50
      OBVIOUS
    <2> HIDE DEF p
    <2>3. DrivenPath(p) /\ Len(p) = n + 1
      BY <2>2, <1>4 DEF DrivenPath
    <2> QED BY <1>2, <2>1, <2>3 DEF p
  <1>5. CASE n # 0
    <2>0. n \in 0 .. N
      BY <1>2
    <2>1. n - 1 \in 0 .. N /\ n - 1 \notin Bad /\ n \in Nat
      <3>1. n - 1 \in 0 .. N /\ n \in Nat
        BY <2>0, <1>5
      <3>2. ~(n <= n - 1)
        BY <3>1
      <3> HIDE DEF Bad
      <3> QED BY <3>1, <3>2, <1>2
    <2>2. Good(n - 1)
      BY <2>1
    <2>3. b[n] = TracedBack(b[n - 1])
      BY <1>3, <1>5
    <2>4. DrivenPath(b[n]) /\ ((b[n] = b[n - 1] /\ Driver(b[n - 1][1], 50) = {}) \/ Len(b[n]) = Len(b[n - 1]) + 1)
      BY <2>2, <2>3, BackChain
    <2>5. CASE Driver(b[n - 1][1], 50) = {}
      <3>1. b[n] = b[n - 1]
        BY <2>3, <2>5 DEF TracedBack
      <3> QED BY <1>2, <2>2, <2>5, <3>1
    <2>6. CASE Driver(b[n - 1][1], 50) # {}
      <3>1. Len(b[n]) = Len(b[n - 1]) + 1 /\ Len(b[n - 1]) = n - 1 + 1
        BY <2>2, <2>4, <2>6
      <3>2. Good(n)
        BY <2>1, <2>4, <3>1
      <3> QED BY <1>2, <3>2
    <2> QED BY <2>5, <2>6
  <1> QED
    BY <1>4, <1>5

LEMMA PathTraced ==
    ASSUME ForecastTypes, Remaining # {}
    PROVE  /\ DrivenPath(CriticalPath(50))
           /\ Driver(CriticalPath(50)[1], 50) = {}
           /\ Finish(50)[Tail50] = Eta(50) /\ Tail50 \in Remaining
  <1> DEFINE N == Cardinality(Task)
             body(b) == [n \in 0 .. N |->
                IF n = 0 THEN <<Tail50>>
                ELSE IF Driver((b[n - 1])[1], 50) = {} THEN b[n - 1]
                ELSE <<CHOOSE d \in Driver((b[n - 1])[1], 50) : TRUE>> \o b[n - 1]]
             back == CHOOSE b : b = body(b)
  <1>1. N \in Nat
    BY ForecastAssumption, FS_CardinalityType
  <1>2. CriticalPath(50) = back[N]
    BY DEF CriticalPath, Tail50
  <1>3. \A b : Traced(b, N) <=> b = body(b)
    BY DEF Traced, TracedBack
  <1>4. \E b : b = body(b)
    <2> HIDE DEF body
    <2> QED BY <1>1, <1>3, TraceExists
  <1>5. back = body(back)
    <2> HIDE DEF body
    <2> QED BY <1>4, Zenon
  <1> HIDE DEF back, body
  <1>6. Traced(back, N)
    BY <1>3, <1>5
  <1>7. Finish(50)[Tail50] = Eta(50) /\ Tail50 \in Remaining
    <2>1. EtaBound /\ Unwinds
      BY Forecasts
    <2>2. PICK u \in Remaining : Finish(50)[u] = Eta(50)
      <3>1. CASE Eta(50) = hour
        <4>1. PICK u \in Remaining : TRUE
          OBVIOUS
        <4>2. Finish(50)[u] <= Eta(50) /\ Finish(50)[u] >= hour /\ Finish(50)[u] \in Nat
          BY <2>1, <4>1 DEF EtaBound, Unwinds, Remaining
        <4> QED BY <3>1, <4>1, <4>2 DEF ForecastTypes
      <3> QED BY <2>1, <3>1 DEF EtaBound
    <2> QED BY <2>2 DEF Tail50
  <1>8. DrivenPath(back[N]) /\ (Driver(back[N][1], 50) = {} \/ Len(back[N]) = N + 1)
    <2>1. Tail50 \in Task /\ N \in 0 .. N
      BY <1>1, <1>7 DEF Remaining
    <2> HIDE DEF N
    <2> QED BY <1>1, <1>6, <2>1, Tracing
  <1>9. Len(back[N]) # N + 1
    <2>1. Len(back[N]) <= N
      BY <1>8, ChainShort
    <2>2. Len(back[N]) \in Nat
      BY <1>8 DEF DrivenPath
    <2> QED BY <1>1, <2>1, <2>2
  <1> QED
    BY <1>2, <1>7, <1>8, <1>9

LEMMA PathSpans == ForecastTypes => CriticalPathSpans
  <1> SUFFICES ASSUME ForecastTypes, Remaining # {}
               PROVE  LET path == CriticalPath(50)
                          ends == Finish(50)
                      IN /\ ends[path[Len(path)]] = Eta(50)
                         /\ progress[path[1]] = "running" \/ ends[path[1]] = hour + Duration(path[1], 50)
                         /\ \A k \in 2 .. Len(path) : ends[path[k]] = ends[path[k - 1]] + Duration(path[k], 50)
    BY DEF CriticalPathSpans
  <1> DEFINE path == CriticalPath(50)
             F == Finish(50)
  <1>1. /\ DrivenPath(path) /\ Driver(path[1], 50) = {}
        /\ F[Tail50] = Eta(50) /\ Tail50 \in Remaining
    BY PathTraced
  <1> HIDE DEF path
  <1>2. \A u \in Task : F[u] = Ends(F, u) /\ F[u] \in Nat /\ F[u] >= hour
    BY Forecasts DEF Unwinds
  <1> HIDE DEF F
  <1>3. /\ Len(path) \in Nat /\ Len(path) >= 1 /\ \A k \in 1 .. Len(path) : path[k] \in Task
        /\ F[path[Len(path)]] = Eta(50)
    BY <1>1 DEF DrivenPath
  <1>4. ASSUME NEW u \in Task
        PROVE  /\ LatestOf(hour, F, u) \in Nat /\ LatestOf(hour, F, u) >= hour
               /\ \A d \in DependsOn[u] : F[d] <= LatestOf(hour, F, u) /\ F[d] \in Nat
               /\ LatestOf(hour, F, u) = hour \/ \E d \in DependsOn[u] : F[d] = LatestOf(hour, F, u)
    <2>1. \A d \in DependsOn[u] : F[d] \in Nat
      BY <1>2, ForecastAssumption
    <2> QED BY <2>1, StartBounded DEF ForecastTypes
  <1>5. ASSUME NEW k \in 2 .. Len(path) PROVE F[path[k]] = F[path[k - 1]] + Duration(path[k], 50)
    <2> DEFINE u == path[k]
               d == path[k - 1]
    <2>1. u \in Task /\ d \in Driver(u, 50)
      BY <1>1, <1>3 DEF DrivenPath
    <2> HIDE DEF u, d
    <2>2. /\ d \in DependsOn[u] /\ progress[u] \in {"pending", "failed"} /\ F[d] > hour
          /\ \A e \in DependsOn[u] : F[e] <= F[d]
      BY <2>1 DEF Driver, F
    <2>3. LatestOf(hour, F, u) = F[d]
      BY <1>4, <2>1, <2>2 DEF ForecastTypes
    <2>4. F[u] = LatestOf(hour, F, u) + Duration(u, 50)
      BY <1>2, <2>1, <2>2 DEF Ends
    <2> QED BY <2>3, <2>4 DEF u, d
  <1>6. progress[path[1]] = "running" \/ F[path[1]] = hour + Duration(path[1], 50)
    <2> DEFINE u == path[1]
    <2>1. u \in Task /\ Driver(u, 50) = {}
      BY <1>1, <1>3
    <2>2. progress[u] # "completed"
      <3>1. CASE Len(path) = 1
        BY <1>1, <3>1 DEF DrivenPath, Remaining
      <3>2. CASE Len(path) # 1
        <4>0. Len(path) \in Nat /\ Len(path) >= 2
          <5> DEFINE n == Len(path)
          <5>1. n \in Nat /\ n >= 1 /\ n # 1
            BY <1>3, <3>2
          <5> HIDE DEF n
          <5>2. n >= 2
            BY <5>1
          <5> QED BY <5>1, <5>2 DEF n
        <4>1. 2 \in 2 .. Len(path)
          BY <4>0
        <4>2. u \in Driver(path[2], 50)
          BY <1>1, <4>1 DEF DrivenPath
        <4>3. F[u] > hour
          BY <4>2 DEF Driver, F
        <4>4. progress[u] = "completed" => F[u] = hour
          BY <1>2, <2>1 DEF Ends
        <4> QED BY <4>3, <4>4 DEF ForecastTypes
      <3> QED BY <3>1, <3>2
    <2>3. CASE progress[u] \in {"pending", "failed"}
      <3>1. LatestOf(hour, F, u) = hour
        <4>1. SUFFICES ASSUME LatestOf(hour, F, u) # hour PROVE FALSE
          OBVIOUS
        <4>2. PICK d \in DependsOn[u] : F[d] = LatestOf(hour, F, u)
          BY <1>4, <2>1, <4>1
        <4>3. F[d] > hour /\ \A e \in DependsOn[u] : F[e] <= F[d]
          <5>1. LatestOf(hour, F, u) > hour
            BY <1>4, <2>1, <4>1 DEF ForecastTypes
          <5> QED BY <1>4, <2>1, <4>2, <5>1
        <4>4. d \in Driver(u, 50)
          BY <2>3, <4>2, <4>3 DEF Driver, F
        <4> QED BY <2>1, <4>4
      <3>2. F[u] = LatestOf(hour, F, u) + Duration(u, 50)
        BY <1>2, <2>1, <2>3 DEF Ends
      <3> QED BY <3>1, <3>2
    <2> QED BY <2>1, <2>2, <2>3 DEF ForecastTypes
  <1> QED
    BY <1>3, <1>5, <1>6 DEF path, F

\* `_critical_path`, over any graph without cycles.
THEOREM PathExplainsEnd == ForecastSpec => []CriticalPathSpans
  BY PathSpans, ForecastTypesInit, ForecastTypesNext, PTL DEF ForecastSpec

-----------------------------------------------------------------------------
(* The packet of one run: evidence in order, sizes and notices.            *)

Unalike(S) == \A r, s \in S : r.id = s.id => r = s

\* Records that have identities of their own can be put in their order.
LEMMA ByIdExists ==
    ASSUME NEW S \in SUBSET Evidence, IsFiniteSet(S), Unalike(S)
    PROVE  \E q \in [1 .. Cardinality(S) -> S] :
               Items(q) = S /\ \A i, j \in DOMAIN q : i < j => q[i].id < q[j].id
  <1> DEFINE Sorted(T) == \E q \in [1 .. Cardinality(T) -> T] :
                              Items(q) = T /\ \A i, j \in DOMAIN q : i < j => q[i].id < q[j].id
             Bad == {T \in SUBSET S : ~Sorted(T)}
  <1>1. SUFFICES ASSUME Bad # {} PROVE FALSE
    <2> QED
      BY <1>1
  <1>2. PICK T \in Bad : \A U \in SUBSET T : U # T => U \notin Bad
    <2>1. Bad \in SUBSET SUBSET S
      OBVIOUS
    <2> HIDE DEF Bad
    <2> QED
      BY <1>1, <2>1, FinitelyMinimal
  <1>3. T \subseteq S /\ IsFiniteSet(T) /\ T \subseteq Evidence /\ Unalike(T) /\ ~Sorted(T)
    <2>1. T \subseteq S /\ ~Sorted(T)
      OBVIOUS
    <2> QED
      BY <2>1, FS_Subset DEF Unalike
  <1>4. T # {}
    <2>1. SUFFICES ASSUME T = {} PROVE FALSE
      OBVIOUS
    <2>2. Cardinality({}) = 0
      BY FS_EmptySet
    <2>3. 1 .. Cardinality(T) = {}
      BY <2>1, <2>2
    <2> DEFINE q == [i \in {} |-> i]
    <2>4. q \in [1 .. Cardinality(T) -> T] /\ DOMAIN q = {}
      BY <2>1, <2>3
    <2>5. Items(q) = {}
      BY <2>4 DEF Items
    <2> HIDE DEF q
    <2>6. Sorted(T)
      BY <2>1, <2>4, <2>5
    <2> QED
      BY <1>3, <2>6
  <1>5. PICK x \in T : \A r \in T : r.id <= x.id
    <2> DEFINE ids == [r \in T |-> r.id]
               I == {ids[r] : r \in T}
    <2>1. \A r \in T : r.id \in Nat
      BY <1>3 DEF Evidence
    <2>2. IsFiniteSet(I)
      <3> HIDE DEF ids
      <3> QED
        BY <1>3, ImageFinite
    <2>3. I \in SUBSET Nat /\ I # {}
      BY <1>4, <2>1
    <2>4. Max(I) \in I /\ \A n \in I : n <= Max(I)
      <3> HIDE DEF I
      <3> QED
        BY <2>2, <2>3, Largest
    <2> QED
      BY <2>4
  <1> DEFINE U == T \ {x}
             n == Cardinality(U)
  <1>6. IsFiniteSet(U) /\ n \in Nat /\ Cardinality(T) = n + 1
    <2>1. T = U \cup {x} /\ x \notin U
      OBVIOUS
    <2>2. IsFiniteSet(U)
      BY <1>3, FS_Subset
    <2> HIDE DEF U
    <2> QED
      BY <2>1, <2>2, FS_AddElement, FS_CardinalityType
  <1>7. Sorted(U)
    <2>1. U \in SUBSET T /\ U # T /\ U \in SUBSET S
      BY <1>3
    <2> HIDE DEF U, Sorted
    <2> QED
      BY <1>2, <2>1
  <1>8. PICK p \in [1 .. n -> U] : Items(p) = U /\ \A i, j \in 1 .. n : i < j => p[i].id < p[j].id
    BY <1>7
  <1>9. \A r \in U : r.id < x.id
    <2>1. \A r \in U : r.id <= x.id /\ r.id \in Nat /\ x.id \in Nat
      BY <1>3, <1>5 DEF Evidence
    <2>2. \A r \in U : r.id # x.id
      BY <1>3 DEF Unalike
    <2> QED
      BY <2>1, <2>2
  <1> DEFINE q == [i \in 1 .. n + 1 |-> IF i = n + 1 THEN x ELSE p[i]]
  <1> HIDE DEF U, n
  <1>10. \A i \in 1 .. n + 1 : i = n + 1 \/ i \in 1 .. n
    BY <1>6
  <1>11. U \subseteq T /\ T = U \cup {x}
    BY DEF U
  <1>12. q \in [1 .. n + 1 -> T] /\ DOMAIN q = 1 .. n + 1
    BY <1>8, <1>10, <1>11
  <1>13. (\A i \in 1 .. n : q[i] = p[i] /\ p[i] \in U) /\ q[n + 1] = x
    BY <1>6, <1>8
  <1> HIDE DEF q
  <1>14. Items(q) = T
    <2>1. \A i \in 1 .. n : i \in 1 .. n + 1
      BY <1>6
    <2>2. n + 1 \in 1 .. n + 1
      BY <1>6
    <2>3. U = {p[i] : i \in 1 .. n}
      BY <1>8 DEF Items
    <2>4. Items(q) = {q[i] : i \in 1 .. n + 1}
      BY <1>12 DEF Items
    <2> QED
      BY <1>10, <1>11, <1>13, <2>1, <2>2, <2>3, <2>4
  <1>15. \A i, j \in 1 .. n + 1 : i < j => q[i].id < q[j].id
    <2> SUFFICES ASSUME NEW i \in 1 .. n + 1, NEW j \in 1 .. n + 1, i < j PROVE q[i].id < q[j].id
      OBVIOUS
    <2>1. i \in 1 .. n
      BY <1>6
    <2>2. CASE j = n + 1
      BY <1>9, <1>13, <2>1, <2>2
    <2>3. CASE j \in 1 .. n
      BY <1>8, <1>13, <2>1, <2>3
    <2> QED
      BY <1>10, <2>2, <2>3
  <1>16. Sorted(T)
    BY <1>6, <1>12, <1>14, <1>15
  <1> QED
    BY <1>3, <1>16

LEMMA ByIdOrders ==
    ASSUME NEW S \in SUBSET Evidence, IsFiniteSet(S), Unalike(S)
    PROVE  ById(S) \in Seq(Evidence) /\ Items(ById(S)) = S
  <1> DEFINE P(q) == Items(q) = S /\ \A i, j \in DOMAIN q : i < j => q[i].id < q[j].id
  <1>1. \E q \in [1 .. Cardinality(S) -> S] : P(q)
    BY ByIdExists
  <1>2. ById(S) = CHOOSE q \in [1 .. Cardinality(S) -> S] : P(q)
    BY DEF ById
  <1>3. ById(S) \in [1 .. Cardinality(S) -> S] /\ P(ById(S))
    <2> HIDE DEF P
    <2> QED
      BY <1>1, <1>2
  <1>4. Cardinality(S) \in Nat
    BY FS_CardinalityType
  <1> QED
    BY <1>3, <1>4

\* Some record is more relevant than every other, or has a smaller identity.
LEMMA OneForemost ==
    ASSUME NEW S \in SUBSET Evidence, IsFiniteSet(S), Unalike(S), S # {}
    PROVE  \E r \in S : \A s \in S : s = r \/ Before(r, s)
  <1> DEFINE f == [r \in S |-> r.relevance]
             R == {f[r] : r \in S}
  <1>1. \A r \in S : r.relevance \in Nat /\ r.id \in Nat
    BY DEF Evidence
  <1>2. IsFiniteSet(R)
    <2> HIDE DEF f
    <2> QED
      BY ImageFinite
  <1>3. R \in SUBSET Nat /\ R # {}
    BY <1>1
  <1>4. PICK top \in R : \A n \in R : n <= top
    <2> HIDE DEF R
    <2> QED
      BY <1>2, <1>3, Largest
  <1> DEFINE T == {r \in S : r.relevance = top}
             I == {r.id : r \in T}
  <1>5. T # {} /\ I # {} /\ I \in SUBSET Nat
    BY <1>1
  <1>6. PICK i \in I : \A j \in I : i <= j
    <2> HIDE DEF I
    <2> QED
      BY <1>5, Smallest
  <1>7. PICK r \in T : r.id = i
    BY <1>6
  <1>8. ASSUME NEW s \in S, s # r
        PROVE  Before(r, s)
    <2>1. s.relevance <= top /\ r.relevance = top /\ top \in Nat
      BY <1>1, <1>4
    <2>2. CASE s.relevance = top
      <3>1. r.id <= s.id /\ r.id # s.id
        BY <1>6, <1>7, <1>8, <2>2 DEF Unalike
      <3> QED
        BY <1>1, <2>1, <2>2, <3>1 DEF Before
    <2>3. CASE s.relevance # top
      BY <1>1, <2>1, <2>3 DEF Before
    <2> QED
      BY <2>2, <2>3
  <1> QED
    BY <1>7, <1>8

LEMMA ItemsFinite ==
    ASSUME NEW q \in Seq(Evidence)
    PROVE  Items(q) \subseteq Evidence /\ IsFiniteSet(Items(q)) /\ DOMAIN q = 1 .. Len(q) /\ IsFiniteSet(1 .. Len(q))
  <1>1. DOMAIN q = 1 .. Len(q) /\ Len(q) \in Nat
    OBVIOUS
  <1>2. IsFiniteSet(1 .. Len(q))
    BY <1>1, FS_Interval
  <1>3. Items(q) = {q[i] : i \in 1 .. Len(q)}
    BY <1>1 DEF Items
  <1>4. IsFiniteSet(Items(q))
    BY <1>2, <1>3, ImageFinite
  <1> QED
    BY <1>1, <1>2, <1>3, <1>4

\* The sizes of the records of a list.
Sizes(q) == [i \in DOMAIN q |-> q[i].size]

LEMMA SizesSum ==
    ASSUME NEW q \in Seq(Evidence)
    PROVE  /\ Sizes(q) \in [1 .. Len(q) -> Nat] /\ IsFiniteSet(1 .. Len(q))
           /\ Bytes(q) = Cardinality(Under(Sizes(q), 1 .. Len(q)))
  <1>1. DOMAIN q = 1 .. Len(q) /\ IsFiniteSet(1 .. Len(q))
    BY ItemsFinite
  <1>2. \A i \in 1 .. Len(q) : q[i].size \in Nat
    <2>1. \A r \in Evidence : r.size \in Nat
      BY DEF Evidence
    <2>2. \A i \in 1 .. Len(q) : q[i] \in Evidence
      OBVIOUS
    <2> QED
      BY <2>1, <2>2
  <1>3. Sizes(q) = [i \in 1 .. Len(q) |-> q[i].size]
    BY <1>1 DEF Sizes
  <1>4. Sizes(q) \in [1 .. Len(q) -> Nat]
    <2> DEFINE A == 1 .. Len(q)
    <2>1. (\A i \in A : q[i].size \in Nat) /\ Sizes(q) = [i \in A |-> q[i].size]
      BY <1>2, <1>3
    <2> HIDE DEF A
    <2>2. Sizes(q) \in [A -> Nat]
      BY <2>1
    <2> QED
      BY <2>2 DEF A
  <1>5. DOMAIN Sizes(q) = 1 .. Len(q)
    BY <1>3
  <1>6. SumFunction(Sizes(q)) = Cardinality(Under(Sizes(q), 1 .. Len(q)))
    BY <1>1, <1>4, <1>5, SumCounts
  <1> QED
    BY <1>1, <1>4, <1>6 DEF Bytes, Sizes

LEMMA BytesTyped ==
    ASSUME NEW q \in Seq(Evidence)
    PROVE  Bytes(q) \in Nat
  BY SizesSum, UnderFinite, FS_CardinalityType

\* A record more takes no room away.
LEMMA BytesGrow ==
    ASSUME NEW q \in Seq(Evidence), NEW r \in Evidence
    PROVE  Bytes(q) <= Bytes(Append(q, r))
  <1> DEFINE w == Append(q, r)
             f == Sizes(q)
             g == Sizes(w)
             A == 1 .. Len(q)
             B == 1 .. Len(w)
  <1>1. w \in Seq(Evidence) /\ Len(w) = Len(q) + 1 /\ Len(q) \in Nat
    OBVIOUS
  <1>2. A \subseteq B /\ \A i \in A : w[i] = q[i]
    OBVIOUS
  <1> HIDE DEF w
  <1>3. /\ f \in [A -> Nat] /\ IsFiniteSet(A) /\ Bytes(q) = Cardinality(Under(f, A))
        /\ g \in [B -> Nat] /\ IsFiniteSet(B) /\ Bytes(w) = Cardinality(Under(g, B))
    BY <1>1, SizesSum
  <1>4. \A i \in A : f[i] = g[i]
    <2>1. DOMAIN q = A /\ DOMAIN w = B
      BY <1>1
    <2> QED
      BY <1>2, <2>1 DEF Sizes
  <1> HIDE DEF f, g, A, B
  <1>5. Under(f, A) \subseteq Under(g, B)
    BY <1>2, <1>4 DEF Under
  <1>6. IsFiniteSet(Under(g, B))
    BY <1>3, UnderFinite
  <1>7. Cardinality(Under(f, A)) <= Cardinality(Under(g, B))
    BY <1>5, <1>6, FS_Subset
  <1> QED
    BY <1>3, <1>7 DEF w

LEMMA ItemsAppend ==
    ASSUME NEW q \in Seq(Evidence), NEW r
    PROVE  Items(Append(q, r)) = Items(q) \cup {r}
  <1> DEFINE w == Append(q, r)
             n == Len(q)
  <1>1. n \in Nat /\ DOMAIN q = 1 .. n /\ DOMAIN w = 1 .. n + 1
    OBVIOUS
  <1>2. (\A i \in 1 .. n : w[i] = q[i]) /\ w[n + 1] = r
    OBVIOUS
  <1> HIDE DEF w, n
  <1>3. \A i \in 1 .. n + 1 : i \in 1 .. n \/ i = n + 1
    BY <1>1
  <1>4. (\A i \in 1 .. n : i \in 1 .. n + 1) /\ n + 1 \in 1 .. n + 1
    BY <1>1
  <1>5. Items(w) = {w[i] : i \in 1 .. n + 1} /\ Items(q) = {q[i] : i \in 1 .. n}
    BY <1>1 DEF Items
  <1>6. Items(w) = Items(q) \cup {r}
    BY <1>2, <1>3, <1>4, <1>5
  <1> QED
    BY <1>6 DEF w

\* What is required among the admitted, and what is not.
Compulsory(a, adm) == {r \in Items(adm) : a.sources[r.source].required}
Elective(a, adm) == {r \in Items(adm) : ~a.sources[r.source].required}

\* What has been admitted of the first n records.
Gathered(a, n, adm) ==
    /\ adm \in Seq(Evidence)
    /\ \A i \in 1 .. n : Excluded(a.records[i]) \/ a.records[i] \in Items(adm)
    /\ \A r \in Items(adm) :
           /\ a.sources[r.source].readable /\ ~Excluded(r) /\ r.place # "otherTree"
           /\ \E i \in 1 .. n : r = a.records[i]
    /\ Unalike(Items(adm))

\* What is chosen begins with the mandatory records; the optional ones follow,
\* each ahead of those after it, and ahead of any other weighed that is no larger.
Laid(a, adm, ch, w) ==
    LET m == ById(Compulsory(a, adm))
    IN  /\ ch \in Seq(Evidence) /\ Len(m) <= Len(ch) /\ Len(ch) <= MaxRecords
        /\ \A k \in 1 .. Len(m) : ch[k] = m[k]
        /\ \A k \in 1 .. Len(ch) : Len(m) < k => ch[k] \in w
        /\ \A i, j \in 1 .. Len(ch) : Len(m) < i /\ i < j => Before(ch[i], ch[j])
        /\ w \subseteq Elective(a, adm)
        /\ \A r \in w \ Items(ch), s \in w \cap Items(ch) : s.size >= r.size => Before(s, r)

\* Whatever has been weighed is ahead of whatever has not.
Ahead(a, adm, w) == \A r \in w, s \in Elective(a, adm) \ w : Before(r, s)

\* What was passed over would not fit now either.
NoRoom(room, ch, w) ==
    \A r \in w \ Items(ch) : Len(ch) >= MaxRecords \/ Fixed + Bytes(ch) + r.size > room

LEMMA GatheredMore ==
    ASSUME NEW a \in PackRequest, NEW n \in Nat, n < Len(a.records), NEW adm, Gathered(a, n, adm),
           a.sources[a.records[n + 1].source].readable,
           \A i \in 1 .. n : a.records[i].id = a.records[n + 1].id => a.records[i] = a.records[n + 1],
           a.records[n + 1].place # "otherTree"
    PROVE  LET r == a.records[n + 1] IN
           Gathered(a, n + 1, IF Excluded(r) \/ r \in Items(adm) THEN adm ELSE Append(adm, r))
  <1> DEFINE r == a.records[n + 1]
             after == IF Excluded(r) \/ r \in Items(adm) THEN adm ELSE Append(adm, r)
  <1>1. r \in Evidence
    <2>1. a.records \in Seq(Evidence)
      BY DEF PackRequest
    <2> QED
      BY <2>1
  <1>2. adm \in Seq(Evidence) /\ Unalike(Items(adm))
    BY DEF Gathered
  <1>3. after \in Seq(Evidence)
    BY <1>1, <1>2
  <1>4. Items(after) = IF Excluded(r) \/ r \in Items(adm) THEN Items(adm) ELSE Items(adm) \cup {r}
    BY <1>2, ItemsAppend
  <1>5. \A s \in Items(after) : s \in Items(adm) \/ (s = r /\ ~Excluded(r))
    BY <1>4
  <1>6. Items(adm) \subseteq Items(after) /\ (Excluded(r) \/ r \in Items(after))
    BY <1>4
  <1> HIDE DEF after
  <1>7. \A i \in 1 .. n + 1 : i \in 1 .. n \/ i = n + 1
    OBVIOUS
  <1>8. (\A i \in 1 .. n : i \in 1 .. n + 1) /\ n + 1 \in 1 .. n + 1
    OBVIOUS
  <1>9. \A i \in 1 .. n + 1 : Excluded(a.records[i]) \/ a.records[i] \in Items(after)
    BY <1>6, <1>7 DEF Gathered
  <1>10. \A s \in Items(after) :
            /\ a.sources[s.source].readable /\ ~Excluded(s) /\ s.place # "otherTree"
            /\ \E i \in 1 .. n + 1 : s = a.records[i]
    BY <1>5, <1>8 DEF Gathered
  <1>11. \A s \in Items(adm) : s.id = r.id => s = r
    BY DEF Gathered
  <1>12. Unalike(Items(after))
    BY <1>2, <1>5, <1>11 DEF Unalike
  <1>13. Gathered(a, n + 1, after)
    BY <1>3, <1>9, <1>10, <1>12 DEF Gathered
  <1> QED
    BY <1>13 DEF after

\* The mandatory records, in order.
LEMMA MandatoryLaid ==
    ASSUME NEW a, NEW n, NEW adm, Gathered(a, n, adm)
    PROVE  /\ ById(Compulsory(a, adm)) \in Seq(Evidence)
           /\ Items(ById(Compulsory(a, adm))) = Compulsory(a, adm)
  <1>1. Items(adm) \subseteq Evidence /\ IsFiniteSet(Items(adm)) /\ Unalike(Items(adm))
    BY ItemsFinite DEF Gathered
  <1>2. Compulsory(a, adm) \subseteq Items(adm)
    BY DEF Compulsory
  <1>3. /\ Compulsory(a, adm) \in SUBSET Evidence /\ IsFiniteSet(Compulsory(a, adm))
        /\ Unalike(Compulsory(a, adm))
    BY <1>1, <1>2, FS_Subset DEF Unalike
  <1> QED
    BY <1>3, ByIdOrders

LEMMA LaidStart ==
    ASSUME NEW a, NEW n, NEW adm, Gathered(a, n, adm), Len(ById(Compulsory(a, adm))) <= MaxRecords, NEW room
    PROVE  /\ Laid(a, adm, ById(Compulsory(a, adm)), {})
           /\ Ahead(a, adm, {}) /\ NoRoom(room, ById(Compulsory(a, adm)), {})
  <1> DEFINE m == ById(Compulsory(a, adm))
  <1>1. m \in Seq(Evidence) /\ Len(m) \in Nat
    BY MandatoryLaid
  <1>2. Ahead(a, adm, {}) /\ NoRoom(room, m, {})
    BY DEF Ahead, NoRoom
  <1>3. \A k \in 1 .. Len(m) : ~(Len(m) < k)
    BY <1>1
  <1>4. Laid(a, adm, m, {})
    BY <1>1, <1>3 DEF Laid
  <1> QED
    BY <1>2, <1>4

\* A record that is chosen or passed over in its turn.
LEMMA LaidMore ==
    ASSUME NEW a, NEW n, NEW adm, Gathered(a, n, adm), NEW ch, NEW w, Laid(a, adm, ch, w),
           Ahead(a, adm, w), NEW room \in Nat, NoRoom(room, ch, w),
           NEW r \in Elective(a, adm) \ w, \A s \in Elective(a, adm) \ w : s = r \/ Before(r, s)
    PROVE  LET fits == Len(ch) < MaxRecords /\ Fixed + Bytes(ch) + r.size <= room
               after == IF fits THEN Append(ch, r) ELSE ch
           IN  /\ Laid(a, adm, after, w \cup {r}) /\ Ahead(a, adm, w \cup {r})
               /\ NoRoom(room, after, w \cup {r})
  <1> DEFINE m == ById(Compulsory(a, adm))
             v == w \cup {r}
             fits == Len(ch) < MaxRecords /\ Fixed + Bytes(ch) + r.size <= room
             after == IF fits THEN Append(ch, r) ELSE ch
  <1>1. m \in Seq(Evidence) /\ Len(m) \in Nat
    BY MandatoryLaid
  <1> HIDE DEF m
  <1>2. /\ ch \in Seq(Evidence) /\ Len(m) <= Len(ch) /\ Len(ch) <= MaxRecords
        /\ \A k \in 1 .. Len(m) : ch[k] = m[k]
        /\ \A k \in 1 .. Len(ch) : Len(m) < k => ch[k] \in w
        /\ \A i, j \in 1 .. Len(ch) : Len(m) < i /\ i < j => Before(ch[i], ch[j])
        /\ w \subseteq Elective(a, adm)
        /\ \A x \in w \ Items(ch), s \in w \cap Items(ch) : s.size >= x.size => Before(s, x)
    BY DEF Laid, m
  <1>3. Elective(a, adm) \subseteq Evidence
    <2>1. adm \in Seq(Evidence)
      BY DEF Gathered
    <2> QED
      BY <2>1, ItemsFinite DEF Elective
  <1>4. r \in Evidence /\ \A x \in w : x \in Evidence
    BY <1>2, <1>3
  <1>5. \A x \in Evidence : x.size \in Nat
    BY DEF Evidence
  <1>6. Len(ch) \in Nat /\ Bytes(ch) \in Nat /\ MaxRecords \in Nat /\ Fixed \in Nat
    BY <1>2, BytesTyped, PacketAssumption
  <1>7. \A x \in w : Before(x, r)
    BY DEF Ahead
  <1>8. Ahead(a, adm, v)
    <2> SUFFICES ASSUME NEW x \in v, NEW s \in Elective(a, adm) \ v PROVE Before(x, s)
      BY DEF Ahead
    <2>1. CASE x \in w
      BY <2>1 DEF Ahead
    <2>2. CASE x = r
      BY <2>2
    <2> QED
      BY <2>1, <2>2
  <1>9. CASE ~fits
    <2>1. after = ch
      BY <1>9
    <2>2. NoRoom(room, ch, v)
      <3>1. Len(ch) >= MaxRecords \/ Fixed + Bytes(ch) + r.size > room
        BY <1>4, <1>5, <1>6, <1>9
      <3> QED
        BY <3>1 DEF NoRoom
    <2> HIDE DEF after, fits
    <2>3. ASSUME NEW x \in v \ Items(ch), NEW s \in v \cap Items(ch), s.size >= x.size
          PROVE  Before(s, x)
      <3>1. CASE x \in w /\ s \in w
        BY <1>2, <2>3, <3>1
      <3>2. CASE x = r /\ s \in w
        BY <1>7, <3>2
      <3>3. CASE s = r
        <4>1. PICK k \in 1 .. Len(ch) : ch[k] = r
          BY <1>2, <3>3 DEF Items
        <4>2. ~(Len(m) < k)
          BY <1>2, <4>1
        <4>3. k \in 1 .. Len(m)
          BY <1>1, <1>6, <4>2
        <4>4. r \in Items(m)
          BY <1>1, <1>2, <4>1, <4>3 DEF Items
        <4>5. r \in Compulsory(a, adm)
          BY <4>4, MandatoryLaid DEF m
        <4> QED
          BY <4>5 DEF Compulsory, Elective
      <3> QED
        BY <3>1, <3>2, <3>3
    <2>4. v \subseteq Elective(a, adm)
      BY <1>2
    <2>5. \A k \in 1 .. Len(ch) : Len(m) < k => ch[k] \in v
      BY <1>2
    <2> HIDE DEF v
    <2>6. Laid(a, adm, ch, v)
      BY <1>2, <2>3, <2>4, <2>5 DEF Laid, m
    <2> QED
      BY <1>8, <2>1, <2>2, <2>6 DEF v, after, fits
  <1>10. CASE fits
    <2> DEFINE q == Append(ch, r)
    <2>1. after = q
      BY <1>10
    <2>2. Len(ch) < MaxRecords /\ Fixed + Bytes(ch) + r.size <= room
      BY <1>10
    <2>3. /\ q \in Seq(Evidence) /\ Len(q) = Len(ch) + 1 /\ q[Len(ch) + 1] = r
          /\ \A k \in 1 .. Len(ch) : q[k] = ch[k]
      BY <1>2, <1>4
    <2>4. Items(q) = Items(ch) \cup {r} /\ Bytes(ch) <= Bytes(q) /\ Bytes(q) \in Nat
      BY <1>2, <1>4, <2>3, ItemsAppend, BytesGrow, BytesTyped
    <2> HIDE DEF q, after, fits
    <2>5. \A k \in 1 .. Len(q) : k \in 1 .. Len(ch) \/ k = Len(ch) + 1
      BY <1>6, <2>3
    <2>6. v \ Items(q) \subseteq w \ Items(ch) /\ \A s \in v \cap Items(q) : s = r \/ s \in w \cap Items(ch)
      BY <2>4
    <2>7. NoRoom(room, q, v)
      <3> SUFFICES ASSUME NEW x \in v \ Items(q)
                   PROVE  Len(q) >= MaxRecords \/ Fixed + Bytes(q) + x.size > room
        BY DEF NoRoom
      <3>1. x \in w \ Items(ch) /\ x.size \in Nat
        BY <1>4, <1>5, <2>6
      <3>2. Len(ch) >= MaxRecords \/ Fixed + Bytes(ch) + x.size > room
        BY <3>1 DEF NoRoom
      <3> QED
        BY <1>6, <2>2, <2>3, <2>4, <3>1, <3>2
    <2>8. ASSUME NEW x \in v \ Items(q), NEW s \in v \cap Items(q), s.size >= x.size
          PROVE  Before(s, x)
      <3>1. x \in w \ Items(ch) /\ x.size \in Nat /\ r.size \in Nat
        BY <1>4, <1>5, <2>6
      <3>2. CASE s = r
        <4>1. Len(ch) >= MaxRecords \/ Fixed + Bytes(ch) + x.size > room
          BY <3>1 DEF NoRoom
        <4>2. r.size < x.size
          BY <1>6, <2>2, <3>1, <4>1
        <4> QED
          BY <2>8, <3>1, <3>2, <4>2
      <3>3. CASE s \in w \cap Items(ch)
        BY <1>2, <2>8, <3>1, <3>3
      <3> QED
        BY <2>6, <3>2, <3>3
    <2>9. \A k \in 1 .. Len(q) : Len(m) < k => q[k] \in v
      BY <1>2, <2>3, <2>5
    <2>10. \A i, j \in 1 .. Len(q) : Len(m) < i /\ i < j => Before(q[i], q[j])
      <3> SUFFICES ASSUME NEW i \in 1 .. Len(q), NEW j \in 1 .. Len(q), Len(m) < i, i < j
                   PROVE  Before(q[i], q[j])
        OBVIOUS
      <3>1. i \in 1 .. Len(ch)
        BY <1>6, <2>3, <2>5
      <3>2. CASE j \in 1 .. Len(ch)
        BY <1>2, <2>3, <3>1, <3>2
      <3>3. CASE j = Len(ch) + 1
        <4>1. ch[i] \in w
          BY <1>2, <3>1
        <4> QED
          BY <1>7, <2>3, <3>1, <3>3, <4>1
      <3> QED
        BY <2>5, <3>2, <3>3
    <2>11. \A k \in 1 .. Len(m) : q[k] = m[k]
      <3>1. \A k \in 1 .. Len(m) : k \in 1 .. Len(ch)
        BY <1>1, <1>2, <1>6
      <3> QED
        BY <1>2, <2>3, <3>1
    <2>12. Len(m) <= Len(q) /\ Len(q) <= MaxRecords
      BY <1>1, <1>2, <1>6, <2>2, <2>3
    <2>13. v \subseteq Elective(a, adm)
      BY <1>2
    <2> HIDE DEF v
    <2>14. Laid(a, adm, q, v)
      BY <2>3, <2>8, <2>9, <2>10, <2>11, <2>12, <2>13 DEF Laid, m
    <2> QED
      BY <1>8, <2>1, <2>7, <2>14 DEF v, after, fits, q
  <1> QED
    BY <1>9, <1>10

\* The last optional record, given back, ranks below all that are left.
LEMMA LaidLess ==
    ASSUME NEW a, NEW n, NEW adm, Gathered(a, n, adm), NEW ch, NEW w, Laid(a, adm, ch, w),
           ch # <<>>, ~a.sources[ch[Len(ch)].source].required
    PROVE  Laid(a, adm, SubSeq(ch, 1, Len(ch) - 1), w)
  <1> DEFINE m == ById(Compulsory(a, adm))
             q == SubSeq(ch, 1, Len(ch) - 1)
  <1>1. m \in Seq(Evidence) /\ Len(m) \in Nat /\ Items(m) = Compulsory(a, adm)
    BY MandatoryLaid
  <1> HIDE DEF m
  <1>2. /\ ch \in Seq(Evidence) /\ Len(m) <= Len(ch) /\ Len(ch) <= MaxRecords
        /\ \A k \in 1 .. Len(m) : ch[k] = m[k]
        /\ \A k \in 1 .. Len(ch) : Len(m) < k => ch[k] \in w
        /\ \A i, j \in 1 .. Len(ch) : Len(m) < i /\ i < j => Before(ch[i], ch[j])
        /\ w \subseteq Elective(a, adm)
        /\ \A x \in w \ Items(ch), s \in w \cap Items(ch) : s.size >= x.size => Before(s, x)
    BY DEF Laid, m
  <1>3. Len(ch) \in Nat /\ Len(ch) >= 1 /\ DOMAIN ch = 1 .. Len(ch) /\ MaxRecords \in Nat
    BY <1>2, PacketAssumption
  <1>4. Len(m) < Len(ch)
    <2>1. SUFFICES ASSUME Len(m) = Len(ch) PROVE FALSE
      BY <1>1, <1>2, <1>3
    <2>2. Len(ch) \in 1 .. Len(m)
      BY <1>3, <2>1
    <2>3. ch[Len(ch)] \in Items(m)
      BY <1>1, <1>2, <2>2 DEF Items
    <2> QED
      BY <1>1, <2>3 DEF Compulsory
  <1>5. q \in Seq(Evidence) /\ Len(q) = Len(ch) - 1 /\ \A k \in 1 .. Len(q) : q[k] = ch[k]
    BY <1>2, <1>3
  <1> HIDE DEF q
  <1>6. \A k \in 1 .. Len(q) : k \in 1 .. Len(ch) /\ k < Len(ch)
    BY <1>3, <1>5
  <1>7. DOMAIN q = 1 .. Len(q)
    BY <1>5
  <1>8. Items(q) \subseteq Items(ch) /\ \A x \in Items(ch) : x \in Items(q) \/ x = ch[Len(ch)]
    <2>1. \A k \in 1 .. Len(ch) : k \in 1 .. Len(q) \/ k = Len(ch)
      BY <1>3, <1>5
    <2> QED
      BY <1>3, <1>5, <1>6, <1>7, <2>1 DEF Items
  <1>9. ASSUME NEW x \in w \ Items(q), NEW s \in w \cap Items(q), s.size >= x.size
        PROVE  Before(s, x)
    <2>1. CASE x \notin Items(ch)
      BY <1>2, <1>8, <1>9, <2>1
    <2>2. CASE x = ch[Len(ch)]
      <3>1. PICK k \in 1 .. Len(q) : s = q[k]
        BY <1>7 DEF Items
      <3>2. CASE Len(m) < k
        <4>1. k \in 1 .. Len(ch) /\ k < Len(ch) /\ Len(ch) \in 1 .. Len(ch) /\ s = ch[k]
          BY <1>3, <1>5, <1>6, <3>1
        <4> QED
          BY <1>2, <2>2, <3>2, <4>1
      <3>3. CASE ~(Len(m) < k)
        <4>1. k \in 1 .. Len(m)
          BY <1>1, <1>5, <3>3
        <4>2. s \in Items(m)
          BY <1>1, <1>2, <1>5, <3>1, <4>1 DEF Items
        <4> QED
          BY <1>1, <1>2, <4>2 DEF Compulsory, Elective
      <3> QED
        BY <3>2, <3>3
    <2> QED
      BY <1>8, <2>1, <2>2
  <1>10. /\ Len(m) <= Len(q) /\ Len(q) <= MaxRecords
         /\ \A k \in 1 .. Len(m) : k \in 1 .. Len(q)
    BY <1>1, <1>2, <1>3, <1>4, <1>5
  <1>11. /\ \A k \in 1 .. Len(m) : q[k] = m[k]
         /\ \A k \in 1 .. Len(q) : Len(m) < k => q[k] \in w
         /\ \A i, j \in 1 .. Len(q) : Len(m) < i /\ i < j => Before(q[i], q[j])
    BY <1>2, <1>5, <1>6, <1>10
  <1>12. Laid(a, adm, q, w)
    BY <1>2, <1>5, <1>9, <1>10, <1>11 DEF Laid, m
  <1> QED
    BY <1>12 DEF q

\* When nothing optional is left, the mandatory records are left.
LEMMA LaidBare ==
    ASSUME NEW a, NEW n, NEW adm, Gathered(a, n, adm), NEW ch, NEW w, Laid(a, adm, ch, w),
           ch = <<>> \/ a.sources[ch[Len(ch)].source].required
    PROVE  ch = ById(Compulsory(a, adm))
  <1> DEFINE m == ById(Compulsory(a, adm))
  <1>1. m \in Seq(Evidence) /\ Len(m) \in Nat
    BY MandatoryLaid
  <1> HIDE DEF m
  <1>2. /\ ch \in Seq(Evidence) /\ Len(m) <= Len(ch)
        /\ \A k \in 1 .. Len(m) : ch[k] = m[k]
        /\ \A k \in 1 .. Len(ch) : Len(m) < k => ch[k] \in w
        /\ w \subseteq Elective(a, adm)
    BY DEF Laid, m
  <1>3. Len(ch) \in Nat
    BY <1>2
  <1>4. Len(m) = Len(ch)
    <2>1. CASE ch = <<>>
      BY <1>1, <1>2, <2>1
    <2>2. CASE ch # <<>> /\ a.sources[ch[Len(ch)].source].required
      <3>1. Len(ch) \in 1 .. Len(ch)
        BY <1>2, <1>3, <2>2
      <3>2. SUFFICES ASSUME Len(m) < Len(ch) PROVE FALSE
        BY <1>1, <1>2, <1>3
      <3>3. ch[Len(ch)] \in Elective(a, adm)
        BY <1>2, <3>1, <3>2
      <3> QED
        BY <2>2, <3>3 DEF Elective
    <2> QED
      BY <2>1, <2>2
  <1>5. ch = m
    <2> DEFINE k == Len(m)
    <2>1. ch \in [1 .. k -> Evidence] /\ m \in [1 .. k -> Evidence]
      <3>1. \A q \in Seq(Evidence) : q \in [1 .. Len(q) -> Evidence]
        OBVIOUS
      <3> QED
        BY <1>1, <1>2, <1>4, <3>1
    <2>2. \A i \in 1 .. k : ch[i] = m[i]
      BY <1>2
    <2> DEFINE A == 1 .. k
    <2>3. ch = [i \in A |-> ch[i]] /\ m = [i \in A |-> m[i]] /\ \A i \in A : ch[i] = m[i]
      BY <2>1, <2>2
    <2> HIDE DEF k, A
    <2>4. [i \in A |-> ch[i]] = [i \in A |-> m[i]]
      BY <2>3
    <2> QED
      BY <2>3, <2>4, Zenon
  <1> QED
    BY <1>5 DEF m

\* Why a required source is not satisfied, of a request and what it admitted.
UnmetOf(a, adm, s) ==
    LET own == {r \in Items(adm) : r.source = s}
    IN  /\ a.sources[s].required /\ a.sources[s].readable
        /\ (s \in a.failed) \/ (own = {}) \/ (\E r \in own : ~r.fresh)

Met(a, adm) ==
    /\ \A s \in Source : ~UnmetOf(a, adm, s)
    /\ ~(a.highRisk /\ Dated(adm) # {})

FailuresOf(a) == {s \in a.failed : s = Unnamed \/ a.sources[s].readable}

NoticesOf(a, ch) == Cardinality(FailuresOf(a)) + Cardinality(Dated(ch)) + Cardinality(Repeats(ch))

PromptOf(a, ch) == Fixed + a.findings + Bytes(ch) + Caveat * NoticesOf(a, ch)

Room(a) == Least(a.budget, a.tokens)

Buildable(a, ch) == ~(a.highRisk /\ (FailuresOf(a) # {} \/ Dated(ch) # {})) /\ PromptOf(a, ch) <= Room(a)

\* Why no packet could be built of what was admitted.
Hopeless(a, adm) ==
    LET m == ById(Compulsory(a, adm))
    IN  \/ ~Met(a, adm) \/ Len(m) > MaxRecords \/ PromptOf(a, m) > Room(a)

PacketInv ==
    /\ ask \in PackRequest
    /\ packing \in {"admit", "select", "fit", "ready", "blocked", "rejected"}
    /\ looked \in Nat /\ looked <= Len(ask.records)
    /\ Gathered(ask, looked, admitted)
    /\ packing = "admit" => weighed = {}
    /\ packing \in {"select", "fit", "ready"} =>
           /\ looked = Len(ask.records) /\ Met(ask, admitted)
           /\ Laid(ask, admitted, chosen, weighed)
    /\ packing = "select" => Ahead(ask, admitted, weighed) /\ NoRoom(Room(ask), chosen, weighed)
    /\ packing \in {"fit", "ready"} => Elective(ask, admitted) \subseteq weighed
    /\ packing = "ready" => Buildable(ask, chosen)
    /\ packing = "blocked" => Hopeless(ask, admitted)

\* The state's own names for these.
LEMMA PacketNames ==
    /\ MandatoryOf(admitted) = ById(Compulsory(ask, admitted))
    /\ Outstanding = Elective(ask, admitted) \ weighed
    /\ \A s : Unmet(s) <=> UnmetOf(ask, admitted, s)
    /\ \A q : PackRefused(q) <=> (ask.highRisk /\ (FailuresOf(ask) # {} \/ Dated(q) # {}))
    /\ \A q : Notices(q) = NoticesOf(ask, q)
    /\ \A q : Prompt(q) = PromptOf(ask, q)
    /\ Least(ask.budget, ask.tokens) = Room(ask)
    /\ Failures = FailuresOf(ask)
    /\ \A r : Demanded(r) <=> ask.sources[r.source].required
    /\ \A s : Readable(s) <=> ask.sources[s].readable
  <1>1. Failures = FailuresOf(ask)
    BY DEF Failures, FailuresOf, Readable
  <1>2. \A q : Notices(q) = NoticesOf(ask, q)
    BY <1>1 DEF Notices, NoticesOf
  <1>3. MandatoryOf(admitted) = ById(Compulsory(ask, admitted))
    BY DEF MandatoryOf, Compulsory, Demanded
  <1>4. Outstanding = Elective(ask, admitted) \ weighed
    BY DEF Outstanding, Elective, Demanded
  <1>5. \A s : Unmet(s) <=> UnmetOf(ask, admitted, s)
    BY DEF Unmet, UnmetOf, Readable
  <1>6. \A q : PackRefused(q) <=> (ask.highRisk /\ (FailuresOf(ask) # {} \/ Dated(q) # {}))
    BY <1>1 DEF PackRefused
  <1>7. \A q : Prompt(q) = PromptOf(ask, q)
    BY <1>2 DEF Prompt, PromptOf
  <1> QED
    BY <1>1, <1>2, <1>3, <1>4, <1>5, <1>6, <1>7 DEF Room, Demanded, Readable

LEMMA RequestTyped ==
    ASSUME NEW a \in PackRequest
    PROVE  /\ a.records \in Seq(Evidence) /\ Room(a) \in Nat /\ a.findings \in Nat
           /\ IsFiniteSet(FailuresOf(a))
  <1>1. a.records \in Seq(Evidence) /\ a.budget \in Nat /\ a.tokens \in Nat /\ a.findings \in Nat
    BY DEF PackRequest
  <1>2. a.failed \subseteq Source \cup {Unnamed}
    BY DEF PackRequest
  <1>3. Room(a) \in Nat
    BY <1>1 DEF Room, Least
  <1>4. IsFiniteSet(Source \cup {Unnamed})
    BY PacketAssumption, FS_AddElement
  <1>5. FailuresOf(a) \subseteq Source \cup {Unnamed}
    BY <1>2 DEF FailuresOf
  <1>6. IsFiniteSet(FailuresOf(a))
    BY <1>4, <1>5, FS_Subset
  <1> QED
    BY <1>1, <1>3, <1>6

\* The notices only add to what the records take.
LEMMA PromptTyped ==
    ASSUME NEW a \in PackRequest, NEW q \in Seq(Evidence)
    PROVE  PromptOf(a, q) \in Nat /\ Fixed + Bytes(q) <= PromptOf(a, q)
  <1>1. IsFiniteSet(1 .. Len(q)) /\ DOMAIN q = 1 .. Len(q)
    BY ItemsFinite
  <1>2. Dated(q) \subseteq 1 .. Len(q) /\ Repeats(q) \subseteq 1 .. Len(q)
    BY <1>1 DEF Dated, Repeats
  <1>3. IsFiniteSet(Dated(q)) /\ IsFiniteSet(Repeats(q))
    BY <1>1, <1>2, FS_Subset
  <1>4. NoticesOf(a, q) \in Nat
    <2>1. /\ Cardinality(FailuresOf(a)) \in Nat /\ Cardinality(Dated(q)) \in Nat
          /\ Cardinality(Repeats(q)) \in Nat
      BY <1>3, RequestTyped, FS_CardinalityType
    <2> QED
      BY <2>1 DEF NoticesOf
  <1> DEFINE extra == Caveat * NoticesOf(a, q)
  <1>5. Caveat \in Nat /\ Fixed \in Nat
    BY PacketAssumption
  <1>6. extra \in Nat
    BY <1>4, <1>5
  <1>7. Bytes(q) \in Nat /\ a.findings \in Nat
    BY BytesTyped, RequestTyped
  <1>8. PromptOf(a, q) = Fixed + a.findings + Bytes(q) + extra
    BY DEF PromptOf
  <1> HIDE DEF extra
  <1> QED
    BY <1>5, <1>6, <1>7, <1>8

LEMMA PacketInitial == PacketInit => PacketInv
  <1> SUFFICES ASSUME PacketInit PROVE PacketInv
    OBVIOUS
  <1>1. ask \in PackRequest /\ packing = "admit" /\ looked = 0 /\ admitted = <<>> /\ weighed = {}
    BY DEF PacketInit
  <1>2. Len(ask.records) \in Nat
    BY <1>1, RequestTyped
  <1>3. Items(<<>>) = {}
    BY DEF Items
  <1>4. Gathered(ask, 0, <<>>)
    BY <1>3 DEF Gathered, Unalike
  <1> QED
    BY <1>1, <1>2, <1>4 DEF PacketInv

LEMMA PacketConsidered ==
    ASSUME PacketInv, Consider
    PROVE  PacketInv'
  <1> DEFINE r == ask.records[looked + 1]
             more == IF Excluded(r) \/ r \in Items(admitted) THEN admitted ELSE Append(admitted, r)
  <1>1. /\ packing = "admit" /\ looked < Len(ask.records) /\ ask' = ask /\ chosen' = chosen
        /\ weighed' = weighed /\ weighed = {}
        /\ ask \in PackRequest /\ looked \in Nat /\ Gathered(ask, looked, admitted)
    BY DEF Consider, PacketInv
  <1>2. CASE Rejects(r)
    <2>1. packing' = "rejected" /\ looked' = looked /\ admitted' = admitted
      BY <1>2 DEF Consider
    <2> QED
      BY <1>1, <2>1 DEF PacketInv
  <1>3. CASE ~Rejects(r)
    <2>1. packing' = packing /\ looked' = looked + 1 /\ admitted' = more
      BY <1>3 DEF Consider
    <2>2. /\ ask.sources[r.source].readable /\ r.place # "otherTree"
          /\ \A i \in 1 .. looked : ask.records[i].id = r.id => ask.records[i] = r
      BY <1>3 DEF Rejects, Readable
    <2>3. Gathered(ask, looked + 1, more)
      BY <1>1, <2>2, GatheredMore
    <2>4. looked + 1 \in Nat /\ looked + 1 <= Len(ask.records)
      BY <1>1, RequestTyped
    <2> HIDE DEF more
    <2> QED
      BY <1>1, <2>1, <2>3, <2>4 DEF PacketInv
  <1> QED
    BY <1>2, <1>3

LEMMA PacketDemanded ==
    ASSUME PacketInv, Demand
    PROVE  PacketInv'
  <1> DEFINE m == ById(Compulsory(ask, admitted))
  <1>1. /\ packing = "admit" /\ looked = Len(ask.records) /\ ask' = ask /\ chosen' = m
        /\ weighed' = weighed /\ weighed = {} /\ looked' = looked /\ admitted' = admitted
        /\ ask \in PackRequest /\ looked \in Nat /\ Gathered(ask, looked, admitted)
    BY PacketNames DEF Demand, PacketInv
  <1>2. m \in Seq(Evidence)
    BY <1>1, MandatoryLaid
  <1> HIDE DEF m
  <1>3. CASE Met(ask, admitted) /\ ~(Len(m) > MaxRecords) /\ ~(Fixed + Bytes(m) > Room(ask))
    <2>1. packing' = "select"
      BY <1>1, <1>3, PacketNames DEF Demand, Met, m
    <2>2. Len(m) <= MaxRecords
      BY <1>2, <1>3, PacketAssumption
    <2>3. Laid(ask, admitted, m, {}) /\ Ahead(ask, admitted, {}) /\ NoRoom(Room(ask), m, {})
      BY <1>1, <2>2, LaidStart DEF m
    <2> QED
      BY <1>1, <1>3, <2>1, <2>3 DEF PacketInv
  <1>4. CASE ~Met(ask, admitted) \/ Len(m) > MaxRecords \/ Fixed + Bytes(m) > Room(ask)
    <2>1. packing' = "blocked"
      BY <1>1, <1>4, PacketNames DEF Demand, Met, m
    <2>2. Fixed + Bytes(m) > Room(ask) => PromptOf(ask, m) > Room(ask)
      <3>1. /\ PromptOf(ask, m) \in Nat /\ Fixed + Bytes(m) <= PromptOf(ask, m) /\ Room(ask) \in Nat
            /\ Bytes(m) \in Nat /\ Fixed \in Nat
        BY <1>1, <1>2, PromptTyped, RequestTyped, BytesTyped, PacketAssumption
      <3> QED
        BY <3>1
    <2>3. Hopeless(ask, admitted)
      BY <1>4, <2>2 DEF Hopeless, m
    <2> QED
      BY <1>1, <2>1, <2>3 DEF PacketInv
  <1> QED
    BY <1>3, <1>4

LEMMA PacketSelected ==
    ASSUME PacketInv, Select
    PROVE  PacketInv'
  <1> DEFINE r == Foremost
             rest == Elective(ask, admitted) \ weighed
             fits == Len(chosen) < MaxRecords /\ Fixed + Bytes(chosen) + r.size <= Room(ask)
             more == IF fits THEN Append(chosen, r) ELSE chosen
  <1>1. /\ packing = "select" /\ rest # {} /\ ask' = ask /\ packing' = packing /\ looked' = looked
        /\ admitted' = admitted /\ weighed' = weighed \cup {r}
    BY PacketNames DEF Select
  <1>2. chosen' = more
    BY PacketNames, Zenon DEF Select
  <1>3. /\ ask \in PackRequest /\ looked = Len(ask.records) /\ looked \in Nat
        /\ Gathered(ask, looked, admitted) /\ Met(ask, admitted)
        /\ Laid(ask, admitted, chosen, weighed) /\ Ahead(ask, admitted, weighed)
        /\ NoRoom(Room(ask), chosen, weighed) /\ Room(ask) \in Nat
    BY <1>1, RequestTyped DEF PacketInv
  <1>4. r \in rest /\ \A s \in rest : s = r \/ Before(r, s)
    <2>1. Items(admitted) \subseteq Evidence /\ IsFiniteSet(Items(admitted)) /\ Unalike(Items(admitted))
      BY <1>3, ItemsFinite DEF Gathered
    <2>2. rest \subseteq Items(admitted)
      BY DEF Elective
    <2>3. rest \in SUBSET Evidence /\ IsFiniteSet(rest) /\ Unalike(rest)
      BY <2>1, <2>2, FS_Subset DEF Unalike
    <2>4. \E x \in rest : \A s \in rest : s = x \/ Before(x, s)
      <3> HIDE DEF rest
      <3> QED
        BY <1>1, <2>3, OneForemost
    <2>5. Foremost = CHOOSE x \in rest : \A s \in rest : s = x \/ Before(x, s)
      BY PacketNames DEF Foremost
    <2> HIDE DEF rest
    <2> QED
      BY <2>4, <2>5
  <1> HIDE DEF r
  <1>5. /\ Laid(ask, admitted, more, weighed \cup {r}) /\ Ahead(ask, admitted, weighed \cup {r})
        /\ NoRoom(Room(ask), more, weighed \cup {r})
    BY <1>3, <1>4, LaidMore
  <1> HIDE DEF more, fits, rest
  <1> QED
    BY <1>1, <1>2, <1>3, <1>5 DEF PacketInv

LEMMA PacketFitted ==
    ASSUME PacketInv, Fit
    PROVE  PacketInv'
  <1>1. /\ packing = "fit" /\ ask' = ask /\ looked' = looked /\ admitted' = admitted /\ weighed' = weighed
        /\ ask \in PackRequest /\ looked = Len(ask.records) /\ looked \in Nat
        /\ Gathered(ask, looked, admitted) /\ Met(ask, admitted)
        /\ Laid(ask, admitted, chosen, weighed) /\ Elective(ask, admitted) \subseteq weighed
    BY DEF Fit, PacketInv
  <1>2. CASE PackRefused(chosen)
    <2>1. packing' = "rejected"
      BY <1>2 DEF Fit
    <2> QED
      BY <1>1, <2>1 DEF PacketInv
  <1>3. CASE ~PackRefused(chosen) /\ PromptOf(ask, chosen) <= Room(ask)
    <2>1. packing' = "ready" /\ chosen' = chosen
      BY <1>3, PacketNames DEF Fit
    <2>2. Buildable(ask, chosen)
      BY <1>3, PacketNames DEF Buildable
    <2> QED
      BY <1>1, <2>1, <2>2 DEF PacketInv
  <1>4. CASE /\ ~PackRefused(chosen) /\ ~(PromptOf(ask, chosen) <= Room(ask))
             /\ chosen # <<>> /\ ~ask.sources[chosen[Len(chosen)].source].required
    <2>1. packing' = packing /\ chosen' = SubSeq(chosen, 1, Len(chosen) - 1)
      BY <1>4, PacketNames DEF Fit
    <2>2. Laid(ask, admitted, SubSeq(chosen, 1, Len(chosen) - 1), weighed)
      BY <1>1, <1>4, LaidLess
    <2>3. Laid(ask, admitted, chosen', weighed)
      BY <2>1, <2>2
    <2> QED
      BY <1>1, <2>1, <2>3 DEF PacketInv
  <1>5. CASE /\ ~PackRefused(chosen) /\ ~(PromptOf(ask, chosen) <= Room(ask))
             /\ chosen = <<>> \/ ask.sources[chosen[Len(chosen)].source].required
    <2>1. packing' = "blocked" /\ chosen' = chosen
      BY <1>5, PacketNames DEF Fit
    <2>2. chosen = ById(Compulsory(ask, admitted))
      BY <1>1, <1>5, LaidBare
    <2>3. PromptOf(ask, chosen) > Room(ask)
      <3>1. chosen \in Seq(Evidence)
        BY <1>1 DEF Laid
      <3>2. PromptOf(ask, chosen) \in Nat /\ Room(ask) \in Nat
        BY <1>1, <3>1, PromptTyped, RequestTyped
      <3> QED
        BY <1>5, <3>2
    <2>4. Hopeless(ask, admitted)
      BY <2>2, <2>3 DEF Hopeless
    <2> QED
      BY <1>1, <2>1, <2>4 DEF PacketInv
  <1> QED
    BY <1>2, <1>3, <1>4, <1>5

LEMMA PacketStep ==
    ASSUME PacketInv, [PacketNext]_packetVars
    PROVE  PacketInv'
  <1>1. CASE Full
    <2>1. /\ packing = "select" /\ packing' = "fit" /\ Outstanding = {} /\ ask' = ask /\ looked' = looked
          /\ admitted' = admitted /\ chosen' = chosen /\ weighed' = weighed
      BY <1>1 DEF Full
    <2>2. Elective(ask, admitted) \subseteq weighed
      BY <2>1, PacketNames
    <2> QED
      BY <2>1, <2>2 DEF PacketInv
  <1>2. CASE UNCHANGED packetVars
    BY <1>2 DEF packetVars, PacketInv
  <1> QED
    BY <1>1, <1>2, PacketConsidered, PacketDemanded, PacketSelected, PacketFitted DEF PacketNext

(***************************************************************************)
(* A packet that is built holds, within both budgets and with every        *)
(* notice, all the evidence of every required source the mission may read, *)
(* fresh, and nothing it may not see; what it gave up ranks below what it  *)
(* kept or was larger; and one that is blocked could not have been built:  *)
(* for any records, sizes and budgets (`build_context_packet`).            *)
(***************************************************************************)
THEOREM PacketsWhole == PacketSpec => []PacketWhole
  <1>1. PacketInit => PacketInv
    BY PacketInitial
  <1>2. PacketInv /\ [PacketNext]_packetVars => PacketInv'
    BY PacketStep
  <1>3. PacketInv => PacketWhole
    <2> SUFFICES ASSUME PacketInv PROVE PacketWhole
      OBVIOUS
    <2> DEFINE m == ById(Compulsory(ask, admitted))
    <2>1. ask \in PackRequest /\ Gathered(ask, looked, admitted)
      BY DEF PacketInv
    <2>2. m \in Seq(Evidence) /\ Items(m) = Compulsory(ask, admitted)
      BY <2>1, MandatoryLaid
    <2> HIDE DEF m
    <2>3. ASSUME packing = "ready"
          PROVE  /\ Prompt(chosen) <= Room(ask) /\ Len(chosen) <= MaxRecords
                 /\ \A s \in Source : ask.sources[s].required /\ Readable(s) =>
                        /\ s \notin ask.failed
                        /\ \E r \in Items(chosen) : r.source = s
                        /\ \A i \in DOMAIN ask.records :
                              LET r == ask.records[i]
                              IN  r.source = s => Excluded(r) \/ (r \in Items(chosen) /\ r.fresh)
                 /\ \A r \in Items(chosen) : Readable(r.source) /\ ~Excluded(r) /\ r.place # "otherTree"
                 /\ ask.highRisk => Failures = {} /\ Dated(admitted) = {}
                 /\ \A r \in Items(admitted) \ Items(chosen), s \in Items(chosen) :
                        ~Demanded(s) /\ s.size >= r.size => Before(s, r)
      <3>1. /\ looked = Len(ask.records) /\ Met(ask, admitted) /\ Laid(ask, admitted, chosen, weighed)
            /\ Elective(ask, admitted) \subseteq weighed /\ Buildable(ask, chosen)
        BY <2>3 DEF PacketInv
      <3>2. /\ chosen \in Seq(Evidence) /\ Len(m) <= Len(chosen) /\ Len(chosen) <= MaxRecords
            /\ \A k \in 1 .. Len(m) : chosen[k] = m[k]
            /\ \A k \in 1 .. Len(chosen) : Len(m) < k => chosen[k] \in weighed
            /\ weighed \subseteq Elective(ask, admitted)
            /\ \A r \in weighed \ Items(chosen), s \in weighed \cap Items(chosen) :
                   s.size >= r.size => Before(s, r)
        BY <3>1 DEF Laid, m
      <3>3. DOMAIN chosen = 1 .. Len(chosen) /\ DOMAIN m = 1 .. Len(m) /\ Len(m) \in Nat /\ Len(chosen) \in Nat
        BY <2>2, <3>2
      <3>4. Compulsory(ask, admitted) \subseteq Items(chosen)
        <4>1. \A k \in 1 .. Len(m) : k \in 1 .. Len(chosen)
          BY <3>2, <3>3
        <4> QED
          BY <2>2, <3>2, <3>3, <4>1 DEF Items
      <3>5. \A s \in Items(chosen) : s \in Compulsory(ask, admitted) \/ s \in weighed
        <4> SUFFICES ASSUME NEW k \in 1 .. Len(chosen)
                     PROVE  chosen[k] \in Compulsory(ask, admitted) \/ chosen[k] \in weighed
          BY <3>3 DEF Items
        <4>1. CASE Len(m) < k
          BY <3>2, <4>1
        <4>2. CASE ~(Len(m) < k)
          <5>1. k \in 1 .. Len(m)
            BY <3>3, <4>2
          <5>2. m[k] \in Items(m)
            BY <3>3, <5>1 DEF Items
          <5> QED
            BY <2>2, <3>2, <5>1, <5>2
        <4> QED
          BY <4>1, <4>2
      <3>6. Items(chosen) \subseteq Items(admitted)
        BY <3>2, <3>5 DEF Compulsory, Elective
      <3>7. ASSUME NEW s \in Source, ask.sources[s].required, ask.sources[s].readable
            PROVE  /\ s \notin ask.failed
                   /\ \E r \in Items(chosen) : r.source = s
                   /\ \A i \in DOMAIN ask.records :
                         LET r == ask.records[i]
                         IN  r.source = s => Excluded(r) \/ (r \in Items(chosen) /\ r.fresh)
        <4>1. /\ s \notin ask.failed /\ (\E r \in Items(admitted) : r.source = s)
              /\ \A r \in Items(admitted) : r.source = s => r.fresh
          BY <3>1, <3>7 DEF Met, UnmetOf
        <4>2. \A r \in Items(admitted) : r.source = s => r \in Items(chosen)
          BY <3>4, <3>7 DEF Compulsory
        <4>3. DOMAIN ask.records = 1 .. looked
          BY <2>1, <3>1, RequestTyped
        <4>4. \A i \in DOMAIN ask.records : Excluded(ask.records[i]) \/ ask.records[i] \in Items(admitted)
          BY <2>1, <4>3 DEF Gathered
        <4> QED
          BY <4>1, <4>2, <4>4
      <3>8. \A r \in Items(chosen) : ask.sources[r.source].readable /\ ~Excluded(r) /\ r.place # "otherTree"
        BY <2>1, <3>6 DEF Gathered
      <3>9. ask.highRisk => FailuresOf(ask) = {} /\ Dated(admitted) = {}
        BY <3>1 DEF Met, Buildable
      <3>10. ASSUME NEW r \in Items(admitted) \ Items(chosen), NEW s \in Items(chosen),
                    ~ask.sources[s.source].required, s.size >= r.size
             PROVE  Before(s, r)
        <4>1. r \in weighed \ Items(chosen)
          BY <3>1, <3>4 DEF Compulsory, Elective
        <4>2. s \in weighed \cap Items(chosen)
          BY <3>5, <3>10 DEF Compulsory
        <4> QED
          BY <3>2, <3>10, <4>1, <4>2
      <3>11. Prompt(chosen) <= Room(ask)
        BY <3>1, PacketNames DEF Buildable
      <3>12. \A s \in Source : ask.sources[s].required /\ Readable(s) =>
                 /\ s \notin ask.failed
                 /\ \E r \in Items(chosen) : r.source = s
                 /\ \A i \in DOMAIN ask.records :
                       LET r == ask.records[i]
                       IN  r.source = s => Excluded(r) \/ (r \in Items(chosen) /\ r.fresh)
        BY <3>7 DEF Readable
      <3> QED
        BY <3>2, <3>8, <3>9, <3>10, <3>11, <3>12, PacketNames
    <2>4. ASSUME packing = "blocked"
          PROVE  \/ \E s \in Source : Unmet(s)
                 \/ ask.highRisk /\ Dated(admitted) # {}
                 \/ Len(MandatoryOf(admitted)) > MaxRecords
                 \/ Prompt(MandatoryOf(admitted)) > Room(ask)
      <3>1. Hopeless(ask, admitted)
        BY <2>4 DEF PacketInv
      <3> QED
        BY <3>1, PacketNames DEF Hopeless, Met
    <2> QED
      BY <2>3, <2>4, PacketNames DEF PacketWhole, Prompt
  <1> QED
    BY <1>1, <1>2, <1>3, PTL DEF PacketSpec

-----------------------------------------------------------------------------
(* The event ledger: what it shows is what happened.                       *)

LEMMA LargestUpTo ==
    ASSUME NEW k \in Nat \ {0}, NEW s \in SUBSET (1 .. k), k \in s
    PROVE  Max(s) = k
  <1>1. \A m \in s : m \in Nat /\ k >= m
    OBVIOUS
  <1>2. s \in SUBSET Nat /\ IsFiniteSet(s) /\ s # {}
    <2>1. IsFiniteSet(1 .. k)
      BY UpToFinite
    <2> QED BY <1>1, <2>1, FS_Subset
  <1> DEFINE m == Max(s)
  <1>3. m \in s /\ \A n \in s : n <= m
    BY <1>2, Largest
  <1> HIDE DEF m
  <1>4. m = k
    BY <1>1, <1>3
  <1> QED
    BY <1>4 DEF m

\* The recursion that FoldLeft unwinds to.
FoldsOver(g, seq, D) ==
    g = [s \in SUBSET D |-> IF s = {} THEN Opened ELSE Fold(g[s \ {Max(s)}], seq[Max(s)])]

LEMMA UnwindExists ==
    ASSUME NEW seq, NEW n \in Nat
    PROVE  \E g : FoldsOver(g, seq, 1 .. n)
  <1> DEFINE Bad == {k \in Nat : ~\E g : FoldsOver(g, seq, 1 .. k)}
  <1>1. SUFFICES ASSUME Bad # {} PROVE FALSE
    OBVIOUS
  <1>2. PICK k \in Bad : \A m \in Bad : k <= m
    <2>1. Bad \in SUBSET Nat
      OBVIOUS
    <2> HIDE DEF Bad
    <2> QED BY <1>1, <2>1, Smallest
  <1>3. k # 0
    <2>1. SUFFICES ASSUME k = 0 PROVE FALSE
      OBVIOUS
    <2> DEFINE g == [s \in SUBSET (1 .. 0) |-> Opened]
    <2>2. \A s \in SUBSET (1 .. 0) : s = {}
      OBVIOUS
    <2>3. g = [s \in SUBSET (1 .. 0) |-> IF s = {} THEN Opened ELSE Fold(g[s \ {Max(s)}], seq[Max(s)])]
      BY <2>2
    <2>4. FoldsOver(g, seq, 1 .. 0)
      BY <2>3 DEF FoldsOver
    <2> QED BY <2>1, <2>4, <1>2
  <1>4. k \in Nat \ {0} /\ k - 1 \in Nat /\ k - 1 \notin Bad
    BY <1>2, <1>3
  <1>5. PICK g : FoldsOver(g, seq, 1 .. (k - 1))
    BY <1>4
  <1>6. \A s \in SUBSET (1 .. (k - 1)) :
            g[s] = IF s = {} THEN Opened ELSE Fold(g[s \ {Max(s)}], seq[Max(s)])
    <2> DEFINE body == [s \in SUBSET (1 .. (k - 1)) |->
                            IF s = {} THEN Opened ELSE Fold(g[s \ {Max(s)}], seq[Max(s)])]
    <2>1. g = body
      BY <1>5 DEF FoldsOver
    <2>2. \A s \in SUBSET (1 .. (k - 1)) :
            body[s] = IF s = {} THEN Opened ELSE Fold(g[s \ {Max(s)}], seq[Max(s)])
      OBVIOUS
    <2> HIDE DEF body
    <2> QED BY <2>1, <2>2
  <1> DEFINE h == [s \in SUBSET (1 .. k) |-> IF k \in s THEN Fold(g[s \ {k}], seq[k]) ELSE g[s]]
  <1>7. ASSUME NEW s \in SUBSET (1 .. k)
        PROVE  h[s] = IF s = {} THEN Opened ELSE Fold(h[s \ {Max(s)}], seq[Max(s)])
    <2>1. CASE k \in s
      <3>1. Max(s) = k
        BY <1>4, <2>1, LargestUpTo
      <3>2. s \ {k} \in SUBSET (1 .. k) /\ k \notin s \ {k}
        OBVIOUS
      <3>3. h[s \ {k}] = g[s \ {k}] /\ h[s] = Fold(g[s \ {k}], seq[k])
        BY <3>2, <2>1
      <3> HIDE DEF h
      <3> QED BY <3>1, <3>3, <2>1
    <2>2. CASE k \notin s
      <3>1. s \in SUBSET (1 .. (k - 1))
        BY <2>2, <1>4
      <3>2. h[s] = g[s]
        BY <2>2
      <3>3. CASE s = {}
        <4> HIDE DEF h
        <4> QED BY <3>1, <3>2, <3>3, <1>6
      <3>4. CASE s # {}
        <4>1. s \ {Max(s)} \in SUBSET (1 .. k) /\ k \notin s \ {Max(s)}
          BY <2>2
        <4>2. h[s \ {Max(s)}] = g[s \ {Max(s)}]
          BY <4>1
        <4> HIDE DEF h
        <4> QED BY <3>1, <3>2, <3>4, <4>2, <1>6
      <3> QED BY <3>3, <3>4
    <2> QED BY <2>1, <2>2
  <1>8. FoldsOver(h, seq, 1 .. k)
    <2>1. h = [s \in SUBSET (1 .. k) |-> h[s]]
      OBVIOUS
    <2> HIDE DEF h
    <2>2. [s \in SUBSET (1 .. k) |-> h[s]]
            = [s \in SUBSET (1 .. k) |-> IF s = {} THEN Opened ELSE Fold(h[s \ {Max(s)}], seq[Max(s)])]
      BY <1>7
    <2> QED BY <2>1, <2>2, Zenon DEF FoldsOver
  <1> QED
    <2> HIDE DEF h
    <2> QED BY <1>2, <1>8

\* A fold goes from one event to the next.
LEMMA FoldsAlong ==
    ASSUME NEW n \in Nat, NEW seq, DOMAIN seq = 1 .. n
    PROVE  \E p : /\ p[0] = Opened
                  /\ \A k \in 1 .. n : p[k] = Fold(p[k - 1], seq[k])
                  /\ FoldLeft(Fold, Opened, seq) = p[n]
  <1> DEFINE body(g) == [s \in SUBSET (1 .. n) |->
                            IF s = {} THEN Opened ELSE Fold(g[s \ {Max(s)}], seq[Max(s)])]
             iter == CHOOSE g : g = body(g)
             p == [k \in 0 .. n |-> iter[1 .. k]]
  <1>1. FoldLeft(Fold, Opened, seq) = iter[1 .. n]
    BY DEF FoldLeft, MapThenFoldSet
  <1>2. \E g : g = body(g)
    BY UnwindExists DEF FoldsOver
  <1>3. iter = body(iter)
    <2> HIDE DEF body
    <2> QED BY <1>2, Zenon
  <1> HIDE DEF iter
  <1>4. \A s \in SUBSET (1 .. n) :
            iter[s] = IF s = {} THEN Opened ELSE Fold(iter[s \ {Max(s)}], seq[Max(s)])
    <2>1. \A s \in SUBSET (1 .. n) :
            body(iter)[s] = IF s = {} THEN Opened ELSE Fold(iter[s \ {Max(s)}], seq[Max(s)])
      OBVIOUS
    <2> HIDE DEF body
    <2> QED BY <2>1, <1>3
  <1>5. p[0] = Opened
    <2>1. 1 .. 0 = {} /\ 0 \in 0 .. n /\ {} \in SUBSET (1 .. n)
      OBVIOUS
    <2>2. iter[{}] = Opened
      BY <1>4, <2>1
    <2> QED BY <2>1, <2>2
  <1>6. ASSUME NEW k \in 1 .. n PROVE p[k] = Fold(p[k - 1], seq[k])
    <2>1. k \in Nat \ {0} /\ k \in 1 .. k /\ 1 .. k \in SUBSET (1 .. k) /\ 1 .. k \in SUBSET (1 .. n)
      OBVIOUS
    <2>2. Max(1 .. k) = k
      BY <2>1, LargestUpTo
    <2>3. (1 .. k) \ {k} = 1 .. (k - 1) /\ 1 .. k # {} /\ k \in 0 .. n /\ k - 1 \in 0 .. n
      OBVIOUS
    <2>4. iter[1 .. k] = Fold(iter[1 .. (k - 1)], seq[k])
      BY <1>4, <2>1, <2>2, <2>3
    <2> QED BY <2>3, <2>4
  <1>7. p[n] = iter[1 .. n]
    OBVIOUS
  <1> HIDE DEF p
  <1> QED
    BY <1>1, <1>5, <1>6, <1>7

-----------------------------------------------------------------------------
(* The order of events.                                                    *)

\* Things with different numbers fill the ranks, the lower number the lower rank.
Lower(S, key, i) == {j \in S : key[j] < key[i]}

LEMMA LowerRank ==
    ASSUME NEW S, IsFiniteSet(S), NEW key \in [S -> Int], NEW i \in S, NEW j \in S, key[i] < key[j]
    PROVE  /\ Cardinality(Lower(S, key, i)) \in Nat /\ Cardinality(Lower(S, key, j)) \in Nat
           /\ Cardinality(Lower(S, key, i)) < Cardinality(Lower(S, key, j))
  <1>1. Lower(S, key, i) \subseteq S /\ Lower(S, key, j) \subseteq S
    BY DEF Lower
  <1>2. Lower(S, key, i) \subseteq Lower(S, key, j) /\ i \in Lower(S, key, j) /\ i \notin Lower(S, key, i)
    BY DEF Lower
  <1>3. IsFiniteSet(Lower(S, key, i)) /\ IsFiniteSet(Lower(S, key, j))
    BY <1>1, FS_Subset
  <1> QED
    BY <1>2, <1>3, FS_Subset, FS_CardinalityType

LEMMA LowerFewer ==
    ASSUME NEW S, IsFiniteSet(S), NEW key \in [S -> Int], NEW i \in S
    PROVE  Cardinality(Lower(S, key, i)) \in Nat /\ Cardinality(Lower(S, key, i)) < Cardinality(S)
  <1> DEFINE L == Lower(S, key, i)
  <1>1. L \subseteq S /\ i \notin L
    <2>1. key[i] \in Int
      OBVIOUS
    <2> QED BY <2>1 DEF Lower
  <1> HIDE DEF L
  <1>2. IsFiniteSet(L) /\ Cardinality(L) <= Cardinality(S) /\ (Cardinality(L) = Cardinality(S) => L = S)
    BY <1>1, FS_Subset
  <1>3. Cardinality(L) \in Nat /\ Cardinality(S) \in Nat
    BY <1>2, FS_CardinalityType
  <1>4. Cardinality(L) < Cardinality(S)
    BY <1>1, <1>2, <1>3
  <1> QED
    BY <1>3, <1>4 DEF L

LEMMA RanksFill ==
    ASSUME NEW S, IsFiniteSet(S), NEW key \in [S -> Int], \A i, j \in S : key[i] = key[j] => i = j,
           NEW k \in 1 .. Cardinality(S)
    PROVE  \E i \in S : Cardinality(Lower(S, key, i)) = k - 1
  <1> DEFINE n == Cardinality(S)
             rank == [i \in S |-> Cardinality(Lower(S, key, i))]
             T == 0 .. n - 1
  <1>1. n \in Nat
    BY FS_CardinalityType
  <1>2. ASSUME NEW i \in S PROVE rank[i] \in T
    <2>3. Cardinality(Lower(S, key, i)) < n
      BY LowerFewer
    <2>4. Cardinality(Lower(S, key, i)) \in Nat
      BY LowerFewer
    <2>5. rank[i] = Cardinality(Lower(S, key, i))
      OBVIOUS
    <2> HIDE DEF n, rank
    <2> QED BY <2>3, <2>4, <2>5, <1>1
  <1>3. ASSUME NEW i \in S, NEW j \in S, rank[i] = rank[j] PROVE i = j
    <2>1. key[i] \in Int /\ key[j] \in Int
      OBVIOUS
    <2>2. ~(key[i] < key[j])
      BY <1>3, LowerRank
    <2>3. ~(key[j] < key[i])
      BY <1>3, LowerRank
    <2> QED BY <2>1, <2>2, <2>3
  <1>4. IsFiniteSet(T) /\ Cardinality(T) = n
    <2> HIDE DEF n
    <2>1. IsFiniteSet(0 .. n - 1) /\ Cardinality(0 .. n - 1) = IF 0 > n - 1 THEN 0 ELSE (n - 1) - 0 + 1
      BY <1>1, FS_Interval
    <2> QED BY <2>1, <1>1
  <1>5. rank \in [S -> T]
    <2>1. rank = [i \in S |-> rank[i]]
      OBVIOUS
    <2> HIDE DEF rank, T
    <2> QED BY <1>2, <2>1
  <1>6. rank \in Injection(S, T)
    <2> HIDE DEF rank, T
    <2> QED BY <1>3, <1>5 DEF Injection, IsInjective
  <1>7. rank \in Surjection(S, T)
    <2> HIDE DEF rank, T, n
    <2>1. Cardinality(S) = Cardinality(T)
      BY <1>4 DEF n
    <2> QED BY <1>4, <1>6, <2>1, FS_Injection
  <1>8. k - 1 \in T
    BY <1>1
  <1>9. \E i \in S : rank[i] = k - 1
    <2> HIDE DEF rank, T
    <2> QED BY <1>7, <1>8 DEF Surjection
  <1> QED
    BY <1>9

\* The recorded times tell the order of events, whose numbers differ.
Tells(f) ==
    \A i, j \in DOMAIN f : f[i].id < f[j].id =>
        \/ f[i].at < f[j].at
        \/ f[i].at = f[j].at /\ i < j

Distinct(f) == \A i, j \in DOMAIN f : f[i].id = f[j].id => i = j

LEMMA OrderedById ==
    ASSUME NEW f \in Seq(Event), Tells(f), Distinct(f)
    PROVE  /\ DOMAIN Ordered(f) = 1 .. Len(f)
           /\ \A k \in 1 .. Len(f) : \E i \in 1 .. Len(f) : Ordered(f)[k] = f[i]
           /\ \A i \in 1 .. Len(f) : \E k \in 1 .. Len(f) : Ordered(f)[k] = f[i]
           /\ \A a, b \in 1 .. Len(f) : a < b => Ordered(f)[a].id < Ordered(f)[b].id
  <1> DEFINE D == DOMAIN f
             key == [i \in D |-> f[i].id]
             Earlier(i) == {j \in D : \/ f[j].at < f[i].at
                                      \/ f[j].at = f[i].at /\ j < i}
             rank(i) == Cardinality(Lower(D, key, i))
             before == [i \in D |-> Cardinality(Earlier(i))]
             at(k) == CHOOSE i \in D : before[i] = k - 1
  <1>1. D = 1 .. Len(f) /\ Len(f) \in Nat /\ IsFiniteSet(D) /\ Cardinality(D) = Len(f)
    <2>1. D = 1 .. Len(f) /\ Len(f) \in Nat
      OBVIOUS
    <2>2. IsFiniteSet(1 .. Len(f)) /\ Cardinality(1 .. Len(f)) = IF 1 > Len(f) THEN 0 ELSE Len(f) - 1 + 1
      BY <2>1, FS_Interval
    <2> QED BY <2>1, <2>2
  <1>2. \A i \in D : f[i].id \in Nat /\ f[i].at \in Int
    <2>1. \A i \in 1 .. Len(f) : f[i] \in Event
      OBVIOUS
    <2>2. \A e \in Event : e.id \in Nat /\ e.at \in Int
      BY DEF Event
    <2> QED BY <1>1, <2>1, <2>2
  <1>3. key \in [D -> Int] /\ \A i, j \in D : key[i] = key[j] => i = j
    BY <1>2 DEF Distinct
  <1>4. ASSUME NEW i \in D PROVE Earlier(i) = Lower(D, key, i)
    <2>1. ASSUME NEW j \in D, f[j].id < f[i].id PROVE f[j].at < f[i].at \/ (f[j].at = f[i].at /\ j < i)
      BY <2>1 DEF Tells
    <2>2. ASSUME NEW j \in D, f[j].at < f[i].at \/ (f[j].at = f[i].at /\ j < i) PROVE f[j].id < f[i].id
      <3>1. f[j].id # f[i].id
        BY <2>2, <1>1, <1>2 DEF Distinct
      <3>2. ~(f[i].id < f[j].id)
        BY <2>2, <1>1, <1>2 DEF Tells
      <3> QED BY <3>1, <3>2, <1>2
    <2> QED BY <2>1, <2>2 DEF Lower
  <1>5. ASSUME NEW k \in D PROVE at(k) \in D /\ rank(at(k)) = k - 1
    <2>1. k \in 1 .. Cardinality(D)
      BY <1>1
    <2>2. \E i \in D : Cardinality(Lower(D, key, i)) = k - 1
      <3> HIDE DEF key, D
      <3> QED BY <1>1, <1>3, <2>1, RanksFill
    <2>3. \A i \in D : before[i] = Cardinality(Lower(D, key, i))
      BY <1>4
    <2>4. at(k) \in D /\ before[at(k)] = k - 1
      <3>1. \E i \in D : before[i] = k - 1
        BY <2>2, <2>3
      <3> HIDE DEF before, D
      <3> QED BY <3>1
    <2> HIDE DEF at, before
    <2> QED BY <2>3, <2>4
  <1>6. ASSUME NEW i \in D, NEW j \in D, f[i].id < f[j].id
        PROVE  rank(i) < rank(j) /\ rank(i) \in Nat /\ rank(j) \in Nat
    <2>1. key[i] < key[j]
      BY <1>6
    <2> HIDE DEF key, D
    <2> QED BY <1>1, <1>3, <2>1, LowerRank
  <1>7. Ordered(f) = [k \in D |-> f[at(k)]]
    BY DEF Ordered
  <1> HIDE DEF at, Earlier, key
  <1>8. \A k \in 1 .. Len(f) : \E i \in 1 .. Len(f) : Ordered(f)[k] = f[i]
    BY <1>1, <1>5, <1>7
  <1>9. ASSUME NEW a \in D, NEW b \in D, a < b PROVE Ordered(f)[a].id < Ordered(f)[b].id
    <2>1. at(a) \in D /\ at(b) \in D /\ rank(at(a)) < rank(at(b)) /\ rank(at(a)) \in Nat /\ rank(at(b)) \in Nat
      BY <1>1, <1>5, <1>9
    <2>2. f[at(a)].id # f[at(b)].id
      BY <2>1 DEF Distinct
    <2>3. ~(f[at(b)].id < f[at(a)].id)
      BY <2>1, <1>6
    <2>4. f[at(a)].id < f[at(b)].id
      BY <2>1, <2>2, <2>3, <1>2
    <2> QED BY <2>4, <1>7
  <1>10. ASSUME NEW i \in D PROVE \E k \in D : Ordered(f)[k] = f[i]
    <2>1. rank(i) \in Nat /\ rank(i) < Len(f)
      <3> HIDE DEF D
      <3>1. Cardinality(Lower(D, key, i)) \in Nat /\ Cardinality(Lower(D, key, i)) < Cardinality(D)
        BY <1>1, <1>3, LowerFewer
      <3> QED BY <3>1, <1>1
    <2>2. rank(i) + 1 \in D
      BY <1>1, <2>1
    <2> DEFINE k == rank(i) + 1
    <2>3. k \in D /\ at(k) \in D /\ rank(at(k)) = k - 1
      BY <2>2, <1>5
    <2>4. rank(at(k)) = rank(i)
      BY <2>3, <2>1
    <2> HIDE DEF k, rank
    <2>5. ~(f[at(k)].id < f[i].id) /\ ~(f[i].id < f[at(k)].id)
      BY <2>3, <2>4, <1>6, <2>1
    <2>6. at(k) = i
      BY <2>3, <2>5, <1>2 DEF Distinct
    <2> QED BY <2>3, <2>6, <1>7
  <1> QED
    BY <1>1, <1>7, <1>8, <1>9, <1>10

-----------------------------------------------------------------------------
(* A life and the telling of it.                                           *)

Referenced == ChangeRequest \cup {NoRef}
Standings == [ok : BOOLEAN, state : FactoryState, ref : Referenced, merged : SUBSET Referenced, repairs : Nat]

Life(h) ==
    /\ h \in Seq(Event) /\ h # <<>> /\ h[1].state = "intake"
    /\ \A k \in DOMAIN h : h[k].id = k
    /\ \A k \in 2 .. Len(h) : h[k - 1].state = h[k].state \/ <<h[k - 1].state, h[k].state>> \in FactoryEdges

\* An event on record is one of the life's, but for its time.
Entry(e, h) == e \in Event /\ e.id \in DOMAIN h /\ e.state = h[e.id].state /\ e.ref = h[e.id].ref

OfLife(f, h) == f \in Seq(Event) /\ Distinct(f) /\ \A i \in DOMAIN f : Entry(f[i], h)

EnteredBy(h, st, e) == {k \in Entered(h, st) : k <= e}
MergedBy(h, e) == {ReferenceAt(h, k) : k \in EnteredBy(h, "merged", e)} \ {NoRef}
ToldBy(h, e) == [ok |-> TRUE, state |-> h[e].state, ref |-> ReferenceAt(h, e),
                 merged |-> MergedBy(h, e), repairs |-> Cardinality(EnteredBy(h, "repairing", e))]

LEMMA LifeFacts ==
    ASSUME NEW h, Life(h)
    PROVE  /\ DOMAIN h = 1 .. Len(h) /\ Len(h) \in Nat \ {0}
           /\ \A k \in 1 .. Len(h) : h[k] \in Event /\ h[k].state \in FactoryState /\ h[k].ref \in Referenced
  <1>1. DOMAIN h = 1 .. Len(h) /\ Len(h) \in Nat \ {0} /\ \A k \in 1 .. Len(h) : h[k] \in Event
    BY DEF Life
  <1>2. \A e \in Event : e.state \in FactoryState /\ e.ref \in Referenced
    BY DEF Event, Referenced
  <1> QED
    BY <1>1, <1>2

LEMMA OpenedStanding == Opened \in Standings
  BY DEF Opened, Standings, Referenced, FactoryState, Engine!UnitState

LEMMA FoldCases ==
    ASSUME NEW p \in Standings, NEW e \in Event, NEW q, q = Fold(p, e)
    PROVE  /\ q \in Standings
           /\ q.ok => p.ok /\ (e.state = p.state \/ <<p.state, e.state>> \in FactoryEdges)
           /\ p.ok /\ (e.state = p.state \/ <<p.state, e.state>> \in FactoryEdges) =>
                /\ q.ok /\ q.state = e.state /\ q.ref = Reference(p, e)
                /\ q.merged = p.merged \cup (IF e.state = "merged" /\ e.state # p.state THEN {Reference(p, e)} \ {NoRef} ELSE {})
                /\ q.repairs = p.repairs + (IF e.state = "repairing" /\ e.state # p.state THEN 1 ELSE 0)
  <1>1. /\ p.ok \in BOOLEAN /\ p.state \in FactoryState /\ p.ref \in Referenced
        /\ p.merged \in SUBSET Referenced /\ p.repairs \in Nat
        /\ p = [ok |-> p.ok, state |-> p.state, ref |-> p.ref, merged |-> p.merged, repairs |-> p.repairs]
    BY DEF Standings
  <1>2. e.state \in FactoryState /\ e.ref \in Referenced
    BY DEF Event, Referenced
  <1>3. Reference(p, e) \in Referenced
    BY <1>1, <1>2 DEF Reference
  <1> DEFINE r == Reference(p, e)
             m == p.merged \cup (IF e.state = "merged" THEN {r} \ {NoRef} ELSE {})
             c == p.repairs + (IF e.state = "repairing" THEN 1 ELSE 0)
  <1>4. m \in SUBSET Referenced /\ c \in Nat
    BY <1>1, <1>3
  <1>5. CASE ~p.ok
    BY <1>5 DEF Fold
  <1>6. CASE p.ok /\ e.state = p.state
    <2>1. q = [p EXCEPT !.ref = r]
      BY <1>6 DEF Fold
    <2> HIDE DEF r
    <2>2. q = [ok |-> p.ok, state |-> p.state, ref |-> r, merged |-> p.merged, repairs |-> p.repairs]
      BY <2>1, <1>1
    <2>3. q \in Standings
      BY <2>2, <1>1, <1>3 DEF Standings, r
    <2> QED BY <2>2, <2>3, <1>6, <1>1 DEF r
  <1>7. CASE p.ok /\ e.state # p.state /\ <<p.state, e.state>> \notin FactoryEdges
    <2>1. q = [p EXCEPT !.ok = FALSE]
      BY <1>7 DEF Fold
    <2>2. q = [ok |-> FALSE, state |-> p.state, ref |-> p.ref, merged |-> p.merged, repairs |-> p.repairs]
      BY <2>1, <1>1
    <2>3. q \in Standings
      BY <2>2, <1>1 DEF Standings
    <2> QED BY <2>2, <2>3, <1>7
  <1>8. CASE p.ok /\ e.state # p.state /\ <<p.state, e.state>> \in FactoryEdges
    <2>1. q = [ok |-> TRUE, state |-> e.state, ref |-> r, merged |-> m, repairs |-> c]
      BY <1>8 DEF Fold
    <2> HIDE DEF r, m, c
    <2>2. q \in Standings
      BY <2>1, <1>1, <1>2, <1>3, <1>4 DEF Standings, r
    <2>3. q.ok /\ q.state = e.state /\ q.ref = r /\ q.merged = m /\ q.repairs = c
      BY <2>1
    <2> QED BY <2>2, <2>3, <1>8 DEF r, m, c
  <1> QED
    BY <1>1, <1>5, <1>6, <1>7, <1>8

LEMMA ReferenceMoves ==
    ASSUME NEW h, Life(h), NEW e \in 0 .. Len(h), NEW d \in 1 .. Len(h), e < d,
           \A i \in e + 1 .. d - 1 : h[i].ref = NoRef
    PROVE  ReferenceAt(h, d) = IF h[d].ref = NoRef THEN ReferenceAt(h, e) ELSE h[d].ref
  <1> DEFINE named(k) == {i \in 1 .. k : h[i].ref # NoRef}
             from(S) == IF S = {} THEN NoRef ELSE h[CHOOSE i \in S : \A j \in S : j <= i].ref
  <1>0. Len(h) \in Nat
    BY LifeFacts
  <1>1. CASE h[d].ref = NoRef
    <2>1. \A i \in 1 .. d : i \in 1 .. e \/ i \in e + 1 .. d - 1 \/ i = d
      BY <1>0
    <2>2. 1 .. e \subseteq 1 .. d
      BY <1>0
    <2>3. named(d) = named(e)
      BY <2>1, <2>2, <1>1
    <2>4. \A k : ReferenceAt(h, k) = from(named(k))
      BY DEF ReferenceAt
    <2> HIDE DEF named, from
    <2> QED BY <2>3, <2>4, <1>1
  <1>2. CASE h[d].ref # NoRef
    <2>1. d \in named(d) /\ \A i \in named(d) : i <= d /\ i \in Nat
      BY <1>0, <1>2
    <2> DEFINE last == CHOOSE i \in named(d) : \A j \in named(d) : j <= i
    <2> HIDE DEF named
    <2>4. last \in named(d) /\ \A j \in named(d) : j <= last
      BY <2>1
    <2> HIDE DEF last
    <2>2. last = d
      BY <2>1, <2>4, <1>0
    <2> USE DEF last
    <2>3. ReferenceAt(h, d) = IF named(d) = {} THEN NoRef ELSE h[last].ref
      BY DEF ReferenceAt, named
    <2> HIDE DEF last
    <2> QED BY <2>1, <2>2, <2>3, <1>2
  <1> QED
    BY <1>1, <1>2

LEMMA ReferenceNone == ASSUME NEW h PROVE ReferenceAt(h, 0) = NoRef
  <1>1. 1 .. 0 = {}
    OBVIOUS
  <1> QED
    BY <1>1 DEF ReferenceAt

LEMMA EnteredFinite ==
    ASSUME NEW h, Life(h), NEW st, NEW e
    PROVE  /\ IsFiniteSet(EnteredBy(h, st, e)) /\ Cardinality(EnteredBy(h, st, e)) \in Nat
           /\ EnteredBy(h, st, e) \subseteq 1 .. Len(h)
  <1>1. EnteredBy(h, st, e) \subseteq 1 .. Len(h)
    BY LifeFacts DEF EnteredBy, Entered
  <1>2. IsFiniteSet(1 .. Len(h))
    BY LifeFacts, UpToFinite
  <1> QED
    BY <1>1, <1>2, FS_Subset, FS_CardinalityType

LEMMA EnteredMore ==
    ASSUME NEW h, Life(h), NEW st, NEW e \in 1 .. Len(h), NEW d \in 1 .. Len(h), e < d
    PROVE  /\ EnteredBy(h, st, e) \subseteq EnteredBy(h, st, d)
           /\ Cardinality(EnteredBy(h, st, e)) <= Cardinality(EnteredBy(h, st, d))
  <1>1. EnteredBy(h, st, e) \subseteq EnteredBy(h, st, d)
    <2>1. \A k \in EnteredBy(h, st, e) : k \in 1 .. Len(h)
      BY EnteredFinite
    <2> QED BY <2>1, LifeFacts DEF EnteredBy
  <1> QED
    BY <1>1, EnteredFinite, FS_Subset

\* Between a state and another one lies an entry into the other.
LEMMA EnteredOnce ==
    ASSUME NEW h, Life(h), NEW st, NEW e \in 1 .. Len(h), NEW d \in 1 .. Len(h), e < d,
           h[d].state = st, h[e].state # st
    PROVE  Cardinality(EnteredBy(h, st, e)) + 1 <= Cardinality(EnteredBy(h, st, d))
  <1> DEFINE S == {i \in e + 1 .. d : h[i].state = st}
  <1>0. DOMAIN h = 1 .. Len(h) /\ Len(h) \in Nat
    BY LifeFacts
  <1>1. S \in SUBSET Nat /\ d \in S
    BY <1>0
  <1>2. PICK i \in S : \A j \in S : i <= j
    <2> HIDE DEF S
    <2> QED BY <1>1, Smallest
  <1>3. i \in e + 1 .. d /\ h[i].state = st /\ i - 1 \notin S /\ i - 1 \in e .. d
    <2>1. i \in e + 1 .. d /\ h[i].state = st
      OBVIOUS
    <2>2. i - 1 \notin S
      BY <1>2, <2>1, <1>0
    <2> QED BY <2>1, <2>2, <1>0
  <1>4. h[i - 1].state # st
    BY <1>3, <1>0
  <1>5. i \in Entered(h, st) /\ i <= d /\ ~(i <= e)
    BY <1>0, <1>3, <1>4 DEF Entered
  <1>6. i \in EnteredBy(h, st, d) /\ i \notin EnteredBy(h, st, e)
    BY <1>5 DEF EnteredBy
  <1>7. EnteredBy(h, st, e) \subseteq EnteredBy(h, st, d)
    BY EnteredMore
  <1>8. /\ Cardinality(EnteredBy(h, st, e)) <= Cardinality(EnteredBy(h, st, d))
        /\ Cardinality(EnteredBy(h, st, d)) # Cardinality(EnteredBy(h, st, e))
    BY <1>6, <1>7, EnteredFinite, FS_Subset
  <1> QED
    BY <1>8, EnteredFinite

\* One event on.
LEMMA EnteredNext ==
    ASSUME NEW h, Life(h), NEW st, NEW d \in 2 .. Len(h)
    PROVE  EnteredBy(h, st, d) =
               EnteredBy(h, st, d - 1) \cup
               (IF h[d].state = st /\ h[d - 1].state # st THEN {d} ELSE {})
  <1>0. DOMAIN h = 1 .. Len(h) /\ Len(h) \in Nat
    BY LifeFacts
  <1>1. \A k \in 1 .. Len(h) : k <= d <=> (k <= d - 1 \/ k = d)
    BY <1>0
  <1>2. d \in Entered(h, st) <=> (h[d].state = st /\ h[d - 1].state # st)
    BY <1>0 DEF Entered
  <1>3. \A k \in Entered(h, st) : k \in 1 .. Len(h)
    BY <1>0 DEF Entered
  <1>4. d <= d /\ ~(d <= d - 1)
    BY <1>0
  <1> QED
    BY <1>1, <1>2, <1>3, <1>4 DEF EnteredBy

LEMMA CountedNext ==
    ASSUME NEW h, Life(h), NEW st, NEW d \in 2 .. Len(h)
    PROVE  Cardinality(EnteredBy(h, st, d)) =
               Cardinality(EnteredBy(h, st, d - 1)) + (IF h[d].state = st /\ h[d - 1].state # st THEN 1 ELSE 0)
  <1>1. CASE h[d].state = st /\ h[d - 1].state # st
    <2>1. EnteredBy(h, st, d) = EnteredBy(h, st, d - 1) \cup {d}
      BY EnteredNext, <1>1
    <2>2. d \notin EnteredBy(h, st, d - 1)
      BY LifeFacts DEF EnteredBy
    <2>3. IsFiniteSet(EnteredBy(h, st, d - 1))
      BY EnteredFinite
    <2> QED BY <2>1, <2>2, <2>3, <1>1, FS_AddElement
  <1>2. CASE ~(h[d].state = st /\ h[d - 1].state # st)
    <2>1. EnteredBy(h, st, d) = EnteredBy(h, st, d - 1) \cup {}
      BY EnteredNext, <1>2
    <2>2. EnteredBy(h, st, d) = EnteredBy(h, st, d - 1)
      BY <2>1
    <2> QED BY <2>2, <1>2, EnteredFinite
  <1> QED
    BY <1>1, <1>2

LEMMA EnteredNone ==
    ASSUME NEW h, Life(h), NEW st, st # "intake"
    PROVE  EnteredBy(h, st, 1) = {}
  <1>1. \A k \in EnteredBy(h, st, 1) : k \in 1 .. Len(h) /\ k <= 1 /\ h[k].state = st
    BY EnteredFinite DEF EnteredBy, Entered
  <1>2. h[1].state = "intake"
    BY DEF Life
  <1> QED
    BY <1>1, <1>2, LifeFacts

\* An entry stands in nothing's way.
LEMMA EntryFacts ==
    ASSUME NEW h, Life(h), NEW v, Entry(v, h)
    PROVE  v \in Event /\ v.id \in 1 .. Len(h) /\ v.state = h[v.id].state /\ v.ref = h[v.id].ref
  BY LifeFacts DEF Entry

-----------------------------------------------------------------------------
(* The fold and the telling, side by side.                                 *)

\* What a fold of some of the events up to e may claim; `known` is that those
\* which are not among them change no reference and merge nothing.
Claims(h, e, p, known) ==
    p.ok => /\ p.state = h[e].state
            /\ p.repairs \in Nat /\ p.repairs <= Cardinality(EnteredBy(h, "repairing", e))
            /\ known => p.ref = ReferenceAt(h, e) /\ p.merged \subseteq MergedBy(h, e)

\* What a fold of all events up to e is.
Exact(h, e, p) ==
    /\ p.ok /\ p.state = h[e].state /\ p.ref = ReferenceAt(h, e)
    /\ p.merged = MergedBy(h, e) /\ p.repairs = Cardinality(EnteredBy(h, "repairing", e))

Silent(h, i) == h[i].ref = NoRef /\ h[i].state # "merged"

LEMMA OpenedFirst ==
    ASSUME NEW h, Life(h), NEW v, Entry(v, h), v.state = "intake", NEW q, q = Fold(Opened, v)
    PROVE  q \in Standings /\ q.ok /\ q.state = "intake" /\ q.ref = v.ref /\ q.merged = {} /\ q.repairs = 0
  <1>1. Opened.ok /\ Opened.state = "intake" /\ Opened.ref = NoRef /\ Opened.merged = {} /\ Opened.repairs = 0
    BY DEF Opened
  <1>2. v \in Event
    BY EntryFacts
  <1>3. Reference(Opened, v) = v.ref
    BY <1>1 DEF Reference
  <1>4. /\ q \in Standings /\ q.ok /\ q.state = v.state /\ q.ref = Reference(Opened, v)
        /\ q.merged = Opened.merged \cup (IF v.state = "merged" /\ v.state # Opened.state THEN {Reference(Opened, v)} \ {NoRef} ELSE {})
        /\ q.repairs = Opened.repairs + (IF v.state = "repairing" /\ v.state # Opened.state THEN 1 ELSE 0)
    BY <1>1, <1>2, OpenedStanding, FoldCases
  <1>5. v.state # "merged" /\ v.state # "repairing"
    OBVIOUS
  <1> QED
    BY <1>1, <1>3, <1>4, <1>5

LEMMA FirstClaims ==
    ASSUME NEW h, Life(h), NEW v, Entry(v, h), v.state = "intake", NEW known \in BOOLEAN,
           known => \A i \in 1 .. v.id - 1 : Silent(h, i)
    PROVE  Fold(Opened, v) \in Standings /\ Claims(h, v.id, Fold(Opened, v), known)
  <1> DEFINE q == Fold(Opened, v)
  <1>1. q \in Standings /\ q.ok /\ q.state = "intake" /\ q.ref = v.ref /\ q.merged = {} /\ q.repairs = 0
    BY OpenedFirst
  <1>2. v.id \in 1 .. Len(h) /\ v.state = h[v.id].state /\ v.ref = h[v.id].ref
    BY EntryFacts
  <1>3. 0 <= Cardinality(EnteredBy(h, "repairing", v.id))
    BY EnteredFinite
  <1>4. ASSUME known PROVE v.ref = ReferenceAt(h, v.id)
    <2>1. Len(h) \in Nat
      BY LifeFacts
    <2>2. 0 \in 0 .. Len(h) /\ 0 < v.id /\ \A i \in 0 + 1 .. v.id - 1 : h[i].ref = NoRef
      BY <1>2, <1>4, <2>1 DEF Silent
    <2>3. ReferenceAt(h, v.id) = IF h[v.id].ref = NoRef THEN ReferenceAt(h, 0) ELSE h[v.id].ref
      BY <1>2, <2>2, ReferenceMoves
    <2> QED BY <2>3, <1>2, ReferenceNone
  <1> HIDE DEF q
  <1>5. Claims(h, v.id, q, known)
    BY <1>1, <1>2, <1>3, <1>4 DEF Claims
  <1> QED
    BY <1>1, <1>5 DEF q

LEMMA NextClaims ==
    ASSUME NEW h, Life(h), NEW e \in 1 .. Len(h), NEW v, Entry(v, h), e < v.id,
           NEW p \in Standings, NEW known \in BOOLEAN, Claims(h, e, p, known),
           known => \A i \in e + 1 .. v.id - 1 : Silent(h, i)
    PROVE  Fold(p, v) \in Standings /\ Claims(h, v.id, Fold(p, v), known)
  <1> DEFINE q == Fold(p, v)
             d == v.id
  <1>1. v \in Event /\ d \in 1 .. Len(h) /\ v.state = h[d].state /\ v.ref = h[d].ref /\ Len(h) \in Nat
    BY EntryFacts, LifeFacts
  <1>2. /\ q \in Standings
        /\ q.ok => p.ok /\ (v.state = p.state \/ <<p.state, v.state>> \in FactoryEdges)
        /\ p.ok /\ (v.state = p.state \/ <<p.state, v.state>> \in FactoryEdges) =>
             /\ q.ok /\ q.state = v.state /\ q.ref = Reference(p, v)
             /\ q.merged = p.merged \cup (IF v.state = "merged" /\ v.state # p.state THEN {Reference(p, v)} \ {NoRef} ELSE {})
             /\ q.repairs = p.repairs + (IF v.state = "repairing" /\ v.state # p.state THEN 1 ELSE 0)
    BY <1>1, FoldCases
  <1> HIDE DEF q, d
  <1>3. e < d /\ (known => \A i \in e + 1 .. d - 1 : Silent(h, i))
    BY DEF d
  <1>4. SUFFICES ASSUME q.ok PROVE Claims(h, d, q, known)
    BY <1>2 DEF Claims, q, d
  <1>5. p.ok /\ p.state = h[e].state /\ p.repairs <= Cardinality(EnteredBy(h, "repairing", e)) /\ p.repairs \in Nat
    BY <1>2, <1>4 DEF Claims, Standings
  <1>6. /\ q.state = h[d].state /\ q.ref = Reference(p, v)
        /\ q.merged = p.merged \cup (IF v.state = "merged" /\ v.state # p.state THEN {Reference(p, v)} \ {NoRef} ELSE {})
        /\ q.repairs = p.repairs + (IF v.state = "repairing" /\ v.state # p.state THEN 1 ELSE 0)
    BY <1>1, <1>2, <1>4
  <1>7. q.repairs <= Cardinality(EnteredBy(h, "repairing", d))
    <2>0. Cardinality(EnteredBy(h, "repairing", e)) \in Nat /\ Cardinality(EnteredBy(h, "repairing", d)) \in Nat
      BY EnteredFinite
    <2>1. CASE h[d].state = "repairing" /\ h[e].state # "repairing"
      <3>1. Cardinality(EnteredBy(h, "repairing", e)) + 1 <= Cardinality(EnteredBy(h, "repairing", d))
        BY <1>1, <1>3, <2>1, EnteredOnce
      <3> QED BY <2>0, <3>1, <1>5, <1>6, <1>1, <2>1
    <2>2. CASE ~(h[d].state = "repairing" /\ h[e].state # "repairing")
      <3>1. Cardinality(EnteredBy(h, "repairing", e)) <= Cardinality(EnteredBy(h, "repairing", d))
        BY <1>1, <1>3, EnteredMore
      <3>2. q.repairs = p.repairs
        BY <1>1, <1>5, <1>6, <2>2
      <3> QED BY <2>0, <3>1, <3>2, <1>5
    <2> QED BY <2>1, <2>2
  <1>8. ASSUME known PROVE q.ref = ReferenceAt(h, d) /\ q.merged \subseteq MergedBy(h, d)
    <2>1. p.ref = ReferenceAt(h, e) /\ p.merged \subseteq MergedBy(h, e)
      BY <1>5, <1>8 DEF Claims
    <2>2. e \in 0 .. Len(h) /\ \A i \in e + 1 .. d - 1 : h[i].ref = NoRef
      BY <1>1, <1>3, <1>8 DEF Silent
    <2>3. ReferenceAt(h, d) = IF h[d].ref = NoRef THEN ReferenceAt(h, e) ELSE h[d].ref
      BY <1>1, <1>3, <2>2, ReferenceMoves
    <2>4. q.ref = ReferenceAt(h, d)
      BY <1>1, <1>6, <2>1, <2>3 DEF Reference
    <2>5. MergedBy(h, e) \subseteq MergedBy(h, d)
      BY <1>1, <1>3, EnteredMore DEF MergedBy
    <2>6. ASSUME v.state = "merged", v.state # p.state, q.ref # NoRef
          PROVE  q.ref \in MergedBy(h, d)
      <3>1. h[d - 1].state # "merged"
        <4>1. CASE d - 1 = e
          BY <4>1, <1>5, <2>6, <1>1
        <4>2. CASE d - 1 # e
          <5>1. d - 1 \in e + 1 .. d - 1
            BY <1>1, <1>3, <4>2
          <5> QED BY <5>1, <1>3, <1>8 DEF Silent
        <4> QED BY <4>1, <4>2
      <3>2. d \in Entered(h, "merged")
        BY <1>1, <2>6, <3>1, LifeFacts DEF Entered
      <3>3. d \in EnteredBy(h, "merged", d)
        BY <1>1, <3>2 DEF EnteredBy
      <3> QED BY <3>3, <2>4, <2>6 DEF MergedBy
    <2>7. q.merged \subseteq MergedBy(h, d)
      BY <1>6, <2>1, <2>5, <2>6
    <2> QED BY <2>4, <2>7
  <1> QED
    BY <1>2, <1>6, <1>7, <1>8 DEF Claims, Standings

LEMMA FirstExact ==
    ASSUME NEW h, Life(h), NEW v, Entry(v, h), v.id = 1
    PROVE  Fold(Opened, v) \in Standings /\ Exact(h, 1, Fold(Opened, v))
  <1> DEFINE q == Fold(Opened, v)
  <1>1. v.state = h[1].state /\ v.ref = h[1].ref /\ h[1].state = "intake" /\ Len(h) \in Nat \ {0}
    BY EntryFacts, LifeFacts DEF Life
  <1>2. q \in Standings /\ q.ok /\ q.state = "intake" /\ q.ref = v.ref /\ q.merged = {} /\ q.repairs = 0
    BY <1>1, OpenedFirst
  <1>3. EnteredBy(h, "repairing", 1) = {} /\ EnteredBy(h, "merged", 1) = {}
    BY EnteredNone
  <1>4. Cardinality(EnteredBy(h, "repairing", 1)) = 0
    BY <1>3, FS_EmptySet
  <1>5. MergedBy(h, 1) = {}
    BY <1>3 DEF MergedBy
  <1>6. v.ref = ReferenceAt(h, 1)
    <2>1. 0 \in 0 .. Len(h) /\ 1 \in 1 .. Len(h) /\ 0 < 1 /\ \A i \in 0 + 1 .. 1 - 1 : h[i].ref = NoRef
      BY <1>1
    <2>2. ReferenceAt(h, 1) = IF h[1].ref = NoRef THEN ReferenceAt(h, 0) ELSE h[1].ref
      BY <2>1, ReferenceMoves
    <2> QED BY <2>2, <1>1, ReferenceNone
  <1> HIDE DEF q
  <1>7. Exact(h, 1, q)
    BY <1>1, <1>2, <1>4, <1>5, <1>6 DEF Exact
  <1> QED
    BY <1>2, <1>7 DEF q

LEMMA NextExact ==
    ASSUME NEW h, Life(h), NEW d \in 2 .. Len(h), NEW v, Entry(v, h), v.id = d,
           NEW p \in Standings, Exact(h, d - 1, p)
    PROVE  Fold(p, v) \in Standings /\ Exact(h, d, Fold(p, v))
  <1> DEFINE q == Fold(p, v)
  <1>1. v \in Event /\ d \in 1 .. Len(h) /\ d - 1 \in 1 .. Len(h) /\ v.state = h[d].state /\ v.ref = h[d].ref /\ Len(h) \in Nat
    BY EntryFacts, LifeFacts
  <1>2. p.ok /\ p.state = h[d - 1].state /\ p.ref = ReferenceAt(h, d - 1) /\ p.merged = MergedBy(h, d - 1)
        /\ p.repairs = Cardinality(EnteredBy(h, "repairing", d - 1))
    BY DEF Exact
  <1>3. v.state = p.state \/ <<p.state, v.state>> \in FactoryEdges
    BY <1>1, <1>2 DEF Life
  <1>4. /\ q \in Standings /\ q.ok /\ q.state = v.state /\ q.ref = Reference(p, v)
        /\ q.merged = p.merged \cup (IF v.state = "merged" /\ v.state # p.state THEN {Reference(p, v)} \ {NoRef} ELSE {})
        /\ q.repairs = p.repairs + (IF v.state = "repairing" /\ v.state # p.state THEN 1 ELSE 0)
    BY <1>1, <1>2, <1>3, FoldCases
  <1>5. q.ref = ReferenceAt(h, d)
    <2>1. d - 1 \in 0 .. Len(h) /\ d - 1 < d /\ \A i \in (d - 1) + 1 .. d - 1 : h[i].ref = NoRef
      BY <1>1
    <2>2. ReferenceAt(h, d) = IF h[d].ref = NoRef THEN ReferenceAt(h, d - 1) ELSE h[d].ref
      BY <1>1, <2>1, ReferenceMoves
    <2> QED BY <2>2, <1>1, <1>2, <1>4 DEF Reference
  <1>6. q.repairs = Cardinality(EnteredBy(h, "repairing", d))
    <2>1. Cardinality(EnteredBy(h, "repairing", d)) =
               Cardinality(EnteredBy(h, "repairing", d - 1))
               + (IF h[d].state = "repairing" /\ h[d - 1].state # "repairing" THEN 1 ELSE 0)
      BY CountedNext
    <2>2. (v.state = "repairing" /\ v.state # p.state) <=> (h[d].state = "repairing" /\ h[d - 1].state # "repairing")
      BY <1>1, <1>2
    <2> HIDE DEF q
    <2> QED BY <2>1, <2>2, <1>2, <1>4
  <1>7. q.merged = MergedBy(h, d)
    <2>1. EnteredBy(h, "merged", d) =
               EnteredBy(h, "merged", d - 1) \cup
               (IF h[d].state = "merged" /\ h[d - 1].state # "merged" THEN {d} ELSE {})
      BY EnteredNext
    <2>2. (v.state = "merged" /\ v.state # p.state) <=> (h[d].state = "merged" /\ h[d - 1].state # "merged")
      BY <1>1, <1>2
    <2> DEFINE E == EnteredBy(h, "merged", d)
               F == EnteredBy(h, "merged", d - 1)
    <2>3. /\ MergedBy(h, d) = {ReferenceAt(h, k) : k \in E} \ {NoRef}
          /\ MergedBy(h, d - 1) = {ReferenceAt(h, k) : k \in F} \ {NoRef}
      BY DEF MergedBy
    <2> HIDE DEF E, F, q
    <2>4. CASE h[d].state = "merged" /\ h[d - 1].state # "merged"
      <3>1. E = F \cup {d}
        BY <2>1, <2>4 DEF E, F
      <3>2. {ReferenceAt(h, k) : k \in E} = {ReferenceAt(h, k) : k \in F} \cup {ReferenceAt(h, d)}
        BY <3>1
      <3>3. q.merged = p.merged \cup ({ReferenceAt(h, d)} \ {NoRef})
        <4>1. Reference(p, v) = ReferenceAt(h, d)
          BY <1>4, <1>5
        <4>2. v.state = "merged" /\ v.state # p.state
          BY <2>2, <2>4
        <4>3. q.merged = p.merged \cup ({Reference(p, v)} \ {NoRef})
          BY <1>4, <4>2
        <4> QED BY <4>1, <4>3
      <3> DEFINE A == {ReferenceAt(h, k) : k \in F}
                 B == {ReferenceAt(h, k) : k \in E}
      <3>4. B = A \cup {ReferenceAt(h, d)} /\ MergedBy(h, d) = B \ {NoRef} /\ p.merged = A \ {NoRef}
        BY <3>2, <2>3, <1>2
      <3> HIDE DEF A, B
      <3> QED BY <3>3, <3>4
    <2>5. CASE ~(h[d].state = "merged" /\ h[d - 1].state # "merged")
      <3>1. E = F
        BY <2>1, <2>5 DEF E, F
      <3>2. q.merged = p.merged
        BY <1>4, <2>2, <2>5
      <3> QED BY <3>1, <3>2, <2>3, <1>2
    <2> QED BY <2>4, <2>5
  <1> HIDE DEF q
  <1>8. Exact(h, d, q)
    BY <1>1, <1>4, <1>5, <1>6, <1>7 DEF Exact
  <1> QED
    BY <1>4, <1>8 DEF q

Recs(f) == {f[k].id : k \in DOMAIN f}

\* With gaps the projection claims no more than was; with none it is what was.
LEMMA ProjectionShows ==
    ASSUME NEW h, Life(h), NEW f, OfLife(f, h), Tells(f), f # <<>>,
           NEW known \in BOOLEAN, known => \A i \in DOMAIN h \ Recs(f) : Silent(h, i),
           NEW last \in Recs(f), \A i \in Recs(f) : i <= last
    PROVE  /\ Claims(h, last, Projection(f), known)
           /\ DOMAIN h \subseteq Recs(f) => Projection(f) = Lived(h)
  <1> DEFINE O == Ordered(f)
             n == Len(f)
  <1>1. f \in Seq(Event) /\ Distinct(f) /\ \A i \in 1 .. n : Entry(f[i], h)
    BY DEF OfLife
  <1>2. n \in Nat \ {0} /\ DOMAIN f = 1 .. n
    BY <1>1
  <1>3. /\ DOMAIN O = 1 .. n
        /\ \A k \in 1 .. n : \E i \in 1 .. n : O[k] = f[i]
        /\ \A i \in 1 .. n : \E k \in 1 .. n : O[k] = f[i]
        /\ \A a, b \in 1 .. n : a < b => O[a].id < O[b].id
    <2> HIDE DEF n
    <2> QED BY <1>1, OrderedById DEF n
  <1>4. PICK p : /\ p[0] = Opened
                 /\ \A k \in 1 .. n : p[k] = Fold(p[k - 1], O[k])
                 /\ FoldLeft(Fold, Opened, O) = p[n]
    <2> HIDE DEF O, n
    <2> QED BY <1>2, <1>3, FoldsAlong
  <1>5. Projection(f) = IF O[1].state # "intake" THEN [Opened EXCEPT !.ok = FALSE] ELSE p[n]
    BY <1>4 DEF Projection
  <1> HIDE DEF O, n
  <1>6. \A k \in 1 .. n : Entry(O[k], h) /\ O[k].id \in 1 .. Len(h) /\ O[k].id \in Recs(f)
    <2>1. SUFFICES ASSUME NEW k \in 1 .. n
                   PROVE  Entry(O[k], h) /\ O[k].id \in 1 .. Len(h) /\ O[k].id \in Recs(f)
      OBVIOUS
    <2>2. PICK i \in 1 .. n : O[k] = f[i]
      BY <1>3
    <2>3. Entry(f[i], h) /\ f[i].id \in Recs(f)
      BY <1>1, <1>2 DEF Recs
    <2> QED BY <2>2, <2>3, EntryFacts
  <1>7. ASSUME NEW i \in Recs(f) PROVE \E k \in 1 .. n : O[k].id = i
    <2>1. PICK j \in 1 .. n : f[j].id = i
      BY <1>2 DEF Recs
    <2>2. PICK k \in 1 .. n : O[k] = f[j]
      BY <1>3
    <2> QED BY <2>1, <2>2
  <1>8. Len(h) \in Nat \ {0} /\ DOMAIN h = 1 .. Len(h)
    BY LifeFacts
  <1>14. ASSUME NEW a \in 1 .. n, NEW b \in 1 .. n, O[a].id < O[b].id PROVE a < b
    <2>1. O[a].id \in Int /\ O[b].id \in Int /\ a \in Int /\ b \in Int
      BY <1>6, <1>8
    <2>2. ~(O[b].id < O[a].id) /\ O[a].id # O[b].id
      BY <2>1, <1>14
    <2>3. ~(b < a) /\ a # b
      BY <2>2, <1>3
    <2> QED BY <2>1, <2>3
  <1>9. ASSUME NEW k \in 2 .. n, NEW i \in (O[k - 1].id) + 1 .. (O[k].id) - 1
        PROVE  i \in DOMAIN h \ Recs(f)
    <2>1. k \in 1 .. n /\ k - 1 \in 1 .. n
      BY <1>2
    <2>2. O[k].id \in 1 .. Len(h) /\ O[k - 1].id \in 1 .. Len(h)
      BY <1>6, <2>1
    <2>3. i \in DOMAIN h
      BY <1>8, <2>2
    <2>4. ASSUME NEW j \in 1 .. n, O[j].id = i PROVE FALSE
      <3>1. O[k - 1].id < O[j].id /\ O[j].id < O[k].id
        BY <2>2, <2>4
      <3>2. k - 1 < j /\ j < k
        BY <1>14, <2>1, <3>1
      <3> QED BY <3>2, <2>1, <1>2
    <2> QED BY <2>3, <2>4, <1>7
  <1>10. ASSUME NEW i \in 1 .. O[1].id - 1 PROVE i \in DOMAIN h \ Recs(f)
    <2>1. 1 \in 1 .. n
      BY <1>2
    <2>2. O[1].id \in 1 .. Len(h)
      BY <1>6, <2>1
    <2>3. i \in DOMAIN h
      BY <1>8, <2>2
    <2>4. ASSUME NEW j \in 1 .. n, O[j].id = i PROVE FALSE
      <3>1. O[j].id < O[1].id /\ O[j].id \in 1 .. Len(h)
        BY <2>2, <2>4, <1>6
      <3>2. j < 1
        BY <1>14, <2>1, <3>1
      <3> QED BY <3>2, <1>2
    <2> QED BY <2>3, <2>4, <1>7
  <1>11. last = O[n].id
    <2>1. PICK k \in 1 .. n : O[k].id = last
      BY <1>7
    <2>2. n \in 1 .. n /\ O[n].id <= last /\ O[n].id \in 1 .. Len(h) /\ O[k].id \in 1 .. Len(h)
      BY <1>2, <1>6
    <2>3. ~(k < n)
      <3>1. SUFFICES ASSUME k < n PROVE FALSE
        OBVIOUS
      <3>2. O[k].id < O[n].id
        BY <1>3, <2>2, <3>1
      <3> QED BY <3>2, <2>1, <2>2, <1>8
    <2>4. k = n
      BY <2>3, <1>2
    <2> QED BY <2>1, <2>4
  <1>12. CASE O[1].state # "intake"
    <2>1. ~Projection(f).ok
      BY <1>5, <1>12 DEF Opened
    <2>2. ~(DOMAIN h \subseteq Recs(f))
      <3>1. SUFFICES ASSUME DOMAIN h \subseteq Recs(f) PROVE FALSE
        OBVIOUS
      <3>2. 1 \in 1 .. n /\ O[1].id \in 1 .. Len(h)
        BY <1>2, <1>6
      <3>3. O[1].id = 1
        <4>1. ASSUME O[1].id # 1 PROVE FALSE
          <5>1. 1 \in 1 .. O[1].id - 1
            BY <3>2, <4>1, <1>8
          <5> QED BY <5>1, <1>10, <3>1
        <4> QED BY <4>1
      <3>4. O[1].state = h[1].state
        BY <3>2, <3>3, <1>6, EntryFacts
      <3> QED BY <3>4, <1>12 DEF Life
    <2> QED BY <2>1, <2>2 DEF Claims
  <1>13. CASE O[1].state = "intake"
    <2> DEFINE Good(k) == p[k] \in Standings /\ Claims(h, O[k].id, p[k], known)
               Bad == {k \in 1 .. n : ~Good(k)}
    <2>0. 1 \in 1 .. n /\ n \in 1 .. n /\ p[1] = Fold(Opened, O[1]) /\ Entry(O[1], h)
      <3>1. 1 \in 1 .. n /\ n \in 1 .. n /\ 1 - 1 = 0
        BY <1>2
      <3> QED BY <3>1, <1>4, <1>6
    <2>1. Good(1)
      <3>1. known => \A i \in 1 .. O[1].id - 1 : Silent(h, i)
        BY <1>10
      <3> QED BY <3>1, <2>0, <1>13, FirstClaims
    <2>2. Bad = {}
      <3>1. SUFFICES ASSUME Bad # {} PROVE FALSE
        OBVIOUS
      <3>2. Bad \in SUBSET Nat
        BY <1>2
      <3>3. PICK k \in Bad : \A m \in Bad : k <= m
        <4> HIDE DEF Bad
        <4> QED BY <3>1, <3>2, Smallest
      <3>4. k \in 1 .. n /\ k # 1 /\ ~Good(k)
        BY <3>3, <2>1
      <3> HIDE DEF Good
      <3>5. k \in 2 .. n /\ k - 1 \in 1 .. n /\ k - 1 < k
        BY <3>4, <1>2
      <3>6. Good(k - 1)
        BY <3>3, <3>5, <1>2
      <3>7. known => \A i \in (O[k - 1].id) + 1 .. O[k].id - 1 : Silent(h, i)
        BY <1>9, <3>5
      <3>8. O[k - 1].id < O[k].id /\ O[k - 1].id \in 1 .. Len(h) /\ Entry(O[k], h)
        BY <1>3, <1>6, <3>4, <3>5
      <3>9. p[k] = Fold(p[k - 1], O[k])
        BY <1>4, <3>4
      <3>10. Good(k)
        BY <3>6, <3>7, <3>8, <3>9, NextClaims DEF Good
      <3> QED BY <3>4, <3>10
    <2>3. Claims(h, last, Projection(f), known)
      <3>1. Good(n)
        BY <2>0, <2>2
      <3> QED BY <3>1, <1>5, <1>11, <1>13
    <2>4. ASSUME DOMAIN h \subseteq Recs(f) PROVE Projection(f) = Lived(h)
      <3>1. O[1].id = 1
        <4>1. O[1].id \in 1 .. Len(h)
          BY <2>0, <1>6
        <4>2. ASSUME O[1].id # 1 PROVE FALSE
          <5>1. 1 \in 1 .. O[1].id - 1
            BY <4>1, <4>2, <1>8
          <5> QED BY <5>1, <1>10, <2>4
        <4> QED BY <4>2
      <3> DEFINE Right(k) == p[k] \in Standings /\ Exact(h, O[k].id, p[k])
                 Wrong == {k \in 1 .. n : ~Right(k)}
      <3>2. Right(1)
        BY <2>0, <3>1, FirstExact
      <3>3. Wrong = {}
        <4>1. SUFFICES ASSUME Wrong # {} PROVE FALSE
          OBVIOUS
        <4>2. Wrong \in SUBSET Nat
          BY <1>2
        <4>3. PICK k \in Wrong : \A m \in Wrong : k <= m
          <5> HIDE DEF Wrong
          <5> QED BY <4>1, <4>2, Smallest
        <4>4. k \in 1 .. n /\ k # 1 /\ ~Right(k)
          BY <4>3, <3>2
        <4> HIDE DEF Right
        <4>5. k \in 2 .. n /\ k - 1 \in 1 .. n /\ k - 1 < k
          BY <4>4, <1>2
        <4>6. Right(k - 1)
          BY <4>3, <4>5, <1>2
        <4>7. O[k - 1].id < O[k].id /\ O[k - 1].id \in 1 .. Len(h) /\ O[k].id \in 1 .. Len(h) /\ Entry(O[k], h)
          BY <1>3, <1>6, <4>4, <4>5
        <4>8. O[k].id = O[k - 1].id + 1
          <5>1. ASSUME O[k].id # O[k - 1].id + 1 PROVE FALSE
            <6>1. O[k - 1].id + 1 \in (O[k - 1].id) + 1 .. O[k].id - 1
              BY <4>7, <5>1, <1>8
            <6> QED BY <6>1, <4>5, <1>9, <2>4
          <5> QED BY <5>1
        <4>9. O[k].id \in 2 .. Len(h) /\ O[k].id - 1 = O[k - 1].id
          BY <4>7, <4>8, <1>8
        <4>10. p[k] = Fold(p[k - 1], O[k])
          BY <1>4, <4>4
        <4>11. Right(k)
          BY <4>6, <4>7, <4>9, <4>10, NextExact DEF Right
        <4> QED BY <4>4, <4>11
      <3>4. Right(n)
        BY <3>3, <2>0
      <3>5. last = Len(h)
        <4>1. Len(h) \in Recs(f)
          BY <2>4, <1>8
        <4>2. last \in 1 .. Len(h)
          BY <1>6, <1>11, <2>0
        <4>3. Len(h) <= last
          BY <4>1
        <4> DEFINE L == Len(h)
        <4>4. L \in Nat /\ last \in 1 .. L /\ L <= last
          BY <4>2, <4>3, <1>8
        <4> HIDE DEF L
        <4>5. last = L
          BY <4>4
        <4> QED BY <4>5 DEF L
      <3>6. p[n] \in Standings /\ Exact(h, Len(h), p[n])
        BY <3>4, <3>5, <1>11
      <3>7. p[n] = ToldBy(h, Len(h))
        BY <3>6 DEF Exact, ToldBy, Standings
      <3>8. \A st : EnteredBy(h, st, Len(h)) = Entered(h, st)
        BY <1>8 DEF EnteredBy, Entered
      <3>9. ToldBy(h, Len(h)) = Lived(h)
        BY <3>8 DEF ToldBy, MergedBy, Lived
      <3> QED BY <3>7, <3>9, <1>5, <1>13
    <2> QED BY <2>3, <2>4
  <1> QED
    BY <1>12, <1>13

-----------------------------------------------------------------------------
(* The invariant of the ledger.                                            *)

\* What happened is a life; the file, and every file a command read, holds
\* events of it, each once; a command carries one.
LedgerInv ==
    /\ Life(happened)
    /\ OfLife(ledger, happened)
    /\ DOMAIN command = Command
    /\ \A c \in Command : command[c] # <<>> =>
          /\ OfLife(command[c][1].seen, happened)
          /\ Entry(command[c][1].event, happened)

LEMMA LifeGoesOn ==
    ASSUME NEW h, Life(h), NEW v \in Event, v.id = Len(h) + 1,
           v.state = h[Len(h)].state \/ <<h[Len(h)].state, v.state>> \in FactoryEdges
    PROVE  /\ Life(Append(h, v))
           /\ \A e : Entry(e, h) => Entry(e, Append(h, v))
           /\ \A f : OfLife(f, h) => OfLife(f, Append(h, v))
  <1> DEFINE H == Append(h, v)
  <1>1. h \in Seq(Event) /\ DOMAIN h = 1 .. Len(h) /\ Len(h) \in Nat \ {0}
    BY LifeFacts DEF Life
  <1>2. /\ H \in Seq(Event) /\ Len(H) = Len(h) + 1 /\ DOMAIN H = 1 .. Len(h) + 1
        /\ H[Len(h) + 1] = v /\ \A k \in 1 .. Len(h) : H[k] = h[k]
    BY <1>1
  <1> DEFINE L == Len(h)
  <1>3. /\ L \in Nat \ {0} /\ DOMAIN h = 1 .. L /\ Len(h) = L
        /\ H \in Seq(Event) /\ Len(H) = L + 1 /\ DOMAIN H = 1 .. L + 1
        /\ H[L + 1] = v /\ \A k \in 1 .. L : H[k] = h[k]
    BY <1>1, <1>2
  <1>4. v.id = L + 1 /\ (v.state = h[L].state \/ <<h[L].state, v.state>> \in FactoryEdges)
    OBVIOUS
  <1> HIDE DEF H, L
  <1>5. H # <<>> /\ H[1].state = "intake"
    BY <1>3 DEF Life
  <1>6. ASSUME NEW k \in DOMAIN H PROVE H[k].id = k
    <2>1. CASE k \in 1 .. L
      BY <1>3, <2>1 DEF Life
    <2>2. CASE k = L + 1
      BY <1>3, <1>4, <2>2
    <2> QED BY <1>3, <2>1, <2>2
  <1>7. ASSUME NEW k \in 2 .. Len(H)
        PROVE  H[k - 1].state = H[k].state \/ <<H[k - 1].state, H[k].state>> \in FactoryEdges
    <2>1. CASE k \in 2 .. L
      <3>1. k \in 1 .. L /\ k - 1 \in 1 .. L
        BY <1>3, <2>1
      <3> QED BY <1>3, <2>1, <3>1 DEF Life
    <2>2. CASE k = L + 1
      <3>1. k - 1 = L /\ L \in 1 .. L
        BY <1>3, <2>2
      <3> QED BY <1>3, <1>4, <2>2, <3>1
    <2> QED BY <1>3, <2>1, <2>2
  <1>8. Life(H)
    BY <1>3, <1>5, <1>6, <1>7 DEF Life
  <1>9. \A e : Entry(e, h) => Entry(e, H)
    BY <1>3 DEF Entry
  <1>10. \A f : OfLife(f, h) => OfLife(f, H)
    BY <1>9 DEF OfLife
  <1> QED
    BY <1>8, <1>9, <1>10 DEF H

\* The events kept, in order, are events of the life, each once.
LEMMA OnlyOfLife ==
    ASSUME NEW h, Life(h), NEW kept \in SUBSET DOMAIN h
    PROVE  OfLife(Only(h, kept), h)
  <1> DEFINE n == Cardinality(kept)
             key == [i \in kept |-> i]
             at(k) == CHOOSE i \in kept : Cardinality({j \in kept : j < i}) = k - 1
             f == Only(h, kept)
  <1>1. DOMAIN h = 1 .. Len(h) /\ Len(h) \in Nat /\ IsFiniteSet(kept) /\ n \in Nat
    BY LifeFacts, UpToFinite, FS_Subset, FS_CardinalityType
  <1>2. key \in [kept -> Int] /\ \A i, j \in kept : key[i] = key[j] => i = j
    BY <1>1
  <1>3. ASSUME NEW i \in kept PROVE {j \in kept : j < i} = Lower(kept, key, i)
    BY DEF Lower
  <1>4. ASSUME NEW k \in 1 .. n PROVE at(k) \in kept /\ Cardinality({j \in kept : j < at(k)}) = k - 1
    <2>1. \E i \in kept : Cardinality(Lower(kept, key, i)) = k - 1
      <3> HIDE DEF key
      <3> QED BY <1>1, <1>2, RanksFill
    <2>2. \E i \in kept : Cardinality({j \in kept : j < i}) = k - 1
      BY <2>1, <1>3
    <2> QED BY <2>2
  <1>5. f = [k \in 1 .. n |-> h[at(k)]]
    BY DEF Only
  <1> HIDE DEF n, at, key
  <1>6. ASSUME NEW k \in 1 .. n PROVE f[k] = h[at(k)] /\ f[k].id = at(k) /\ Entry(f[k], h)
    <2>1. f[k] = h[at(k)] /\ at(k) \in DOMAIN h
      BY <1>4, <1>5
    <2>2. h[at(k)].id = at(k) /\ h[at(k)] \in Event
      BY <2>1, LifeFacts DEF Life
    <2> HIDE DEF f
    <2> QED BY <2>1, <2>2 DEF Entry
  <1>7. f \in Seq(Event)
    <2>1. f \in [1 .. n -> Event]
      <3>1. \A k \in 1 .. n : h[at(k)] \in Event
        BY <1>6 DEF Entry
      <3> QED BY <1>5, <3>1
    <2> HIDE DEF f
    <2> QED BY <2>1, <1>1
  <1>8. DOMAIN f = 1 .. n
    BY <1>5
  <1> HIDE DEF f
  <1>9. Distinct(f)
    <2>1. SUFFICES ASSUME NEW i \in 1 .. n, NEW j \in 1 .. n, f[i].id = f[j].id PROVE i = j
      BY <1>8 DEF Distinct
    <2>2. at(i) = at(j)
      BY <2>1, <1>6
    <2>3. i - 1 = j - 1
      BY <2>2, <1>4
    <2> QED BY <2>3, <1>1
  <1>10. OfLife(f, h)
    BY <1>6, <1>7, <1>8, <1>9 DEF OfLife
  <1> QED
    BY <1>10 DEF f

LEMMA LedgerInvInit == LedgerInit => LedgerInv
  <1> SUFFICES ASSUME LedgerInit PROVE LedgerInv
    OBVIOUS
  <1>1. PICK behind \in Past :
          happened = [k \in DOMAIN behind |-> [id |-> k, state |-> behind[k], at |-> k, ref |-> NoRef]]
    BY DEF LedgerInit
  <1>2. /\ behind \in Seq(FactoryState) /\ behind # <<>> /\ behind[1] = "intake"
        /\ \A k \in 2 .. Len(behind) : <<behind[k - 1], behind[k]>> \in FactoryEdges
    BY LedgerAssumption
  <1> DEFINE n == Len(behind)
  <1>3. n \in Nat \ {0} /\ DOMAIN behind = 1 .. n /\ \A k \in 1 .. n : behind[k] \in FactoryState
    BY <1>2
  <1>4. \A k \in 1 .. n : happened[k] = [id |-> k, state |-> behind[k], at |-> k, ref |-> NoRef]
    BY <1>1, <1>3
  <1>5. happened \in [1 .. n -> Event]
    <2>1. \A k \in 1 .. n : [id |-> k, state |-> behind[k], at |-> k, ref |-> NoRef] \in Event
      BY <1>3 DEF Event
    <2> HIDE DEF n
    <2> QED BY <2>1, <1>1, <1>3
  <1>6. happened \in Seq(Event) /\ Len(happened) = n /\ DOMAIN happened = 1 .. n
    <2> HIDE DEF n
    <2> QED BY <1>3, <1>5
  <1>7. Life(happened)
    <2>1. happened # <<>> /\ 1 \in 1 .. n
      <3> HIDE DEF n
      <3> QED BY <1>3, <1>6
    <2>2. \A k \in 1 .. n : happened[k].id = k /\ happened[k].state = behind[k]
      <3> HIDE DEF n
      <3> SUFFICES ASSUME NEW k \in 1 .. n PROVE happened[k].id = k /\ happened[k].state = behind[k]
        OBVIOUS
      <3>1. happened[k] = [id |-> k, state |-> behind[k], at |-> k, ref |-> NoRef]
        BY <1>4
      <3> DEFINE v == happened[k]
      <3>2. v = [id |-> k, state |-> behind[k], at |-> k, ref |-> NoRef]
        BY <3>1
      <3> HIDE DEF v
      <3>3. v.id = k /\ v.state = behind[k]
        BY <3>2
      <3> QED BY <3>3 DEF v
    <2>3. \A k \in 2 .. n : k \in 1 .. n /\ k - 1 \in 1 .. n
      BY <1>3
    <2>4. \A k \in 2 .. n : <<happened[k - 1].state, happened[k].state>> \in FactoryEdges
      BY <2>2, <2>3, <1>2
    <2> HIDE DEF n
    <2> QED BY <2>1, <2>2, <2>4, <1>2, <1>6 DEF Life
  <1>8. OfLife(ledger, happened)
    <2>1. PICK delay \in SUBSET DOMAIN happened : ledger = Only(happened, DOMAIN happened \ delay)
      BY DEF LedgerInit
    <2> QED BY <2>1, <1>7, OnlyOfLife
  <1>9. command = [c \in Command |-> <<>>]
    BY DEF LedgerInit
  <1> QED
    BY <1>7, <1>8, <1>9 DEF LedgerInv

LEMMA AppendedOfLife ==
    ASSUME NEW h, NEW f, OfLife(f, h), NEW e, Entry(e, h), NEW g \in Appended(f, e)
    PROVE  OfLife(g, h)
  <1>1. f \in Seq(Event) /\ Len(f) \in Nat /\ DOMAIN f = 1 .. Len(f) /\ e \in Event
    BY DEF OfLife, Entry
  <1>2. CASE g = f
    BY <1>2
  <1>3. CASE g # f
    <2>1. g = Append(f, e) /\ \A k \in DOMAIN f : f[k].id # e.id
      BY <1>3 DEF Appended
    <2>2. /\ g \in Seq(Event) /\ DOMAIN g = 1 .. Len(f) + 1
          /\ g[Len(f) + 1] = e /\ \A k \in 1 .. Len(f) : g[k] = f[k]
      BY <1>1, <2>1
    <2> DEFINE n == Len(f)
    <2>3. /\ n \in Nat /\ DOMAIN f = 1 .. n /\ DOMAIN g = 1 .. n + 1
          /\ g[n + 1] = e /\ \A k \in 1 .. n : g[k] = f[k] /\ Entry(f[k], h)
      BY <1>1, <2>2 DEF OfLife
    <2> HIDE DEF n
    <2>4. \A k \in 1 .. n + 1 : k \in 1 .. n \/ k = n + 1
      BY <2>3
    <2>5. \A k \in DOMAIN g : Entry(g[k], h)
      BY <2>3, <2>4
    <2>6. Distinct(g)
      <3>1. SUFFICES ASSUME NEW i \in 1 .. n + 1, NEW j \in 1 .. n + 1, g[i].id = g[j].id PROVE i = j
        BY <2>3 DEF Distinct
      <3>2. CASE i \in 1 .. n /\ j \in 1 .. n
        BY <2>3, <3>1, <3>2 DEF OfLife, Distinct
      <3>3. CASE i = n + 1 /\ j \in 1 .. n
        BY <2>1, <2>3, <3>1, <3>3
      <3>4. CASE i \in 1 .. n /\ j = n + 1
        BY <2>1, <2>3, <3>1, <3>4
      <3> QED BY <2>4, <3>2, <3>3, <3>4
    <2> QED BY <2>2, <2>5, <2>6 DEF OfLife
  <1> QED
    BY <1>2, <1>3

LEMMA LedgerInvNext == LedgerInv /\ [LedgerNext]_ledgerVars => LedgerInv'
  <1> SUFFICES ASSUME LedgerInv, [LedgerNext]_ledgerVars PROVE LedgerInv'
    OBVIOUS
  <1>0. /\ Life(happened) /\ OfLife(ledger, happened) /\ DOMAIN command = Command
        /\ \A c \in Command : command[c] # <<>> =>
              OfLife(command[c][1].seen, happened) /\ Entry(command[c][1].event, happened)
        /\ DOMAIN happened = 1 .. Len(happened) /\ Len(happened) \in Nat \ {0}
    BY LifeFacts DEF LedgerInv
  <1>1. CASE Happen
    <2> DEFINE L == Len(happened)
               latest == happened[Len(happened)]
    <2>1. PICK state \in Route, ref \in ChangeRequest \cup {NoRef},
               at \in {latest.at - 1, latest.at, latest.at + 1} :
             /\ <<latest.state, state>> \in FactoryEdges \/ (state = latest.state /\ ref # NoRef)
             /\ happened' = Append(happened, [id |-> L + 1, state |-> state, at |-> at, ref |-> ref])
      BY <1>1 DEF Happen
    <2> DEFINE v == [id |-> L + 1, state |-> state, at |-> at, ref |-> ref]
    <2>2. L \in Nat \ {0} /\ L \in DOMAIN happened
      BY <1>0
    <2>3. latest \in Event
      BY <1>0, <2>2 DEF Life
    <2>4. latest.at \in Int
      <3> HIDE DEF latest
      <3> QED BY <2>3 DEF Event
    <2>5. at \in Int /\ state \in FactoryState /\ L + 1 \in Nat
      <3> HIDE DEF latest, L
      <3> QED BY <2>1, <2>2, <2>4, LedgerAssumption
    <2>6. v \in Event
      <3> HIDE DEF L
      <3> QED BY <2>5 DEF Event
    <2>7. v.id = Len(happened) + 1 /\ v.state = state
      OBVIOUS
    <2>8. v.state = happened[Len(happened)].state \/ <<happened[Len(happened)].state, v.state>> \in FactoryEdges
      BY <2>1
    <2>9. happened' = Append(happened, v)
      BY <2>1
    <2> HIDE DEF v, latest, L
    <2>10. /\ Life(happened')
           /\ \A e : Entry(e, happened) => Entry(e, happened')
           /\ \A f : OfLife(f, happened) => OfLife(f, happened')
      BY <1>0, <2>6, <2>7, <2>8, <2>9, LifeGoesOn
    <2>11. UNCHANGED <<ledger, command>>
      BY <1>1 DEF Happen
    <2> QED BY <1>0, <2>10, <2>11 DEF LedgerInv
  <1>2. ASSUME NEW c \in Command, Read(c) PROVE LedgerInv'
    <2>1. PICK k \in Missing \cup {Len(happened)}, delay \in {0, 1} :
             command' = [command EXCEPT ![c] =
                <<[event |-> [happened[k] EXCEPT !.at = @ + delay], seen |-> ledger]>>]
      BY <1>2 DEF Read
    <2> DEFINE e == [happened[k] EXCEPT !.at = @ + delay]
    <2>2. k \in DOMAIN happened
      BY <1>0 DEF Missing
    <2>3. happened[k] \in Event /\ happened[k].id = k
      BY <1>0, <2>2 DEF Life
    <2>4. Entry(e, happened)
      <3>1. /\ happened[k].id \in Nat /\ happened[k].state \in FactoryState /\ happened[k].at \in Int
            /\ happened[k].ref \in ChangeRequest \cup {NoRef}
            /\ e = [id |-> happened[k].id, state |-> happened[k].state, at |-> happened[k].at + delay,
                    ref |-> happened[k].ref]
        BY <2>3 DEF Event
      <3>2. happened[k].at + delay \in Int
        BY <3>1
      <3>3. e \in Event
        <4> HIDE DEF e
        <4> QED BY <3>1, <3>2 DEF Event
      <3>4. e.id = k /\ e.state = happened[k].state /\ e.ref = happened[k].ref
        <4> HIDE DEF e
        <4> QED BY <3>1, <2>3
      <3> HIDE DEF e
      <3> QED BY <3>3, <3>4, <2>2 DEF Entry
    <2> DEFINE r == [event |-> e, seen |-> ledger]
    <2>5. command' = [command EXCEPT ![c] = <<r>>] /\ r.event = e /\ r.seen = ledger
      BY <2>1
    <2> HIDE DEF e, r
    <2>6. ASSUME NEW d \in Command, command'[d] # <<>>
          PROVE  OfLife(command'[d][1].seen, happened) /\ Entry(command'[d][1].event, happened)
      <3>1. CASE d = c
        <4>1. command'[d][1] = r
          BY <2>5, <3>1, <1>0
        <4> QED BY <4>1, <2>4, <2>5, <1>0
      <3>2. CASE d # c
        <4>1. command'[d] = command[d]
          BY <2>5, <3>2, <1>0
        <4> QED BY <4>1, <1>0, <2>6
      <3> QED BY <3>1, <3>2
    <2>7. DOMAIN command' = Command
      BY <2>5, <1>0
    <2>8. UNCHANGED <<happened, ledger>>
      BY <1>2 DEF Read
    <2> QED BY <1>0, <2>6, <2>7, <2>8 DEF LedgerInv
  <1>3. ASSUME NEW c \in Command, command[c] # <<>>, command' = [command EXCEPT ![c] = <<>>]
        PROVE  /\ DOMAIN command' = Command
               /\ \A d \in Command : command'[d] # <<>> =>
                    OfLife(command'[d][1].seen, happened) /\ Entry(command'[d][1].event, happened)
    <2>1. DOMAIN command' = Command /\ \A d \in Command : command'[d] = IF d = c THEN <<>> ELSE command[d]
      BY <1>0, <1>3
    <2> QED BY <2>1, <1>0
  <1>4. ASSUME NEW c \in Command, Write(c) PROVE LedgerInv'
    <2> DEFINE seen == command[c][1].seen
               e == command[c][1].event
    <2>1. command[c] # <<>> /\ command' = [command EXCEPT ![c] = <<>>] /\ happened' = happened
      BY <1>4 DEF Write
    <2>2. ledger' \in Appended(seen, e) \/ ledger' = ledger
      BY <1>4 DEF Write
    <2>3. OfLife(seen, happened) /\ Entry(e, happened)
      BY <1>0, <2>1
    <2> HIDE DEF seen, e
    <2>4. OfLife(ledger', happened)
      BY <1>0, <2>2, <2>3, AppendedOfLife
    <2> QED BY <1>0, <1>3, <2>1, <2>4 DEF LedgerInv
  <1>5. ASSUME NEW c \in Command, Tear(c) PROVE LedgerInv'
    <2>1. /\ command[c] # <<>> /\ command' = [command EXCEPT ![c] = <<>>]
          /\ happened' = happened /\ ledger' = ledger
      BY <1>5 DEF Tear
    <2> QED BY <1>0, <1>3, <2>1 DEF LedgerInv
  <1>6. CASE UNCHANGED ledgerVars
    BY <1>0, <1>6 DEF LedgerInv, ledgerVars
  <1> QED
    BY <1>1, <1>2, <1>4, <1>5, <1>6 DEF LedgerNext

LEMMA RecordsFacts ==
    ASSUME NEW h, Life(h), NEW f, OfLife(f, h)
    PROVE  /\ Recs(f) \subseteq 1 .. Len(h)
           /\ Cardinality(Recs(f)) = Len(f)
           /\ f # <<>> => \E last \in Recs(f) : \A i \in Recs(f) : i <= last
  <1> DEFINE n == Len(f)
             id == [k \in 1 .. n |-> f[k].id]
  <1>1. n \in Nat /\ DOMAIN f = 1 .. n /\ Len(h) \in Nat
    BY LifeFacts DEF OfLife
  <1>2. \A k \in 1 .. n : Entry(f[k], h) /\ f[k].id \in 1 .. Len(h)
    BY <1>1, EntryFacts DEF OfLife
  <1>3. Recs(f) \subseteq 1 .. Len(h)
    BY <1>1, <1>2 DEF Recs
  <1>4. Cardinality(Recs(f)) = n
    <2>1. id \in [1 .. n -> Recs(f)] /\ \A r \in Recs(f) : \E k \in 1 .. n : id[k] = r
      BY <1>1 DEF Recs
    <2>2. \A i, j \in 1 .. n : id[i] = id[j] => i = j
      BY <1>1 DEF OfLife, Distinct
    <2>3. IsFiniteSet(1 .. n) /\ Cardinality(1 .. n) = n
      <3> HIDE DEF n
      <3>1. IsFiniteSet(1 .. n) /\ Cardinality(1 .. n) = IF 1 > n THEN 0 ELSE n - 1 + 1
        BY <1>1, FS_Interval
      <3> QED BY <3>1, <1>1
    <2> HIDE DEF id, n
    <2>4. id \in Surjection(1 .. n, Recs(f)) /\ id \in Injection(1 .. n, Recs(f))
      BY <2>1, <2>2 DEF Surjection, Injection, IsInjective
    <2> QED BY <2>3, <2>4, FS_Surjection
  <1>5. ASSUME f # <<>> PROVE \E last \in Recs(f) : \A i \in Recs(f) : i <= last
    <2>1. Recs(f) # {}
      <3>1. 1 \in DOMAIN f
        BY <1>5 DEF OfLife
      <3> QED BY <3>1 DEF Recs
    <2>2. Recs(f) \in SUBSET Nat
      BY <1>1, <1>3
    <2>3. IsFiniteSet(Recs(f))
      BY <1>1, <1>3, UpToFinite, FS_Subset
    <2> QED BY <2>1, <2>2, <2>3, Largest
  <1> QED
    BY <1>3, <1>4, <1>5

LEMMA CompleteShown ==
    LedgerInv /\ ledger # <<>> /\ Missing = {} /\ ClocksTell => Projection(ledger) = History
  <1> SUFFICES ASSUME LedgerInv, ledger # <<>>, Missing = {}, ClocksTell PROVE Projection(ledger) = History
    OBVIOUS
  <1>1. Life(happened) /\ OfLife(ledger, happened)
    BY DEF LedgerInv
  <1>2. PICK last \in Recs(ledger) : \A i \in Recs(ledger) : i <= last
    BY <1>1, RecordsFacts
  <1>3. DOMAIN happened \subseteq Recs(ledger)
    BY DEF Missing, Recorded, Recs
  <1>4. Tells(ledger)
    BY DEF ClocksTell, Tells
  <1>5. Projection(ledger) = Lived(happened)
    <2> DEFINE known == FALSE
    <2>1. known \in BOOLEAN /\ (known => \A i \in DOMAIN happened \ Recs(ledger) : Silent(happened, i))
      OBVIOUS
    <2> HIDE DEF known
    <2> QED BY <1>1, <1>2, <1>3, <1>4, <2>1, ProjectionShows
  <1> QED
    BY <1>5 DEF History

LEMMA NothingOvercounted == LedgerInv => NeverOvercounts
  <1> DEFINE shown == Projection(ledger)
  <1> SUFFICES ASSUME LedgerInv, ClocksTell, shown.ok
               PROVE  /\ shown.repairs <= History.repairs
                      /\ \E e \in Recorded : happened[e].state = shown.state /\ \A f \in Recorded : f <= e
                      /\ MergeKnown => shown.merged \subseteq History.merged
    BY DEF NeverOvercounts
  <1>1. Life(happened) /\ OfLife(ledger, happened) /\ Recorded = Recs(ledger)
    BY DEF LedgerInv, Recorded, Recs
  <1>2. ledger # <<>>
    <2>1. ASSUME ledger = <<>> PROVE FALSE
      <3>1. shown = [Opened EXCEPT !.ok = FALSE]
        BY <2>1 DEF Projection
      <3>2. ~shown.ok
        <4> HIDE DEF shown
        <4> QED BY <3>1 DEF Opened
      <3> QED BY <3>2
    <2> QED BY <2>1
  <1>3. PICK last \in Recs(ledger) : \A i \in Recs(ledger) : i <= last
    BY <1>1, <1>2, RecordsFacts
  <1>4. Tells(ledger)
    BY DEF ClocksTell, Tells
  <1> DEFINE known == MergeKnown
  <1>5. known \in BOOLEAN /\ (known => \A i \in DOMAIN happened \ Recs(ledger) : Silent(happened, i))
    BY <1>1 DEF MergeKnown, Missing, Silent
  <1>6. Claims(happened, last, shown, known)
    <2> HIDE DEF known
    <2> QED BY <1>1, <1>2, <1>3, <1>4, <1>5, ProjectionShows
  <1> HIDE DEF shown, known
  <1>7. /\ shown.state = happened[last].state
        /\ shown.repairs \in Nat /\ shown.repairs <= Cardinality(EnteredBy(happened, "repairing", last))
        /\ known => shown.merged \subseteq MergedBy(happened, last)
    BY <1>6 DEF Claims
  <1>8. \A st : EnteredBy(happened, st, last) \subseteq Entered(happened, st)
    BY DEF EnteredBy
  <1>9. History.repairs = Cardinality(Entered(happened, "repairing"))
        /\ History.merged = {ReferenceAt(happened, k) : k \in Entered(happened, "merged")} \ {NoRef}
    BY DEF History, Lived
  <1>10. shown.repairs <= History.repairs
    <2>1. IsFiniteSet(Entered(happened, "repairing"))
      <3>1. Entered(happened, "repairing") \subseteq 1 .. Len(happened)
        BY <1>1, LifeFacts DEF Entered
      <3> QED BY <3>1, <1>1, LifeFacts, UpToFinite, FS_Subset
    <2>2. Cardinality(EnteredBy(happened, "repairing", last)) <= Cardinality(Entered(happened, "repairing"))
      BY <1>8, <2>1, FS_Subset
    <2>3. Cardinality(EnteredBy(happened, "repairing", last)) \in Nat /\ Cardinality(Entered(happened, "repairing")) \in Nat
      BY <1>1, <2>1, EnteredFinite, FS_CardinalityType
    <2> DEFINE counted == Cardinality(EnteredBy(happened, "repairing", last))
               all == Cardinality(Entered(happened, "repairing"))
    <2>4. counted \in Nat /\ all \in Nat /\ counted <= all /\ shown.repairs \in Nat /\ shown.repairs <= counted
          /\ History.repairs = all
      BY <2>2, <2>3, <1>7, <1>9
    <2> HIDE DEF counted, all
    <2> QED BY <2>4
  <1>11. \E e \in Recorded : happened[e].state = shown.state /\ \A f \in Recorded : f <= e
    BY <1>1, <1>3, <1>7
  <1>12. ASSUME MergeKnown PROVE shown.merged \subseteq History.merged
    <2>1. shown.merged \subseteq MergedBy(happened, last)
      BY <1>7, <1>12 DEF known
    <2>2. MergedBy(happened, last) \subseteq {ReferenceAt(happened, k) : k \in Entered(happened, "merged")} \ {NoRef}
      BY <1>8 DEF MergedBy
    <2> QED BY <2>1, <2>2, <1>9
  <1> QED
    BY <1>10, <1>11, <1>12

\* A clock that never falls back from one event to the next never does.
LEMMA ClockForward ==
    ASSUME NEW h, Life(h), \A k \in 2 .. Len(h) : h[k - 1].at <= h[k].at,
           NEW a \in 1 .. Len(h), NEW b \in 1 .. Len(h), a <= b
    PROVE  h[a].at <= h[b].at
  <1>1. Len(h) \in Nat /\ \A k \in 1 .. Len(h) : h[k].at \in Int
    <2>1. \A e \in Event : e.at \in Int
      BY DEF Event
    <2> QED BY <2>1, LifeFacts
  <1> DEFINE Bad == {k \in a .. Len(h) : ~(h[a].at <= h[k].at)}
  <1>2. Bad = {}
    <2>1. SUFFICES ASSUME Bad # {} PROVE FALSE
      OBVIOUS
    <2>2. Bad \in SUBSET Nat
      BY <1>1
    <2>3. PICK k \in Bad : \A m \in Bad : k <= m
      <3> HIDE DEF Bad
      <3> QED BY <2>1, <2>2, Smallest
    <2>4. k \in a .. Len(h) /\ ~(h[a].at <= h[k].at)
      OBVIOUS
    <2>5. k # a
      BY <2>4, <1>1
    <2>6. k \in 2 .. Len(h) /\ k - 1 \in a .. Len(h) /\ k - 1 \in 1 .. Len(h) /\ k \in 1 .. Len(h) /\ ~(k <= k - 1)
      BY <2>4, <2>5, <1>1
    <2>7. k - 1 \notin Bad
      <3> HIDE DEF Bad
      <3> QED BY <2>3, <2>6
    <2>8. h[a].at <= h[k - 1].at /\ h[k - 1].at <= h[k].at
      BY <2>6, <2>7
    <2> QED BY <2>4, <2>6, <2>8, <1>1
  <1> QED
    BY <1>1, <1>2

LEMMA MigratedLife ==
    ASSUME NEW h, Life(h)
    PROVE  /\ Life(Migrated(h)) /\ OfLife(Migrated(h), Migrated(h))
           /\ DOMAIN Migrated(h) = DOMAIN h /\ Len(Migrated(h)) = Len(h)
           /\ \A k \in DOMAIN h : /\ Migrated(h)[k].id = k /\ Migrated(h)[k].at = h[k].at
                                  /\ Migrated(h)[k].state = h[k].state
  <1> DEFINE m == Migrated(h)
             n == Len(h)
  <1>1. n \in Nat \ {0} /\ DOMAIN h = 1 .. n
    BY LifeFacts
  <1>2. m = [k \in 1 .. n |-> [h[k] EXCEPT !.ref = NoRef]]
    BY <1>1 DEF Migrated
  <1> HIDE DEF m, n
  <1>3. ASSUME NEW k \in 1 .. n
        PROVE  /\ m[k] \in Event /\ m[k].id = k /\ m[k].at = h[k].at /\ m[k].state = h[k].state
    <2> DEFINE v == h[k]
    <2>1. v \in Event /\ v.id = k
      BY <1>1 DEF Life
    <2>2. m[k] = [v EXCEPT !.ref = NoRef]
      BY <1>2
    <2> HIDE DEF v
    <2>3. /\ v.id \in Nat /\ v.state \in FactoryState /\ v.at \in Int
          /\ m[k] = [id |-> v.id, state |-> v.state, at |-> v.at, ref |-> NoRef]
      BY <2>1, <2>2 DEF Event
    <2>4. m[k] \in Event
      BY <2>3 DEF Event
    <2>5. m[k].id = v.id /\ m[k].state = v.state /\ m[k].at = v.at
      BY <2>3
    <2> QED BY <2>1, <2>4, <2>5 DEF v
  <1>4. m \in [1 .. n -> Event]
    BY <1>2, <1>3
  <1>5. m \in Seq(Event) /\ Len(m) = n /\ DOMAIN m = 1 .. n /\ 1 \in 1 .. n /\ m # <<>>
    BY <1>1, <1>4
  <1>6. ASSUME NEW k \in 2 .. n
        PROVE  m[k - 1].state = m[k].state \/ <<m[k - 1].state, m[k].state>> \in FactoryEdges
    <2>1. k \in 1 .. n /\ k - 1 \in 1 .. n
      BY <1>1
    <2>2. h[k - 1].state = h[k].state \/ <<h[k - 1].state, h[k].state>> \in FactoryEdges
      BY DEF Life, n
    <2> QED BY <1>3, <2>1, <2>2
  <1>7. Life(m)
    BY <1>3, <1>5, <1>6 DEF Life
  <1>8. OfLife(m, m)
    BY <1>3, <1>5 DEF OfLife, Distinct, Entry
  <1> QED
    BY <1>1, <1>3, <1>5, <1>7, <1>8 DEF m, n

LEMMA EngineReplayed == LedgerInv => ReplaysMigrated
  <1> DEFINE h == happened
             m == Migrated(happened)
             n == Len(happened)
  <1> SUFFICES ASSUME LedgerInv, \A k \in 2 .. Len(happened) : happened[k - 1].at <= happened[k].at
               PROVE  /\ Projection(m).ok /\ Projection(m).state = History.state
                      /\ Projection(m).repairs = History.repairs
    BY DEF ReplaysMigrated
  <1>1. Life(h)
    BY DEF LedgerInv
  <1>2. /\ Life(m) /\ OfLife(m, m) /\ DOMAIN m = 1 .. n /\ Len(m) = n /\ n \in Nat \ {0}
        /\ \A k \in 1 .. n : m[k].id = k /\ m[k].at = h[k].at /\ m[k].state = h[k].state
    BY <1>1, MigratedLife, LifeFacts
  <1>3. \A k \in 1 .. n : h[k].at \in Int
    <2>1. \A e \in Event : e.at \in Int
      BY DEF Event
    <2> QED BY <2>1, <1>1, LifeFacts
  <1>4. \A a, b \in 1 .. n : a <= b => h[a].at <= h[b].at
    BY <1>1, ClockForward
  <1> HIDE DEF m, n
  <1>5. Tells(m)
    <2>1. SUFFICES ASSUME NEW i \in 1 .. n, NEW j \in 1 .. n, m[i].id < m[j].id
                   PROVE  m[i].at < m[j].at \/ (m[i].at = m[j].at /\ i < j)
      BY <1>2 DEF Tells
    <2>2. i < j /\ h[i].at <= h[j].at
      BY <1>2, <1>4, <2>1
    <2> QED BY <2>2, <1>2, <1>3
  <1>6. DOMAIN m \subseteq Recs(m) /\ n \in Recs(m) /\ \A i \in Recs(m) : i <= n
    <2>1. \A k \in 1 .. n : m[k].id = k
      BY <1>2
    <2>2. Recs(m) = 1 .. n
      BY <1>2, <2>1 DEF Recs
    <2> QED BY <1>2, <2>2
  <1>7. Projection(m) = Lived(m)
    <2> DEFINE known == FALSE
    <2>1. known \in BOOLEAN /\ (known => \A i \in DOMAIN m \ Recs(m) : Silent(m, i))
      OBVIOUS
    <2> HIDE DEF known
    <2>2. m # <<>>
      BY <1>2 DEF Life
    <2> QED BY <1>2, <1>5, <1>6, <2>1, <2>2, ProjectionShows
  <1>8. Projection(m).ok /\ Projection(m).state = m[n].state
        /\ Projection(m).repairs = Cardinality(Entered(m, "repairing"))
    BY <1>2, <1>7 DEF Lived
  <1>9. m[n].state = h[n].state
    BY <1>2
  <1>10. Entered(m, "repairing") = Entered(h, "repairing")
    <2>1. DOMAIN h = 1 .. n
      BY <1>1, LifeFacts DEF n
    <2>2. \A k \in 1 .. n : k > 1 => k - 1 \in 1 .. n
      BY <1>2
    <2> QED BY <2>1, <2>2, <1>2 DEF Entered
  <1>11. History.state = h[n].state /\ History.repairs = Cardinality(Entered(h, "repairing"))
    BY DEF History, Lived, n
  <1> QED
    BY <1>8, <1>9, <1>10, <1>11

\* Once the ledger holds everything that happened, and its times tell the
\* order, `projection` is what the unit went through, in whatever order and
\* however often its events were appended; with gaps it refuses to fold or
\* shows the last recorded state, no repair that was none and no merge of
\* another change request; and an orchestrator document converted to events
\* replays to the engine's state (event_ledger.py, `append`, `projection`,
\* `_fold`, `events_from_orchestrator_document`).
THEOREM ProjectionTellsHistory == LedgerSpec => []ProjectsHistory
  <1>1. LedgerInv => ProjectsHistory
    <2> SUFFICES ASSUME LedgerInv PROVE ProjectsHistory
      OBVIOUS
    <2>1. Cardinality(Recorded) = Len(ledger)
      <3>1. Recorded = Recs(ledger)
        BY DEF Recorded, Recs
      <3> QED BY <3>1, RecordsFacts DEF LedgerInv
    <2> QED BY <2>1, CompleteShown, NothingOvercounted, EngineReplayed DEF ProjectsHistory
  <1> QED
    BY <1>1, LedgerInvInit, LedgerInvNext, PTL DEF LedgerSpec

-----------------------------------------------------------------------------
(* The backlog's tree.                                                     *)

\* What a listing says of its parent's children: each was one of them.
ListingTold(l) ==
    /\ l.from \in Listed /\ l.said \in Listed \cup {Unsaid}
    /\ \A e \in l.entries : /\ e.child \in Number /\ l.from \in had[e.child]
                            /\ e.ref \in {l.from, Unsaid}
                            /\ l.said \in {l.from, Unsaid} \/ e.ref = l.from

\* The payload counts the children of one moment.
CountedAt(doc, f) == \A n \in Number : doc.total[n] # Unsaid => doc.total[n] = Cardinality({c \in Number : f[c] = n})

\* At most one issue has moved since the first fetch, when the families were `old`:
\* a whole listing holds those who stayed.
OneMove(old) ==
    /\ moves = 0 => old = family
    /\ \A n \in Number : had[n] = {old[n], family[n]}
    /\ \A a, b \in Number : old[a] # family[a] /\ old[b] # family[b] => a = b
    /\ \A l \in listings : l.whole =>
          \A c \in Number : old[c] = l.from /\ family[c] = l.from => \E e \in l.entries : e.child = c
    /\ \A doc \in payload : CountedAt(doc, old) \/ CountedAt(doc, family)

BacklogTypes ==
    /\ moves \in Nat /\ (payload = {} /\ listings = {} => moves = 0)
    /\ family \in [Number -> Listed \cup {Top}]
    /\ had \in [Number -> SUBSET (Listed \cup {Top})] /\ \A n \in Number : family[n] \in had[n]
    /\ \A doc \in payload : doc.numbers \subseteq Number
    /\ \A l \in listings : ListingTold(l)

BacklogInv == BacklogTypes /\ (moves <= 1 => \E old : OneMove(old))

LEMMA BacklogInvInit == BacklogInit => BacklogInv
  <1> SUFFICES ASSUME BacklogInit PROVE BacklogInv
    OBVIOUS
  <1>1. /\ family \in [Number -> Listed \cup {Top}]
        /\ payload = {} /\ listings = {} /\ moves = 0 /\ had = [n \in Number |-> {family[n]}]
    BY DEF BacklogInit, Families
  <1>2. OneMove(family)
    BY <1>1 DEF OneMove
  <1>3. BacklogTypes
    BY <1>1 DEF BacklogTypes
  <1> QED
    BY <1>2, <1>3 DEF BacklogInv

LEMMA KeepFetchIssues == ASSUME BacklogInv, FetchIssues PROVE BacklogInv'
  <1>1. payload = {} /\ UNCHANGED <<family, listings, had, moves>>
    BY DEF FetchIssues
  <1>2. PICK gone \in {{}} \cup {{n} : n \in Number}, summaries \in BOOLEAN :
           payload' = {[numbers |-> Number \ gone,
                        total |-> [n \in Number |-> IF summaries THEN Cardinality(ChildrenOf(n)) ELSE Unsaid]]}
    BY DEF FetchIssues
  <1>3. ASSUME NEW doc \in payload' PROVE doc.numbers \subseteq Number /\ CountedAt(doc, family)
    <2>1. /\ doc.numbers = Number \ gone
          /\ doc.total = [n \in Number |-> IF summaries THEN Cardinality(ChildrenOf(n)) ELSE Unsaid]
      BY <1>2
    <2> QED BY <2>1 DEF CountedAt, ChildrenOf
  <1>4. BacklogTypes'
    BY <1>1, <1>2, <1>3 DEF BacklogInv, BacklogTypes, ListingTold
  <1>5. ASSUME moves' <= 1 PROVE \E old : OneMove(old)'
    <2>1. PICK old : OneMove(old)
      BY <1>1, <1>5 DEF BacklogInv
    <2>2. OneMove(old)'
      BY <1>1, <1>3, <2>1 DEF OneMove, CountedAt
    <2> QED BY <2>2
  <1> QED
    BY <1>4, <1>5 DEF BacklogInv

LEMMA KeepFetchListing == ASSUME BacklogInv, NEW p \in Listed, FetchListing(p) PROVE BacklogInv'
  <1>1. UNCHANGED <<family, payload, had, moves>>
    BY DEF FetchListing
  <1>2. PICK page \in SUBSET ChildrenOf(p), said \in Listed \cup {Unsaid}, ref \in {p, Unsaid} :
          /\ said \in {p, Unsaid} \/ ref = p
          /\ listings' = listings \cup
                {[from |-> p, whole |-> page = ChildrenOf(p), said |-> said,
                  entries |-> {[child |-> c, ref |-> ref] : c \in page}]}
    BY DEF FetchListing
  <1> DEFINE entries == {[child |-> c, ref |-> ref] : c \in page}
             whole == page = ChildrenOf(p)
             new == [from |-> p, whole |-> whole, said |-> said, entries |-> entries]
  <1>3. listings' = listings \cup {new}
    BY <1>2
  <1>4. \A e \in entries : e.child \in page /\ e.ref = ref
    OBVIOUS
  <1>5. \A c \in page : \E e \in entries : e.child = c
    <2> TAKE c \in page
    <2>1. [child |-> c, ref |-> ref] \in entries
      OBVIOUS
    <2> HIDE DEF entries
    <2> QED BY <2>1
  <1> HIDE DEF entries, whole
  <1>6. new.from = p /\ new.whole = whole /\ new.said = said /\ new.entries = entries
    OBVIOUS
  <1> HIDE DEF new
  <1>7. \A c \in page : c \in Number /\ family[c] = p
    BY DEF ChildrenOf
  <1>8. ListingTold(new)
    BY <1>2, <1>4, <1>6, <1>7 DEF ListingTold, BacklogInv, BacklogTypes
  <1>9. BacklogTypes'
    BY <1>1, <1>3, <1>8 DEF BacklogInv, BacklogTypes, ListingTold
  <1>10. ASSUME moves' <= 1 PROVE \E old : OneMove(old)'
    <2>1. PICK old : OneMove(old)
      BY <1>1, <1>10 DEF BacklogInv
    <2>2. new.whole => \A c \in Number : family[c] = new.from => \E e \in new.entries : e.child = c
      BY <1>5, <1>6 DEF whole, ChildrenOf
    <2>3. OneMove(old)'
      BY <1>1, <1>3, <2>1, <2>2 DEF OneMove, CountedAt
    <2> QED BY <2>3
  <1> QED
    BY <1>9, <1>10 DEF BacklogInv

LEMMA KeepMove == ASSUME BacklogInv, NEW n \in Number, NEW p \in Listed \cup {Top}, MoveIssue(n, p) PROVE BacklogInv'
  <1> DEFINE ongoing == payload # {} \/ listings # {}
  <1>1. /\ family' = [family EXCEPT ![n] = p]
        /\ had' = [had EXCEPT ![n] = (IF ongoing THEN @ ELSE {}) \cup {p}]
        /\ moves' = IF ongoing THEN moves + 1 ELSE moves
        /\ UNCHANGED <<payload, listings>>
    BY DEF MoveIssue
  <1>2. BacklogTypes
    BY DEF BacklogInv
  <1>3. family' \in [Number -> Listed \cup {Top}] /\ had' \in [Number -> SUBSET (Listed \cup {Top})]
    BY <1>1, <1>2 DEF BacklogTypes
  <1>4. family'[n] = p /\ \A c \in Number : c # n => family'[c] = family[c] /\ had'[c] = had[c]
    BY <1>1, <1>2 DEF BacklogTypes
  <1>5. had'[n] = (IF ongoing THEN had[n] ELSE {}) \cup {p}
    BY <1>1, <1>2 DEF BacklogTypes
  <1>6. ongoing => \A c \in Number : had[c] \subseteq had'[c]
    BY <1>4, <1>5
  <1>7. BacklogTypes'
    <2>1. \A c \in Number : family'[c] \in had'[c]
      BY <1>2, <1>4, <1>5 DEF BacklogTypes
    <2>2. ASSUME NEW l \in listings PROVE ListingTold(l)'
      BY <1>2, <1>6 DEF BacklogTypes, ListingTold
    <2>3. moves' \in Nat /\ (~ongoing => moves' = 0)
      BY <1>1, <1>2 DEF BacklogTypes
    <2> QED BY <1>1, <1>2, <1>3, <2>1, <2>2, <2>3 DEF BacklogTypes
  <1>8. ASSUME moves' <= 1 PROVE \E old : OneMove(old)'
    <2>1. moves = 0
      BY <1>1, <1>2, <1>8 DEF BacklogTypes
    <2>2. PICK old : OneMove(old)
      BY <2>1 DEF BacklogInv
    <2>3. old = family /\ \A c \in Number : had[c] = {family[c]}
      BY <2>1, <2>2 DEF OneMove
    <2>4. CASE ongoing
      <3>1. PICK before : before = family
        OBVIOUS
      <3>2. \A c \in Number : had'[c] = {before[c], family'[c]}
        BY <1>4, <1>5, <2>3, <2>4, <3>1
      <3>3. \A a, b \in Number : before[a] # family'[a] /\ before[b] # family'[b] => a = b
        BY <1>4, <3>1
      <3>4. moves' # 0
        BY <1>1, <2>1, <2>4
      <3>5. OneMove(before)'
        BY <1>1, <2>2, <2>3, <3>1, <3>2, <3>3, <3>4 DEF OneMove, CountedAt
      <3> QED BY <3>5
    <2>5. CASE ~ongoing
      <3>1. PICK after : after = family'
        OBVIOUS
      <3>2. OneMove(after)'
        BY <1>1, <1>4, <1>5, <2>3, <2>5, <3>1 DEF OneMove
      <3> QED BY <3>2
    <2> QED BY <2>4, <2>5
  <1> QED
    BY <1>7, <1>8 DEF BacklogInv

LEMMA BacklogInvNext == BacklogInv /\ [BacklogNext]_backlogVars => BacklogInv'
  <1> SUFFICES ASSUME BacklogInv, [BacklogNext]_backlogVars PROVE BacklogInv'
    OBVIOUS
  <1>1. CASE FetchIssues
    BY <1>1, KeepFetchIssues
  <1>2. CASE \E p \in Listed : FetchListing(p)
    BY <1>2, KeepFetchListing
  <1>3. CASE \E n \in Number, p \in Listed \cup {Top} : MoveIssue(n, p)
    BY <1>3, KeepMove
  <1>4. CASE UNCHANGED backlogVars
    BY <1>4 DEF backlogVars, BacklogInv, BacklogTypes, ListingTold, OneMove, CountedAt
  <1> QED
    BY <1>1, <1>2, <1>3, <1>4 DEF BacklogNext

\* A usable file of sub-issues maps its records to the parent it was fetched for.
LEMMA LinkIsOfItsListing ==
    ASSUME BacklogTypes, ~LinksRefused(listings), NEW l \in listings, NEW e \in l.entries
    PROVE  ParentIn(l, e) = l.from
  <1>1. ListingTold(l) /\ ~Unusable(l)
    BY DEF BacklogTypes, LinksRefused
  <1>2. IF l.said = Unsaid THEN e.ref # Unsaid ELSE e.ref \in {Unsaid, l.said}
    BY <1>1 DEF Unusable
  <1>3. l.from \in Listed /\ e.ref \in {l.from, Unsaid} /\ (l.said \in {l.from, Unsaid} \/ e.ref = l.from)
    BY <1>1 DEF ListingTold
  <1> QED
    BY <1>2, <1>3, BacklogAssumption DEF ParentIn

LEMMA LinksAreFamily ==
    ASSUME BacklogTypes, ~LinksRefused(listings), NEW a \in Links(listings)
    PROVE  a[1] \in Number /\ a[2] \in had[a[1]] /\ a = <<a[1], a[2]>>
  <1>1. PICK l \in listings : \E d \in l.entries : a = <<d.child, ParentIn(l, d)>>
    BY DEF Links
  <1>2. PICK e \in l.entries : a = <<e.child, ParentIn(l, e)>>
    BY <1>1
  <1>3. a = <<e.child, l.from>>
    BY <1>2, LinkIsOfItsListing
  <1>4. e.child \in Number /\ l.from \in had[e.child]
    BY DEF BacklogTypes, ListingTold
  <1> QED
    BY <1>3, <1>4

LEMMA LinkOf ==
    ASSUME BacklogTypes, ~LinksRefused(listings), NEW l \in listings, NEW e \in l.entries
    PROVE  <<e.child, l.from>> \in Links(listings)
  <1>1. ParentIn(l, e) = l.from
    BY LinkIsOfItsListing
  <1> QED
    BY <1>1 DEF Links

\* Where the listings are fewer than a counted parent's children, the export is
\* refused as truncated.
LEMMA CountsCatch ==
    ASSUME BacklogTypes, NEW doc \in payload, Exported(doc), NEW p \in DeclaredParents(listings) \cap doc.numbers,
           doc.total[p] # Unsaid, NEW f, CountedAt(doc, f), NEW x \in Number, f[x] = p,
           \A a \in Links(listings) : a[2] = p => a[1] # x /\ f[a[1]] = p
    PROVE  FALSE
  <1> DEFINE mapped == {a \in Links(listings) : a[2] = p}
             kids == {c \in Number : f[c] = p}
             first == [a \in mapped |-> a[1]]
  <1>1. p \in Number /\ ~LinksRefused(listings)
    BY DEF BacklogTypes, Exported
  <1>2. doc.total[p] = Cardinality(kids) /\ ~(doc.total[p] > Cardinality(mapped))
    BY <1>1 DEF CountedAt, Exported, Truncated
  <1>3. IsFiniteSet(kids) /\ IsFiniteSet(kids \ {x}) /\ Cardinality(kids \ {x}) = Cardinality(kids) - 1
    <2>1. IsFiniteSet(kids)
      BY BacklogAssumption, FS_Subset
    <2>2. x \in kids
      OBVIOUS
    <2> QED BY <2>1, <2>2, FS_RemoveElement
  <1>4. \A a \in mapped : a[1] \in Number /\ a = <<a[1], p>> /\ a[1] \in kids \ {x}
    <2> TAKE a \in mapped
    <2>1. a[1] \in Number /\ a = <<a[1], a[2]>> /\ a[2] = p
      BY <1>1, LinksAreFamily
    <2> QED BY <2>1
  <1>5. first \in Injection(mapped, kids \ {x})
    <2>1. first \in [mapped -> kids \ {x}]
      BY <1>4
    <2>2. \A a, b \in mapped : first[a] = first[b] => a = b
      BY <1>4
    <2> QED BY <2>1, <2>2 DEF Injection, IsInjective
  <1> HIDE DEF mapped, kids, first
  <1>6. IsFiniteSet(mapped) /\ Cardinality(mapped) <= Cardinality(kids \ {x})
    BY <1>3, <1>5, FS_Injection
  <1>7. Cardinality(kids) \in Nat /\ Cardinality(mapped) \in Nat
    BY <1>3, <1>6, FS_CardinalityType
  <1> QED
    BY <1>2, <1>3, <1>6, <1>7

\* An issue that had a listed parent at every moment is mapped to one.
LEMMA NoneLeftOut ==
    ASSUME BacklogInv, NEW doc \in payload, Exported(doc), NEW x \in doc.numbers,
           had[x] \subseteq doc.numbers \ {Top}, \A p \in had[x] : doc.total[p] # Unsaid,
           had[x] \subseteq DeclaredParents(listings),
           moves = 0 \/ (moves = 1 /\ \A l \in listings : l.whole),
           \A a \in Links(listings) : a[1] # x
    PROVE  FALSE
  <1>1. BacklogTypes /\ x \in Number /\ ~LinksRefused(listings) /\ {l.from : l \in listings} = Listed
    BY DEF BacklogInv, BacklogTypes, Exported
  <1>2. PICK old : OneMove(old)
    BY <1>1 DEF BacklogInv, BacklogTypes
  <1>3. had[x] = {old[x], family[x]}
    BY <1>1, <1>2 DEF OneMove
  <1>4. CASE moves = 0 \/ old[x] # family[x]
    <2>1. \A c \in Number : c # x => old[c] = family[c] /\ had[c] = {family[c]}
      BY <1>1, <1>2, <1>4 DEF OneMove
    <2>2. \A a \in Links(listings) : a[1] # x /\ old[a[1]] = a[2] /\ family[a[1]] = a[2]
      BY <1>1, <2>1, LinksAreFamily
    <2>3. CASE CountedAt(doc, old)
      <3>1. old[x] \in DeclaredParents(listings) \cap doc.numbers /\ doc.total[old[x]] # Unsaid
        BY <1>3
      <3> QED BY <1>1, <2>2, <2>3, <3>1, CountsCatch
    <2>4. CASE CountedAt(doc, family)
      <3>1. family[x] \in DeclaredParents(listings) \cap doc.numbers /\ doc.total[family[x]] # Unsaid
        BY <1>3
      <3> QED BY <1>1, <2>2, <2>4, <3>1, CountsCatch
    <2> QED BY <1>2, <2>3, <2>4 DEF OneMove
  <1>5. CASE moves = 1 /\ (\A l \in listings : l.whole) /\ old[x] = family[x]
    <2>1. family[x] \in Listed
      <3>1. family[x] \in Listed \cup {Top} /\ family[x] \in had[x]
        BY <1>1 DEF BacklogTypes
      <3> QED BY <3>1
    <2>2. PICK l \in listings : l.from = family[x]
      BY <1>1, <2>1
    <2>3. PICK e \in l.entries : e.child = x
      BY <1>1, <1>2, <1>5, <2>2 DEF OneMove
    <2>4. <<x, l.from>> \in Links(listings)
      BY <1>1, <2>3, LinkOf
    <2> QED BY <2>4
  <1> QED
    BY <1>4, <1>5

\* An item's ancestors, level by level.
LEMMA Ancestry ==
    ASSUME NEW forest, NEW i \in forest
    PROVE  /\ Ancestor(forest, i)[0] = {i}
           /\ \A n \in 1 .. MaxLevels :
                 Ancestor(forest, i)[n] = UNION {Above(forest, p) : p \in Ancestor(forest, i)[n - 1]}
           /\ \A n \in 0 .. MaxLevels : Ancestor(forest, i)[n] \subseteq forest
  <1> DEFINE D == SUBSET forest
             Risen(S) == UNION {Above(forest, p) : p \in S}
             advance == [S \in D |-> Risen(S)]
             A == 0 .. MaxLevels
             body(g) == [n \in 0 .. MaxLevels |-> IF n = 0 THEN {i} ELSE UNION {Above(forest, p) : p \in g[n - 1]}]
             up == CHOOSE g : g = body(g)
  <1>1. MaxLevels \in Nat /\ 0 \in Nat /\ {i} \in D
    BY BacklogAssumption
  <1>2. \A S \in D : Risen(S) \in D
    BY DEF Above
  <1>3. advance \in [D -> D]
    <2> HIDE DEF D, Risen
    <2> QED BY <1>2
  <1>4. PICK g \in [0 .. MaxLevels -> D] : \A n \in 0 .. MaxLevels : g[n] = IF n = 0 THEN {i} ELSE advance[g[n - 1]]
    <2> HIDE DEF D, advance
    <2>1. \E g \in [0 .. MaxLevels -> D] : Climbs(g, {i}, advance, 0, MaxLevels)
      BY <1>1, <1>3, Iterates
    <2> QED BY <2>1 DEF Climbs
  <1>5. (\A n \in A : n # 0 => n - 1 \in A) /\ 0 \in A /\ \A n \in 1 .. MaxLevels : n \in A /\ n # 0
    BY <1>1
  <1>6. g = body(g)
    <2>1. ASSUME NEW n \in A PROVE g[n] = body(g)[n]
      <3>1. CASE n = 0
        BY <1>4, <3>1
      <3>2. CASE n # 0
        <4>1. g[n - 1] \in D
          BY <1>4, <1>5, <3>2
        <4>2. advance[g[n - 1]] = Risen(g[n - 1])
          <5> HIDE DEF Risen, D
          <5> QED BY <4>1
        <4> HIDE DEF advance
        <4> QED BY <1>4, <3>2, <4>2
      <3> QED BY <3>1, <3>2
    <2> DEFINE b == body(g)
    <2>2. g = [n \in A |-> g[n]] /\ b = [n \in A |-> b[n]] /\ \A n \in A : g[n] = b[n]
      BY <1>4, <2>1
    <2> HIDE DEF b, A, body
    <2>3. g = b
      BY <2>2
    <2> QED BY <2>3 DEF b
  <1>7. up = body(up)
    <2> HIDE DEF body
    <2> QED BY <1>6, Zenon
  <1>8. Ancestor(forest, i) = up
    BY DEF Ancestor
  <1> HIDE DEF up
  <1>9. \A n \in A : up[n] = IF n = 0 THEN {i} ELSE Risen(up[n - 1])
    <2>1. \A n \in A : body(up)[n] = IF n = 0 THEN {i} ELSE Risen(up[n - 1])
      OBVIOUS
    <2> HIDE DEF body, A, Risen
    <2> QED BY <1>7, <2>1
  <1>10. \A n \in A : up[n] \subseteq forest
    <2>1. \A S : Risen(S) \subseteq forest
      BY DEF Above
    <2> HIDE DEF Risen, A
    <2> QED BY <1>9, <2>1
  <1> QED
    BY <1>5, <1>8, <1>9, <1>10

\* A tree no chain of which is too deep is rendered whole.
LEMMA AllRendered ==
    ASSUME NEW forest, ~Looping(forest)
    PROVE  Rendered(forest) = forest
  <1> SUFFICES ASSUME NEW i \in forest
      PROVE  \E n \in 0 .. MaxLevels : Ancestor(forest, i)[n] \cap Roots(forest) # {}
    BY DEF Rendered
  <1>1. PICK up : up = Ancestor(forest, i)
    OBVIOUS
  <1>2. /\ up[0] = {i} /\ up[MaxLevels] = {} /\ MaxLevels \in Nat
        /\ \A n \in 1 .. MaxLevels : up[n] = UNION {Above(forest, p) : p \in up[n - 1]}
        /\ \A n \in 0 .. MaxLevels : up[n] \subseteq forest
    BY <1>1, Ancestry, BacklogAssumption DEF Looping
  <1> DEFINE empty == {n \in Nat : n \in 0 .. MaxLevels /\ up[n] = {}}
  <1>3. PICK n \in empty : \A m \in empty : n <= m
    <2>1. empty \in SUBSET Nat /\ empty # {}
      BY <1>2
    <2> HIDE DEF empty
    <2> QED BY <2>1, Smallest
  <1>4. n \in 1 .. MaxLevels /\ n - 1 \in 0 .. MaxLevels /\ up[n] = {}
    BY <1>2, <1>3
  <1>5. up[n - 1] # {}
    <2>1. n - 1 \in empty => n <= n - 1
      BY <1>3
    <2> QED BY <1>4, <2>1
  <1>6. PICK p \in up[n - 1] : TRUE
    BY <1>5
  <1>7. Above(forest, p) = {} /\ p \in forest
    BY <1>2, <1>4, <1>6
  <1> QED
    BY <1>1, <1>4, <1>6, <1>7 DEF Roots

\* An exported issue's parent is one of its links'.
LEMMA ItemOf ==
    ASSUME BacklogTypes, NEW doc \in payload, ~LinksRefused(listings), NEW i \in IssueItems(doc, listings)
    PROVE  /\ i.provider = "github" /\ i.id \in doc.numbers
           /\ i.parent # Top => i.parent \in had[i.id]
           /\ (\E a \in Links(listings) : a[1] = i.id) => i.parent \in had[i.id] \cap Listed
  <1>1. PICK n \in doc.numbers :
           i = [provider |-> "github", id |-> n,
                parent |-> IF \E a \in Links(listings) : a[1] = n
                           THEN (CHOOSE a \in Links(listings) : a[1] = n)[2] ELSE Top]
    BY DEF IssueItems
  <1> DEFINE link == CHOOSE a \in Links(listings) : a[1] = n
  <1>2. CASE \E a \in Links(listings) : a[1] = n
    <2>1. link \in Links(listings) /\ link[1] = n
      BY <1>2
    <2>2. i.provider = "github" /\ i.id = n /\ i.parent = link[2]
      BY <1>1, <1>2
    <2> HIDE DEF link
    <2>3. PICK l \in listings : \E e \in l.entries : link = <<e.child, ParentIn(l, e)>>
      BY <2>1 DEF Links
    <2>4. link[2] = l.from /\ l.from \in Listed
      BY <2>3, LinkIsOfItsListing DEF BacklogTypes, ListingTold
    <2> QED BY <2>1, <2>2, <2>4, LinksAreFamily
  <1>3. CASE ~\E a \in Links(listings) : a[1] = n
    BY <1>1, <1>3
  <1> QED
    BY <1>2, <1>3

LEMMA TreeWholeHolds == BacklogInv => TreeWhole
  <1> SUFFICES ASSUME BacklogInv, NEW doc \in payload, Exported(doc)
      PROVE  LET forest == IssueItems(doc, listings) \cup OtherItems IN
             /\ Rendered(forest) = forest
             /\ \A i \in forest \ OtherItems :
                   /\ i.parent # Top => i.parent \in had[i.id]
                   /\ \A p \in Above(forest, i) : p \notin OtherItems
                   /\ /\ had[i.id] \subseteq doc.numbers \ {Top}
                      /\ \A p \in had[i.id] : doc.total[p] # Unsaid
                      /\ had[i.id] \subseteq DeclaredParents(listings)
                      /\ moves = 0 \/ (moves = 1 /\ \A l \in listings : l.whole)
                      => /\ i.parent # Top
                         /\ Cardinality(had[i.id]) = 1 => had[i.id] = {i.parent}
    BY DEF TreeWhole
  <1> DEFINE forest == IssueItems(doc, listings) \cup OtherItems
  <1>1. BacklogTypes /\ ~LinksRefused(listings) /\ ~Looping(forest)
    BY DEF BacklogInv, Exported
  <1>2. Rendered(forest) = forest
    <2> HIDE DEF forest
    <2> QED BY <1>1, AllRendered
  <1>3. ASSUME NEW i \in forest \ OtherItems
        PROVE  /\ i.parent # Top => i.parent \in had[i.id]
               /\ \A p \in Above(forest, i) : p \notin OtherItems
               /\ /\ had[i.id] \subseteq doc.numbers \ {Top}
                  /\ \A p \in had[i.id] : doc.total[p] # Unsaid
                  /\ had[i.id] \subseteq DeclaredParents(listings)
                  /\ moves = 0 \/ (moves = 1 /\ \A l \in listings : l.whole)
                  => /\ i.parent # Top
                     /\ Cardinality(had[i.id]) = 1 => had[i.id] = {i.parent}
    <2>1. i \in IssueItems(doc, listings)
      OBVIOUS
    <2>2. /\ i.provider = "github" /\ i.id \in doc.numbers
          /\ i.parent # Top => i.parent \in had[i.id]
          /\ (\E a \in Links(listings) : a[1] = i.id) => i.parent \in had[i.id] \cap Listed
      BY <1>1, <2>1, ItemOf
    <2>3. \A p \in Above(forest, i) : p \notin OtherItems
      BY <2>2, BacklogAssumption DEF Above
    <2>4. ASSUME had[i.id] \subseteq doc.numbers \ {Top},
                 \A p \in had[i.id] : doc.total[p] # Unsaid,
                 had[i.id] \subseteq DeclaredParents(listings),
                 moves = 0 \/ (moves = 1 /\ \A l \in listings : l.whole)
          PROVE  i.parent # Top /\ (Cardinality(had[i.id]) = 1 => had[i.id] = {i.parent})
      <3>1. \E a \in Links(listings) : a[1] = i.id
        BY <2>2, <2>4, NoneLeftOut
      <3>2. i.parent \in had[i.id] /\ i.parent # Top
        BY <2>2, <3>1, BacklogAssumption
      <3>3. ASSUME Cardinality(had[i.id]) = 1 PROVE had[i.id] = {i.parent}
        <4>1. IsFiniteSet(had[i.id])
          <5>1. had[i.id] \subseteq Number
            BY <1>1, <2>2, <2>4 DEF BacklogTypes
          <5> QED BY <5>1, BacklogAssumption, FS_Subset
        <4>2. PICK x : had[i.id] = {x}
          BY <4>1, <3>3, FS_Singleton
        <4> QED BY <3>2, <4>2
      <3> QED BY <3>2, <3>3
    <2> HIDE DEF forest
    <2> QED BY <2>2, <2>3, <2>4
  <1> QED
    BY <1>2, <1>3

\* An export that is not refused is rendered whole, below parents the issues had; with
\* one move, or some short pages, no issue of a listed parent becomes a root
\* (backlog_document_from_issues, parent_links, _build_backlog_tree).
THEOREM TreeWholeAlways == BacklogSpec => []TreeWhole
  <1>1. BacklogSpec => []BacklogInv
    BY BacklogInvInit, BacklogInvNext, PTL DEF BacklogSpec
  <1> QED
    BY <1>1, TreeWholeHolds, PTL

-----------------------------------------------------------------------------
(* The console's incidents of change requests.                             *)

UnitRecord(s) == DOMAIN s = {"state", "seen", "issue", "change", "repo", "merged"}

\* An incident of a change request: whose it is, of which request, and that no
\* label's gate retires it.
RequestIncident(n) ==
    /\ n.about \in ChangeRefs /\ n.of \in Tracker /\ n.provider \in {n.of, Undeclared}
    /\ n.unit \notin WorkUnits => n.unit = NoUnit
    /\ n.unit \in WorkUnits => truth[n.unit].change[n.about] = n.of
    /\ n.kind \in {"merge-conflict", "deterministic-ci-failed", "awaiting-human-merge", "branch-behind", "unclassified"}

CenterTypes ==
    /\ declared \in [Repository -> SUBSET Tracker]
    /\ truth = [u \in WorkUnits |-> truth[u]]
    /\ \A u \in WorkUnits : \A r \in ChangeRefs : truth[u].change[r] \in Registered(r)
    /\ status = [u \in WorkUnits |-> status[u]]
    /\ \A u \in WorkUnits : /\ UnitRecord(status[u])
                            /\ status[u].change \in ChangeRefs \cup {NoRef}
                            /\ status[u].merged \subseteq ChangeRefs
                            /\ status[u].repo \in Repository

\* What was merged is what the units' projections say was, each under its tracker.
MergesKnown ==
    /\ \A u \in WorkUnits : \A r \in status[u].merged : <<truth[u].change[r], r>> \in really
    /\ \A m \in really : \E u \in WorkUnits : m[2] \in status[u].merged /\ m[1] = truth[u].change[m[2]]

CenterInv == CenterTypes /\ MergesKnown /\ \A n \in loaded.incidents : n.item = NoRef => RequestIncident(n)

LEMMA CenterFacts ==
    /\ PullRef \in ChangeRefs /\ RepoOf[IssueRef] \in Repository /\ NoRef \notin ChangeRefs /\ IssueRef # NoRef
    /\ \A r \in ChangeRefs : RepoOf[r] \in Repository
    /\ "github" \in Tracker /\ Undeclared \notin Tracker /\ NoUnit \notin WorkUnits
  BY CenterAssumption DEF ChangeRefs

LEMMA CenterInvInit == CenterInit => CenterInv
  <1> SUFFICES ASSUME CenterInit PROVE CenterInv
    OBVIOUS
  <1>1. /\ declared \in [Repository -> SUBSET Tracker] /\ really = {} /\ loaded.incidents = {}
        /\ truth \in [WorkUnits -> [issue : Registered(IssueRef),
              change : {f \in [ChangeRefs -> Tracker] : \A r \in ChangeRefs : f[r] \in Registered(r)}]]
    BY DEF CenterInit
  <1>2. \A u \in WorkUnits : \A r \in ChangeRefs : truth[u].change[r] \in Registered(r)
    <2> SUFFICES ASSUME NEW u \in WorkUnits, NEW r \in ChangeRefs PROVE truth[u].change[r] \in Registered(r)
      OBVIOUS
    <2>1. truth[u].change \in {f \in [ChangeRefs -> Tracker] : \A q \in ChangeRefs : f[q] \in Registered(q)}
      BY <1>1
    <2> QED BY <2>1
  <1>3. PICK lived \in Histories, issue \in [WorkUnits -> {IssueRef, NoRef}], change \in [WorkUnits -> {PullRef, NoRef}] :
        /\ status = [u \in WorkUnits |->
              [state |-> Last(lived[u]), seen |-> FoldLeft(SeenNow, {}, lived[u]), issue |-> issue[u],
               change |-> change[u], repo |-> RepoOf[IssueRef], merged |-> {}]]
        /\ lap = [u \in WorkUnits |-> {g \in Gates : \E k \in DOMAIN lived[u] :
                      lived[u][k] = g /\ \A j \in k .. Len(lived[u]) : lived[u][j] # "triaged"}]
    BY DEF CenterInit
  <1>4. \A u \in WorkUnits : status[u] =
              [state |-> Last(lived[u]), seen |-> FoldLeft(SeenNow, {}, lived[u]), issue |-> issue[u],
               change |-> change[u], repo |-> RepoOf[IssueRef], merged |-> {}]
    BY <1>3
  <1>5. ASSUME NEW u \in WorkUnits
        PROVE  UnitRecord(status[u]) /\ status[u].change \in ChangeRefs \cup {NoRef} /\ status[u].merged = {}
               /\ status[u].repo \in Repository
    <2> DEFINE s == Last(lived[u])
               h == FoldLeft(SeenNow, {}, lived[u])
    <2>1. status[u] = [state |-> s, seen |-> h, issue |-> issue[u], change |-> change[u],
                                   repo |-> RepoOf[IssueRef], merged |-> {}]
      BY <1>4
    <2> HIDE DEF s, h
    <2>2. status[u].change = change[u] /\ status[u].merged = {} /\ UnitRecord(status[u])
          /\ status[u].repo = RepoOf[IssueRef]
      BY <2>1 DEF UnitRecord
    <2> QED BY <2>2, CenterFacts
  <1>6. status = [u \in WorkUnits |-> status[u]]
    <2> DEFINE G(u) == [state |-> Last(lived[u]), seen |-> FoldLeft(SeenNow, {}, lived[u]), issue |-> issue[u],
               change |-> change[u], repo |-> RepoOf[IssueRef], merged |-> {}]
    <2>1. status = [u \in WorkUnits |-> G(u)]
      BY <1>3
    <2> HIDE DEF G
    <2> QED BY <2>1
  <1>7. truth = [u \in WorkUnits |-> truth[u]]
    BY <1>1
  <1>8. CenterTypes
    BY <1>1, <1>2, <1>5, <1>6, <1>7 DEF CenterTypes
  <1>9. MergesKnown
    BY <1>1, <1>5 DEF MergesKnown
  <1> QED
    BY <1>1, <1>8, <1>9 DEF CenterInv

LEMMA KeepProceed ==
    ASSUME CenterInv, NEW u \in WorkUnits, NEW state, Proceed(u, state) PROVE CenterInv'
  <1> DEFINE change == IF state = "merged" THEN {status[u].change} \ {NoRef} ELSE {}
  <1>1. /\ status' = [status EXCEPT ![u].state = state, ![u].seen = SeenNow(@, state), ![u].merged = @ \cup change]
        /\ really' = really \cup {<<truth[u].change[r], r>> : r \in change}
        /\ UNCHANGED <<declared, truth, loaded>>
    BY DEF Proceed
  <1>2. CenterTypes /\ MergesKnown
    BY DEF CenterInv
  <1>3. change \subseteq ChangeRefs
    BY <1>2 DEF CenterTypes
  <1> HIDE DEF change
  <1>4. status = [w \in WorkUnits |-> status[w]] /\ UnitRecord(status[u])
    BY <1>2 DEF CenterTypes
  <1>5. /\ status' = [w \in WorkUnits |-> status'[w]]
        /\ \A w \in WorkUnits : w # u => status'[w] = status[w]
        /\ status'[u] = [status[u] EXCEPT !.state = state, !.seen = SeenNow(@, state), !.merged = @ \cup change]
    BY <1>1, <1>4
  <1>6. /\ UnitRecord(status'[u]) /\ status'[u].change = status[u].change
        /\ status'[u].merged = status[u].merged \cup change /\ status'[u].repo = status[u].repo
    <2>1. PICK h : h = SeenNow(status[u].seen, state)
      OBVIOUS
    <2>2. status'[u] = [status[u] EXCEPT !.state = state, !.seen = h, !.merged = @ \cup change]
      BY <1>5, <2>1
    <2> QED BY <1>4, <2>2 DEF UnitRecord
  <1>7. CenterTypes'
    <2>1. \A w \in WorkUnits : /\ UnitRecord(status'[w])
                               /\ status'[w].change \in ChangeRefs \cup {NoRef}
                               /\ status'[w].merged \subseteq ChangeRefs
                               /\ status'[w].repo \in Repository
      BY <1>2, <1>3, <1>5, <1>6 DEF CenterTypes
    <2> QED BY <1>1, <1>2, <1>5, <2>1 DEF CenterTypes, Registered
  <1>8. MergesKnown'
    <2>1. ASSUME NEW w \in WorkUnits, NEW r \in status'[w].merged PROVE <<truth[w].change[r], r>> \in really'
      <3>1. CASE r \in status[w].merged
        BY <1>1, <1>2, <3>1 DEF MergesKnown
      <3>2. CASE r \notin status[w].merged
        BY <1>1, <1>5, <1>6, <3>2, <2>1
      <3> QED BY <3>1, <3>2
    <2>2. ASSUME NEW m \in really'
          PROVE  \E w \in WorkUnits : m[2] \in status'[w].merged /\ m[1] = truth[w].change[m[2]]
      <3>1. CASE m \in really
        <4>1. PICK w \in WorkUnits : m[2] \in status[w].merged /\ m[1] = truth[w].change[m[2]]
          BY <1>2, <3>1 DEF MergesKnown
        <4> QED BY <1>5, <1>6, <4>1
      <3>2. CASE m \notin really
        <4>1. PICK r \in change : m = <<truth[u].change[r], r>>
          BY <1>1, <3>2
        <4> QED BY <1>6, <4>1
      <3> QED BY <3>1, <3>2
    <2> QED BY <1>1, <2>1, <2>2 DEF MergesKnown
  <1> QED
    BY <1>1, <1>7, <1>8 DEF CenterInv, RequestIncident

LEMMA KeepRepoint ==
    ASSUME CenterInv, NEW u \in WorkUnits, NEW ref \in ChangeRefs, NEW named, Repoint(u, ref, named) PROVE CenterInv'
  <1>1. /\ status' = [status EXCEPT ![u].change = ref, ![u].repo = IF named THEN RepoOf[ref] ELSE @]
        /\ UNCHANGED <<declared, truth, really, loaded>>
    BY DEF Repoint
  <1>2. CenterTypes /\ MergesKnown
    BY DEF CenterInv
  <1>3. status = [w \in WorkUnits |-> status[w]] /\ UnitRecord(status[u])
    BY <1>2 DEF CenterTypes
  <1>4. /\ status' = [w \in WorkUnits |-> status'[w]]
        /\ \A w \in WorkUnits : w # u => status'[w] = status[w]
        /\ status'[u] = [status[u] EXCEPT !.change = ref, !.repo = IF named THEN RepoOf[ref] ELSE @]
    BY <1>1, <1>3
  <1>5. UnitRecord(status'[u]) /\ status'[u].change = ref /\ status'[u].merged = status[u].merged
        /\ status'[u].repo \in {status[u].repo, RepoOf[ref]}
    <2>1. PICK h : h = IF named THEN RepoOf[ref] ELSE status[u].repo
      OBVIOUS
    <2>2. status'[u] = [status[u] EXCEPT !.change = ref, !.repo = h]
      BY <1>4, <2>1
    <2>3. h \in {status[u].repo, RepoOf[ref]}
      BY <2>1
    <2> QED BY <1>3, <2>2, <2>3 DEF UnitRecord
  <1>6. \A w \in WorkUnits : status'[w].merged = status[w].merged
    BY <1>4, <1>5
  <1>7. CenterTypes'
    <2>1. \A w \in WorkUnits : /\ UnitRecord(status'[w])
                               /\ status'[w].change \in ChangeRefs \cup {NoRef}
                               /\ status'[w].merged \subseteq ChangeRefs
                               /\ status'[w].repo \in Repository
      BY <1>2, <1>4, <1>5, <1>6, CenterFacts DEF CenterTypes
    <2> QED BY <1>1, <1>2, <1>4, <2>1 DEF CenterTypes, Registered
  <1>8. MergesKnown'
    BY <1>1, <1>2, <1>6 DEF MergesKnown
  <1> QED
    BY <1>1, <1>7, <1>8 DEF CenterInv, RequestIncident

LEMMA KeepDocuments ==
    ASSUME CenterInv, NEW incidents, NEW beside, LoadDocuments(incidents, beside),
           \A n \in incidents : n.item = NoRef => RequestIncident(n)
    PROVE  CenterInv'
  <1>1. UNCHANGED <<declared, status, truth, really>> /\ loaded'.incidents = incidents
    BY DEF LoadDocuments
  <1>2. CenterTypes' /\ MergesKnown'
    BY <1>1 DEF CenterInv, CenterTypes, MergesKnown, Registered
  <1>3. \A n : RequestIncident(n) => RequestIncident(n)'
    BY <1>1 DEF RequestIncident
  <1> QED
    BY <1>1, <1>2, <1>3 DEF CenterInv

LEMMA CenterInvNext == CenterInv /\ [CenterNext]_centerVars => CenterInv'
  <1> SUFFICES ASSUME CenterInv, [CenterNext]_centerVars PROVE CenterInv'
    OBVIOUS
  <1>1. CASE \E u \in WorkUnits, state \in Onward : Proceed(u, state)
    BY <1>1, KeepProceed
  <1>2. CASE \E u \in WorkUnits, ref \in ChangeRefs, named \in BOOLEAN : Repoint(u, ref, named)
    BY <1>2, KeepRepoint
  <1>3. ASSUME NEW beside \in Beside, NEW labels \in Labelled, LoadDocuments(LabelIncidents(labels), beside)
        PROVE  CenterInv'
    <2>1. \A n \in LabelIncidents(labels) : n.item = IssueRef
      BY DEF LabelIncidents, AdapterIncident
    <2>2. \A n \in LabelIncidents(labels) : n.item = NoRef => RequestIncident(n)
      BY <2>1, CenterFacts
    <2> QED BY <1>3, <2>2, KeepDocuments
  <1>4. ASSUME NEW beside \in Beside, NEW verdict, NEW failing \in BOOLEAN,
               LoadDocuments(PullIncidents(verdict, failing), beside)
        PROVE  CenterInv'
    <2> SUFFICES ASSUME NEW n \in PullIncidents(verdict, failing) PROVE RequestIncident(n)
      BY <1>4, KeepDocuments
    <2>1. PICK k \in PullKinds(verdict, failing) : n = AdapterIncident(k[1], k[2], PullRef, NoRef)
      BY DEF PullIncidents
    <2>2. k[2] \in {"merge-conflict", "deterministic-ci-failed", "awaiting-human-merge", "branch-behind", "unclassified"}
      BY <2>1 DEF PullKinds
    <2>3. n.about = PullRef /\ n.of = "github" /\ n.provider = "github" /\ n.unit = NoUnit /\ n.kind = k[2]
      BY <2>1 DEF AdapterIncident
    <2> QED BY <2>2, <2>3, CenterFacts DEF RequestIncident
  <1>5. ASSUME NEW beside \in Beside, NEW of \in Registered(IssueRef), NEW n \in Others(of), LoadDocuments({n}, beside)
        PROVE  CenterInv'
    <2>1. of \in Tracker
      <3>1. declared[RepoOf[IssueRef]] \subseteq Tracker
        BY CenterAssumption DEF CenterInv, CenterTypes
      <3> QED BY <3>1 DEF Registered
    <2>2. n.item = NoRef => RequestIncident(n)
      <3> SUFFICES ASSUME n.item = NoRef PROVE RequestIncident(n)
        OBVIOUS
      <3>1. PICK says \in {of, Undeclared}, k \in {"awaiting-human-merge", "unclassified"},
                 w \in {NoUnit} \cup {u \in WorkUnits : status[u].change = PullRef /\ truth[u].change[PullRef] = of} :
               n = [provider |-> says, rule |-> "other", kind |-> k, about |-> PullRef, item |-> NoRef,
                    unit |-> w, of |-> of]
        BY CenterFacts DEF Others
      <3>2. n.provider = says /\ n.kind = k /\ n.about = PullRef /\ n.unit = w /\ n.of = of
        BY <3>1
      <3> QED BY <2>1, <3>2, CenterFacts DEF RequestIncident
    <2>3. \A m \in {n} : m.item = NoRef => RequestIncident(m)
      BY <2>2
    <2> QED BY <1>5, <2>3, KeepDocuments
  <1>6. CASE UNCHANGED centerVars
    BY <1>6 DEF centerVars, CenterInv, CenterTypes, MergesKnown, RequestIncident, Registered
  <1> QED
    BY <1>1, <1>2, <1>3, <1>4, <1>5, <1>6 DEF CenterNext

\* Nothing but a merge retires an incident of a change request.
LEMMA OnlyMergesRetire ==
    ASSUME CenterInv, NEW n \in loaded.incidents, n.item = NoRef
    PROVE  n \notin Shown <=> ChangeScoped(n) /\ MergedFor(n)
  <1>1. RequestIncident(n)
    BY DEF CenterInv
  <1>2. n.about # NoRef
    BY <1>1, CenterFacts DEF RequestIncident
  <1>3. ASSUME NEW u PROVE FateBy(n, u) # "retired"
    <2>1. ~AdapterRule(n, PlanRule \cup HoldRules)
      BY DEF AdapterRule
    <2>2. Retiring(n.kind) = {}
      BY <1>1 DEF RequestIncident, Retiring
    <2>3. ~Passed(u, {})
      BY DEF Passed
    <2> QED BY <2>1, <2>2, <2>3 DEF FateBy
  <1>4. Fate(n) = "retired" <=> ChangeScoped(n) /\ MergedFor(n)
    BY <1>2, <1>3 DEF Fate
  <1> QED
    BY <1>4 DEF Shown

\* Where the registry tells whose the reference is, it contradicts nobody.
LEMMA ToldAgrees ==
    ASSUME CenterInv, NEW n, RequestIncident(n), Registered(n.about) = {n.of}, NEW u \in WorkUnits
    PROVE  Agrees(n.provider, u, n.about)
  <1> SUFFICES ASSUME n.provider # Undeclared, NEW r \in Deciding(u, n.about) PROVE declared[r] = {n.provider}
    BY DEF Agrees
  <1>1. n.provider = n.of
    BY DEF RequestIncident
  <1>2. CASE declared[RepoOf[n.about]] # {}
    BY <1>1, <1>2 DEF Deciding, Registered
  <1>3. CASE declared[RepoOf[n.about]] = {}
    <2>1. r = status[u].repo /\ declared[r] # {}
      BY <1>3 DEF Deciding
    <2>2. declared[r] \subseteq Tracker
      BY <2>1 DEF CenterInv, CenterTypes
    <2>3. Tracker = {n.of}
      BY <1>3 DEF Registered
    <2> QED BY <1>1, <2>1, <2>2, <2>3
  <1> QED
    BY <1>2, <1>3

LEMMA MergesToldHolds == CenterInv => MergesTold
  <1> SUFFICES ASSUME CenterInv, NEW n \in loaded.incidents, n.item = NoRef
      PROVE  LET about == IF n.unit # NoUnit THEN {n.unit} ELSE Carrying(n) IN
             IF n \notin Shown
             THEN /\ n.kind = "unclassified" => n.rule = "merge-state-impeded"
                  /\ about # {} \/ Told(n, n.about) => <<n.of, n.about>> \in really
             ELSE /\ Registered(n.about) = {n.of} /\ n.provider = n.of
                  /\ ChangeScoped(n) /\ <<n.of, n.about>> \in really
                  => \E u \in about : n.about \notin status[u].merged
    BY DEF MergesTold
  <1> DEFINE about == IF n.unit # NoUnit THEN {n.unit} ELSE Carrying(n)
             carriers == {u \in WorkUnits : /\ n.about \in status[u].merged \cup {status[u].change}
                                            /\ Agrees(n.provider, u, n.about)}
  <1>1. RequestIncident(n) /\ CenterTypes /\ MergesKnown
    BY DEF CenterInv
  <1>2. n.about \in ChangeRefs /\ n.provider \in {n.of, Undeclared} /\ n.unit \in WorkUnits \cup {NoUnit}
        /\ (n.unit \in WorkUnits => truth[n.unit].change[n.about] = n.of)
    BY <1>1 DEF RequestIncident
  <1>3. ASSUME NEW u \in WorkUnits, n.about \in status[u].merged
        PROVE  <<truth[u].change[n.about], n.about>> \in really
    BY <1>1, <1>3 DEF MergesKnown
  <1>4. \A u \in WorkUnits : truth[u].change[n.about] \in Registered(n.about)
    BY <1>1, <1>2 DEF CenterTypes
  <1>5. ASSUME n \notin Shown
        PROVE  /\ n.kind = "unclassified" => n.rule = "merge-state-impeded"
               /\ about # {} \/ Told(n, n.about) => <<n.of, n.about>> \in really
    <2>1. ChangeScoped(n) /\ MergedFor(n)
      BY <1>5, OnlyMergesRetire
    <2>2. n.kind = "unclassified" => n.rule = "merge-state-impeded"
      BY <2>1 DEF ChangeScoped
    <2>3. CASE n.unit # NoUnit
      <3>1. n.unit \in WorkUnits /\ n.about \in status[n.unit].merged
        BY <2>1, <2>3 DEF MergedFor
      <3> QED BY <1>2, <1>3, <2>2, <3>1
    <2>4. CASE n.unit = NoUnit
      <3>1. carriers # {} /\ \A u \in carriers : n.about \in status[u].merged
        BY <2>1, <2>4 DEF MergedFor
      <3>2. ASSUME NEW u \in Carrying(n) PROVE <<n.of, n.about>> \in really
        <4>1. u \in carriers /\ truth[u].change[n.about] = n.of
          BY <3>2 DEF Carrying
        <4> QED BY <1>3, <3>1, <4>1
      <3>3. ASSUME Told(n, n.about) PROVE <<n.of, n.about>> \in really
        <4>1. PICK u \in WorkUnits : n.about \in status[u].merged /\ Agrees(n.provider, u, n.about)
          BY <3>1
        <4>2. Registered(n.about) = {n.of}
          BY <1>2, <3>3, <4>1 DEF Told, Agrees, Deciding, Registered
        <4> QED BY <1>3, <1>4, <4>1, <4>2
      <3> QED BY <2>2, <2>4, <3>2, <3>3
    <2> QED BY <2>3, <2>4
  <1>6. ASSUME n \in Shown, Registered(n.about) = {n.of}, ChangeScoped(n), <<n.of, n.about>> \in really
        PROVE  \E u \in about : n.about \notin status[u].merged
    <2>1. ~MergedFor(n)
      BY <1>6, OnlyMergesRetire
    <2>2. \A u \in WorkUnits : Agrees(n.provider, u, n.about)
      BY <1>1, <1>6, ToldAgrees
    <2>3. CASE n.unit # NoUnit
      BY <1>2, <2>1, <2>2, <2>3 DEF MergedFor
    <2>4. CASE n.unit = NoUnit
      <3>1. PICK w \in WorkUnits : n.about \in status[w].merged
        <4>1. PICK w \in WorkUnits : <<n.of, n.about>>[2] \in status[w].merged
          BY <1>1, <1>6 DEF MergesKnown
        <4> QED BY <4>1
      <3>2. w \in carriers
        BY <2>2, <3>1
      <3>3. PICK u \in carriers : n.about \notin status[u].merged
        BY <2>1, <2>4, <3>2 DEF MergedFor
      <3>4. status[u].change = n.about /\ truth[u].change[n.about] = n.of
        BY <1>4, <1>6, <3>3
      <3>5. u \in Carrying(n)
        BY <2>2, <3>3, <3>4 DEF Carrying
      <3> QED BY <2>4, <3>3, <3>5
    <2> QED BY <2>3, <2>4
  <1> QED
    BY <1>5, <1>6

\* A change request's incident goes when the request was merged, under the tracker the
\* registry ascribes it to, and not before (_change_request_scoped, _provider_agrees).
THEOREM MergesToldAlways == CenterSpec => []MergesTold
  <1>1. CenterSpec => []CenterInv
    BY CenterInvInit, CenterInvNext, PTL DEF CenterSpec
  <1> QED
    BY <1>1, MergesToldHolds, PTL

-----------------------------------------------------------------------------
(* The console's incidents of labels.                                      *)

Restart == {"intake", "triaged"}
Proof == {"dispatched"} \cup Release
LabelKinds == {"dispatch-blocked", "awaiting-dispatch-evidence", "triage-needed", "awaiting-spec-review",
               "awaiting-human-approval"}

\* What some steps of a life leave seen: the states since the last restart.
Remains(seq, s) == {k \in s : \A i \in s : k < i => seq[i] \notin Restart}
SeenSince(seq, s) == {seq[k] : k \in Remains(seq, s)}

LEMMA SeenOn ==
    ASSUME NEW seq, NEW n \in Nat, NEW s \in SUBSET (1 .. n), s # {}
    PROVE  SeenSince(seq, s) = SeenNow(SeenSince(seq, s \ {Max(s)}), seq[Max(s)])
  <1> DEFINE m == Max(s)
             t == s \ {m}
  <1>1. m \in s /\ \A i \in s : i \in Nat /\ i <= m
    <2>1. s \in SUBSET Nat
      OBVIOUS
    <2>2. IsFiniteSet(s)
      BY UpToFinite, FS_Subset
    <2>3. m \in s /\ \A i \in s : i <= m
      BY <2>1, <2>2, Largest
    <2> QED BY <2>1, <2>3
  <1> HIDE DEF m
  <1>2. CASE seq[m] \in Restart
    <2>1. m \in Remains(seq, s)
      BY <1>1 DEF Remains
    <2>2. ASSUME NEW k \in Remains(seq, s) PROVE k = m
      <3>1. k \in Nat /\ m \in Nat /\ k <= m /\ ~(k < m)
        BY <1>1, <1>2 DEF Remains
      <3> QED BY <3>1
    <2>3. SeenSince(seq, s) = {seq[m]}
      BY <2>1, <2>2 DEF SeenSince
    <2>4. SeenNow(SeenSince(seq, t), seq[m]) = {seq[m]}
      BY <1>2 DEF SeenNow, Restart
    <2> QED BY <2>3, <2>4 DEF m
  <1>3. CASE seq[m] \notin Restart
    <2>1. Remains(seq, s) = Remains(seq, t) \cup {m}
      <3>1. m \in Remains(seq, s)
        BY <1>1 DEF Remains
      <3>2. \A k \in t : k \in Remains(seq, s) <=> k \in Remains(seq, t)
        BY <1>3 DEF Remains
      <3>3. Remains(seq, s) \subseteq t \cup {m} /\ Remains(seq, t) \subseteq t
        BY DEF Remains
      <3> HIDE DEF t
      <3> QED BY <3>1, <3>2, <3>3
    <2>2. SeenSince(seq, s) = SeenSince(seq, t) \cup {seq[m]}
      BY <2>1 DEF SeenSince
    <2>3. SeenNow(SeenSince(seq, t), seq[m]) = SeenSince(seq, t) \cup {seq[m]}
      BY <1>3 DEF SeenNow, Restart
    <2> QED BY <2>2, <2>3 DEF m
  <1> QED
    BY <1>2, <1>3

LEMMA SeenAlong ==
    ASSUME NEW n \in Nat, NEW seq, DOMAIN seq = 1 .. n
    PROVE  FoldLeft(SeenNow, {}, seq) = SeenSince(seq, 1 .. n)
  <1> DEFINE D == 1 .. n
             body(g) == [s \in SUBSET (1 .. n) |-> IF s = {} THEN {} ELSE SeenNow(g[s \ {Max(s)}], seq[Max(s)])]
             iter == CHOOSE g : g = body(g)
             c == [s \in SUBSET (1 .. n) |-> SeenSince(seq, s)]
  <1>1. FoldLeft(SeenNow, {}, seq) = iter[1 .. n]
    BY DEF FoldLeft, MapThenFoldSet
  <1>2. c = body(c)
    <2>1. ASSUME NEW s \in SUBSET (1 .. n)
          PROVE  c[s] = IF s = {} THEN {} ELSE SeenNow(c[s \ {Max(s)}], seq[Max(s)])
      <3>1. c[s] = SeenSince(seq, s)
        OBVIOUS
      <3>2. CASE s = {}
        BY <3>1, <3>2 DEF SeenSince, Remains
      <3>3. CASE s # {}
        <4>1. s \ {Max(s)} \in SUBSET (1 .. n)
          OBVIOUS
        <4>2. c[s \ {Max(s)}] = SeenSince(seq, s \ {Max(s)})
          BY <4>1
        <4> HIDE DEF c
        <4> QED BY <3>1, <3>3, <4>2, SeenOn
      <3> QED BY <3>2, <3>3
    <2> DEFINE b == body(c)
    <2>2. b = [s \in SUBSET (1 .. n) |-> b[s]] /\ c = [s \in SUBSET (1 .. n) |-> c[s]]
      OBVIOUS
    <2>3. \A s \in SUBSET (1 .. n) : b[s] = IF s = {} THEN {} ELSE SeenNow(c[s \ {Max(s)}], seq[Max(s)])
      OBVIOUS
    <2> HIDE DEF b, c
    <2>4. \A s \in SUBSET (1 .. n) : c[s] = b[s]
      BY <2>1, <2>3
    <2>5. c = b
      BY <2>2, <2>4
    <2> QED BY <2>5 DEF b
  <1>3. iter = body(iter)
    <2> HIDE DEF body, c
    <2> QED BY <1>2, Zenon
  <1> HIDE DEF iter, c
  <1>4. \A s \in SUBSET (1 .. n) : iter[s] = IF s = {} THEN {} ELSE SeenNow(iter[s \ {Max(s)}], seq[Max(s)])
    <2>1. \A s \in SUBSET (1 .. n) :
            body(iter)[s] = IF s = {} THEN {} ELSE SeenNow(iter[s \ {Max(s)}], seq[Max(s)])
      OBVIOUS
    <2> HIDE DEF body
    <2> QED BY <2>1, <1>3
  <1> DEFINE Bad == {s \in SUBSET (1 .. n) : iter[s] # SeenSince(seq, s)}
  <1>5. Bad = {}
    <2> SUFFICES ASSUME Bad # {} PROVE FALSE
      OBVIOUS
    <2>1. PICK s \in Bad : \A t \in SUBSET s : t # s => t \notin Bad
      <3>1. IsFiniteSet(1 .. n) /\ Bad \in SUBSET SUBSET (1 .. n)
        BY FS_Interval
      <3> HIDE DEF Bad
      <3> QED BY <3>1, FinitelyMinimal
    <2>2. s # {}
      <3>1. SeenSince(seq, {}) = {}
        BY DEF SeenSince, Remains
      <3> QED BY <1>4, <2>1, <3>1
    <2> DEFINE m == Max(s)
    <2>3. m \in s
      <3>1. s \in SUBSET Nat
        BY <2>1
      <3>2. IsFiniteSet(s)
        BY <2>1, UpToFinite, FS_Subset
      <3> QED BY <2>2, <3>1, <3>2, Largest
    <2> HIDE DEF m
    <2>4. s \ {m} \notin Bad /\ s \ {m} \in SUBSET (1 .. n)
      BY <2>1, <2>3
    <2>5. iter[s] = SeenNow(iter[s \ {m}], seq[m])
      BY <1>4, <2>1, <2>2 DEF m
    <2>6. SeenSince(seq, s) = SeenNow(SeenSince(seq, s \ {m}), seq[m])
      BY <2>1, <2>2, SeenOn DEF m
    <2> QED BY <2>1, <2>4, <2>5, <2>6
  <1>6. 1 .. n \in SUBSET (1 .. n)
    OBVIOUS
  <1> QED
    BY <1>1, <1>5, <1>6

\* A unit comes to a state that proves a dispatch from another such state, by a
\* dispatch or by a release; none comes back to intake.
LEMMA ProofByEdges ==
    ASSUME NEW s, NEW t, <<s, t>> \in FactoryEdges
    PROVE  t # "intake" /\ (t \in DispatchProven => t \in Proof \/ s \in DispatchProven)
  <1>1. CASE <<s, t>> \in Engine!Edges
    BY <1>1 DEF Engine!Edges, Engine!UnitState, Engine!Terminal, Engine!Abort, DispatchProven, Proof, Release
  <1>2. CASE <<s, t>> \notin Engine!Edges
    BY <1>2 DEF FactoryEdges, DispatchProven, Proof, Release
  <1> QED
    BY <1>1, <1>2

\* What was seen since the restart proves a dispatch only with a dispatch or a release.
Honest(seen) == seen \cap DispatchProven # {} => seen \cap Proof # {}

LEMMA LivesHonest ==
    ASSUME NEW life \in Seq(FactoryState), life # <<>>, life[1] = "intake",
           \A k \in 2 .. Len(life) : <<life[k - 1], life[k]>> \in FactoryEdges,
           NEW seen, seen = FoldLeft(SeenNow, {}, life)
    PROVE  /\ Last(life) \in seen /\ Honest(seen)
           /\ {g \in Gates : \E k \in DOMAIN life : life[k] = g /\ \A j \in k .. Len(life) : life[j] # "triaged"}
                 = seen \cap Gates
  <1> DEFINE n == Len(life)
             R == Remains(life, 1 .. n)
  <1>1. n \in Nat /\ n # 0 /\ DOMAIN life = 1 .. n /\ n \in 1 .. n /\ 1 \in 1 .. n
    OBVIOUS
  <1>2. seen = {life[k] : k \in R}
    BY <1>1, SeenAlong DEF SeenSince
  <1>3. Last(life) = life[n]
    BY DEF Last
  <1>4. \A k \in 1 .. n : k # 1 => /\ k - 1 \in 1 .. n /\ life[k] # "intake"
                                   /\ life[k] \in DispatchProven => life[k] \in Proof \/ life[k - 1] \in DispatchProven
    <2> SUFFICES ASSUME NEW k \in 1 .. n, k # 1
        PROVE  /\ k - 1 \in 1 .. n /\ life[k] # "intake"
               /\ life[k] \in DispatchProven => life[k] \in Proof \/ life[k - 1] \in DispatchProven
      OBVIOUS
    <2>1. k \in 2 .. Len(life) /\ k - 1 \in 1 .. n
      BY <1>1
    <2>2. <<life[k - 1], life[k]>> \in FactoryEdges
      BY <2>1
    <2> QED BY <2>1, <2>2, ProofByEdges
  <1> HIDE DEF n
  <1>5. R \subseteq 1 .. n /\ \A k \in R : \A i \in 1 .. n : k < i => i \in R /\ life[i] \notin Restart
    BY <1>1 DEF Remains
  <1>6. n \in R
    BY <1>1 DEF Remains
  <1>7. Honest(seen)
    <2> SUFFICES ASSUME seen \cap DispatchProven # {} PROVE seen \cap Proof # {}
      BY DEF Honest
    <2> DEFINE S == {k \in R : life[k] \in DispatchProven}
    <2>1. PICK k \in S : \A j \in S : k <= j
      <3>1. S \in SUBSET Nat /\ S # {}
        BY <1>1, <1>2, <1>5
      <3> HIDE DEF S
      <3> QED BY <3>1, Smallest
    <2>2. k \in R /\ life[k] \in DispatchProven /\ k \in 1 .. n
      BY <1>5, <2>1
    <2>3. life[k] \notin Restart
      BY <2>2 DEF Restart, DispatchProven, Release
    <2>4. k # 1
      BY <2>3 DEF Restart
    <2>5. k - 1 \in R
      <3>1. \A i \in 1 .. n : k - 1 < i => life[i] \notin Restart
        BY <1>5, <2>2, <2>3
      <3> QED BY <1>4, <2>2, <2>4, <3>1 DEF Remains
    <2>6. life[k - 1] \notin DispatchProven
      <3>1. k - 1 \in S => k <= k - 1
        BY <2>1
      <3> QED BY <1>1, <2>2, <2>5, <3>1
    <2>7. life[k] \in Proof
      BY <1>4, <2>2, <2>4, <2>6
    <2> QED BY <1>2, <2>2, <2>7
  <1>8. ASSUME NEW g \in Gates
        PROVE  (\E k \in 1 .. n : life[k] = g /\ \A j \in k .. n : life[j] # "triaged") <=> g \in seen
    <2>1. g \notin Restart
      BY DEF Gates, Restart, Release
    <2>2. ASSUME NEW k \in 1 .. n, life[k] = g, \A j \in k .. n : life[j] # "triaged" PROVE g \in seen
      <3>1. \A i \in 1 .. n : k < i => life[i] \notin Restart
        BY <1>1, <1>4, <2>2 DEF Restart
      <3>2. k \in R
        BY <3>1 DEF Remains
      <3> QED BY <1>2, <2>2, <3>2
    <2>3. ASSUME g \in seen PROVE \E k \in 1 .. n : life[k] = g /\ \A j \in k .. n : life[j] # "triaged"
      <3>1. PICK k \in R : life[k] = g
        BY <1>2, <2>3
      <3>2. \A j \in k .. n : life[j] # "triaged"
        <4> TAKE j \in k .. n
        <4>1. j \in 1 .. n /\ (j = k \/ k < j)
          BY <1>1, <1>5
        <4> QED BY <1>5, <2>1, <3>1, <4>1 DEF Restart
      <3> QED BY <1>5, <3>1, <3>2
    <2> QED BY <2>2, <2>3
  <1>9. Last(life) \in seen
    BY <1>2, <1>3, <1>6
  <1> QED
    BY <1>1, <1>7, <1>8, <1>9 DEF n

LEMMA StepHonest ==
    ASSUME NEW s, NEW t, <<s, t>> \in FactoryEdges, NEW seen, s \in seen, Honest(seen)
    PROVE  /\ t \in SeenNow(seen, t) /\ Honest(SeenNow(seen, t))
           /\ SeenNow(seen, t) \cap Gates = (IF t = "triaged" THEN {} ELSE (seen \cap Gates) \cup ({t} \cap Gates))
  <1>1. t # "intake" /\ (t \in DispatchProven => t \in Proof \/ s \in DispatchProven)
    BY ProofByEdges
  <1>2. CASE t = "triaged"
    <2>1. SeenNow(seen, t) = {"triaged"}
      BY <1>2 DEF SeenNow
    <2>2. "triaged" \notin DispatchProven /\ "triaged" \notin Gates
      BY DEF DispatchProven, Gates, Release
    <2> QED BY <1>2, <2>1, <2>2 DEF Honest
  <1>3. CASE t # "triaged"
    <2>1. SeenNow(seen, t) = seen \cup {t}
      BY <1>1, <1>3 DEF SeenNow
    <2> QED BY <1>1, <1>3, <2>1 DEF Honest
  <1> QED
    BY <1>2, <1>3

\* An incident of labels, of the adapter or of another document.
LabelIncident(n) ==
    /\ n.item = IssueRef /\ n.about = IssueRef /\ n.of \in Tracker /\ n.provider = n.of
    /\ n.unit \notin WorkUnits => n.unit = NoUnit
    /\ n.kind \in LabelKinds
    /\ n.rule \in PlanRule \cup HoldRules => n.provider = "github"
    /\ n.rule \in PlanRule => n.kind # "awaiting-human-approval"

\* Documents that name units have no provider; the adapter's names its issue.
ItemsTold(items) ==
    /\ [provider |-> "github", id |-> IssueRef, unit |-> NoUnit] \in items
    /\ \A i \in items : i.id = IssueRef /\ (i.provider # Undeclared => i.unit = NoUnit)

LapHeld ==
    /\ lap = [u \in WorkUnits |-> lap[u]]
    /\ \A u \in WorkUnits : /\ status[u].state \in status[u].seen /\ Honest(status[u].seen)
                            /\ lap[u] = status[u].seen \cap Gates

IssuesHeld ==
    /\ "github" \in Registered(IssueRef)
    /\ \A u \in WorkUnits : status[u].issue \in {IssueRef, NoRef} /\ truth[u].issue \in Registered(IssueRef)

LabelInv ==
    /\ CenterInv /\ LapHeld /\ IssuesHeld
    /\ \A n \in loaded.incidents : n.item # NoRef => LabelIncident(n)
    /\ loaded.incidents # {} => ItemsTold(loaded.items)

LEMMA LabelInvInit == CenterInit => LabelInv
  <1> SUFFICES ASSUME CenterInit PROVE LabelInv
    OBVIOUS
  <1>1. CenterInv /\ loaded.incidents = {}
    BY CenterInvInit DEF CenterInit
  <1>2. PICK lives \in Histories, issue \in [WorkUnits -> {IssueRef, NoRef}], change \in [WorkUnits -> {PullRef, NoRef}] :
        /\ status = [u \in WorkUnits |->
              [state |-> Last(lives[u]), seen |-> FoldLeft(SeenNow, {}, lives[u]), issue |-> issue[u],
               change |-> change[u], repo |-> RepoOf[IssueRef], merged |-> {}]]
        /\ lap = [u \in WorkUnits |-> {g \in Gates : \E k \in DOMAIN lives[u] :
                      lives[u][k] = g /\ \A j \in k .. Len(lives[u]) : lives[u][j] # "triaged"}]
    BY DEF CenterInit
  <1> DEFINE Gone(u) == {g \in Gates : \E k \in DOMAIN lives[u] :
                      lives[u][k] = g /\ \A j \in k .. Len(lives[u]) : lives[u][j] # "triaged"}
  <1>3. lap = [u \in WorkUnits |-> Gone(u)]
    BY <1>2
  <1>4. ASSUME NEW u \in WorkUnits
        PROVE  /\ status[u].state \in status[u].seen /\ Honest(status[u].seen)
               /\ Gone(u) = status[u].seen \cap Gates /\ status[u].issue = issue[u]
    <2> DEFINE s == Last(lives[u])
               h == FoldLeft(SeenNow, {}, lives[u])
               life == lives[u]
    <2>1. status[u] = [state |-> s, seen |-> h, issue |-> issue[u], change |-> change[u],
                       repo |-> RepoOf[IssueRef], merged |-> {}]
      BY <1>2
    <2>2. /\ life \in Seq(FactoryState) /\ life # <<>> /\ life[1] = "intake"
          /\ \A k \in 2 .. Len(life) : <<life[k - 1], life[k]>> \in FactoryEdges
      BY CenterAssumption
    <2>3. PICK seen : seen = FoldLeft(SeenNow, {}, life)
      OBVIOUS
    <2> HIDE DEF s, h
    <2>4. status[u].state = s /\ status[u].seen = h /\ status[u].issue = issue[u]
      BY <2>1
    <2>5. h = seen
      BY <2>3 DEF h
    <2> HIDE DEF life
    <2>6. /\ Last(life) \in seen /\ Honest(seen)
          /\ {g \in Gates : \E k \in DOMAIN life : life[k] = g /\ \A j \in k .. Len(life) : life[j] # "triaged"}
                 = seen \cap Gates
      BY <2>2, <2>3, LivesHonest
    <2>7. s \in seen /\ Gone(u) = seen \cap Gates
      BY <2>6 DEF s, life
    <2> QED BY <2>4, <2>5, <2>6, <2>7
  <1> HIDE DEF Gone
  <1>5. LapHeld
    BY <1>3, <1>4 DEF LapHeld
  <1>6. IssuesHeld
    <2>1. \A u \in WorkUnits : truth[u].issue \in Registered(IssueRef)
      BY DEF CenterInit
    <2>2. "github" \in Registered(IssueRef)
      BY DEF CenterInit
    <2> QED BY <1>4, <2>1, <2>2 DEF IssuesHeld
  <1> QED
    BY <1>1, <1>5, <1>6 DEF LabelInv

LEMMA LabelsProceed ==
    ASSUME LabelInv, NEW u \in WorkUnits, NEW state, Proceed(u, state) PROVE LapHeld' /\ IssuesHeld'
  <1>1. /\ status' = [status EXCEPT ![u].state = state, ![u].seen = SeenNow(@, state),
                         ![u].merged = @ \cup (IF state = "merged" THEN {status[u].change} \ {NoRef} ELSE {})]
        /\ lap' = [lap EXCEPT ![u] = IF state = "triaged" THEN {} ELSE @ \cup ({state} \cap Gates)]
        /\ <<status[u].state, state>> \in FactoryEdges
        /\ UNCHANGED <<declared, truth, loaded>>
    BY DEF Proceed
  <1>2. CenterTypes /\ LapHeld /\ IssuesHeld
    BY DEF LabelInv, CenterInv
  <1>3. status = [w \in WorkUnits |-> status[w]] /\ UnitRecord(status[u])
    BY <1>2 DEF CenterTypes
  <1>4. \A w \in WorkUnits : w # u => status'[w] = status[w]
    BY <1>1, <1>3
  <1>5. /\ status'[u].state = state /\ status'[u].seen = SeenNow(status[u].seen, state)
        /\ status'[u].issue = status[u].issue
    <2>1. PICK h, m : /\ h = SeenNow(status[u].seen, state)
                      /\ m = status[u].merged \cup (IF state = "merged" THEN {status[u].change} \ {NoRef} ELSE {})
      OBVIOUS
    <2>2. status'[u] = [status[u] EXCEPT !.state = state, !.seen = h, !.merged = m]
      BY <1>1, <1>3, <2>1
    <2> QED BY <1>3, <2>1, <2>2 DEF UnitRecord
  <1>6. /\ lap' = [w \in WorkUnits |-> lap'[w]]
        /\ \A w \in WorkUnits : w # u => lap'[w] = lap[w]
        /\ lap'[u] = IF state = "triaged" THEN {} ELSE lap[u] \cup ({state} \cap Gates)
    BY <1>1, <1>2 DEF LapHeld
  <1>7. /\ status[u].state \in status[u].seen /\ Honest(status[u].seen) /\ lap[u] = status[u].seen \cap Gates
    BY <1>2 DEF LapHeld
  <1>8. PICK s, seen : s = status[u].state /\ seen = status[u].seen
    OBVIOUS
  <1>9. /\ state \in SeenNow(seen, state) /\ Honest(SeenNow(seen, state))
        /\ SeenNow(seen, state) \cap Gates =
              (IF state = "triaged" THEN {} ELSE (seen \cap Gates) \cup ({state} \cap Gates))
    BY <1>1, <1>7, <1>8, StepHonest
  <1>10. LapHeld'
    <2>1. PICK after : after = status'[u].seen
      OBVIOUS
    <2>2. state \in after /\ Honest(after) /\ lap'[u] = after \cap Gates
      BY <1>5, <1>6, <1>7, <1>8, <1>9, <2>1
    <2>3. ASSUME NEW w \in WorkUnits
          PROVE  /\ status'[w].state \in status'[w].seen /\ Honest(status'[w].seen)
                 /\ lap'[w] = status'[w].seen \cap Gates
      <3>1. CASE w = u
        BY <1>5, <2>1, <2>2, <3>1
      <3>2. CASE w # u
        BY <1>2, <1>4, <1>6, <3>2 DEF LapHeld
      <3> QED BY <3>1, <3>2
    <2> QED BY <1>6, <2>3 DEF LapHeld, Honest
  <1>11. IssuesHeld'
    <2>1. \A w \in WorkUnits : status'[w].issue = status[w].issue
      BY <1>4, <1>5
    <2> QED BY <1>1, <1>2, <2>1 DEF IssuesHeld, Registered
  <1> QED
    BY <1>10, <1>11

LEMMA LabelsRepoint ==
    ASSUME LabelInv, NEW u \in WorkUnits, NEW ref \in ChangeRefs, NEW named, Repoint(u, ref, named)
    PROVE  LapHeld' /\ IssuesHeld'
  <1>1. /\ status' = [status EXCEPT ![u].change = ref, ![u].repo = IF named THEN RepoOf[ref] ELSE @]
        /\ UNCHANGED <<declared, truth, lap, loaded>>
    BY DEF Repoint
  <1>2. CenterTypes /\ LapHeld /\ IssuesHeld
    BY DEF LabelInv, CenterInv
  <1>3. status = [w \in WorkUnits |-> status[w]] /\ UnitRecord(status[u])
    BY <1>2 DEF CenterTypes
  <1>4. \A w \in WorkUnits : w # u => status'[w] = status[w]
    BY <1>1, <1>3
  <1>5. /\ status'[u].state = status[u].state /\ status'[u].seen = status[u].seen
        /\ status'[u].issue = status[u].issue
    <2>1. PICK h : h = IF named THEN RepoOf[ref] ELSE status[u].repo
      OBVIOUS
    <2>2. status'[u] = [status[u] EXCEPT !.change = ref, !.repo = h]
      BY <1>1, <1>3, <2>1
    <2> QED BY <1>3, <2>2 DEF UnitRecord
  <1>6. \A w \in WorkUnits : /\ status'[w].state = status[w].state /\ status'[w].seen = status[w].seen
                             /\ status'[w].issue = status[w].issue
    BY <1>4, <1>5
  <1> QED
    BY <1>1, <1>2, <1>6 DEF LapHeld, IssuesHeld, Honest, Registered

\* What the adapter tells of labels, and of which kind.
LEMMA RulesTold ==
    ASSUME NEW labels, NEW n \in LabelIncidents(labels)
    PROVE  n.item = IssueRef /\ LabelIncident(n)
  <1>1. PICK k \in DOMAIN DispatchRules :
           n = AdapterIncident(DispatchRules[k].rule, DispatchRules[k].kind, IssueRef, IssueRef)
    BY DEF LabelIncidents
  <1>2. DispatchRules[k].kind \in LabelKinds
        /\ (DispatchRules[k].rule \in PlanRule => DispatchRules[k].kind # "awaiting-human-approval")
    BY DEF DispatchRules, Row, LabelKinds, PlanRule
  <1>3. /\ n.provider = "github" /\ n.of = "github" /\ n.about = IssueRef /\ n.item = IssueRef /\ n.unit = NoUnit
        /\ n.rule = DispatchRules[k].rule /\ n.kind = DispatchRules[k].kind
    BY <1>1 DEF AdapterIncident
  <1> QED
    BY <1>2, <1>3, CenterFacts DEF LabelIncident

LEMMA BesideTold ==
    ASSUME NEW beside \in Beside
    PROVE  ItemsTold({[provider |-> "github", id |-> IssueRef, unit |-> NoUnit]} \cup beside)
  <1>1. ASSUME NEW i \in beside PROVE i.id = IssueRef /\ (i.provider # Undeclared => i.unit = NoUnit)
    <2>1. \/ \E says \in {"gitlab"} \cap Registered(IssueRef) :
                 i = [provider |-> says, id |-> IssueRef, unit |-> NoUnit]
          \/ \E w \in WorkUnits \cup {NoUnit} : i = [provider |-> Undeclared, id |-> IssueRef, unit |-> w]
      BY DEF Beside
    <2> QED BY <2>1
  <1> QED
    BY <1>1 DEF ItemsTold

LEMMA LabelInvNext == LabelInv /\ [CenterNext]_centerVars => LabelInv'
  <1> SUFFICES ASSUME LabelInv, [CenterNext]_centerVars PROVE LabelInv'
    OBVIOUS
  <1>1. CenterInv'
    BY CenterInvNext DEF LabelInv
  <1>2. ASSUME NEW incidents, NEW beside \in Beside, LoadDocuments(incidents, beside),
               \A n \in incidents : n.item # NoRef => LabelIncident(n)
        PROVE  LabelInv'
    <2>1. /\ UNCHANGED <<declared, status, truth, lap>> /\ loaded'.incidents = incidents
          /\ loaded'.items = {[provider |-> "github", id |-> IssueRef, unit |-> NoUnit]} \cup beside
      BY <1>2 DEF LoadDocuments
    <2>2. LapHeld' /\ IssuesHeld'
      BY <2>1 DEF LabelInv, LapHeld, IssuesHeld, Honest, Registered
    <2>3. ItemsTold(loaded'.items)
      BY <2>1, BesideTold
    <2> QED BY <1>1, <1>2, <2>1, <2>2, <2>3 DEF LabelInv, LabelIncident, ItemsTold
  <1>3. ASSUME LapHeld' /\ IssuesHeld', UNCHANGED loaded PROVE LabelInv'
    BY <1>1, <1>3 DEF LabelInv, LabelIncident, ItemsTold
  <1>4. CASE \E u \in WorkUnits, state \in Onward : Proceed(u, state)
    <2>1. PICK u \in WorkUnits, state \in Onward : Proceed(u, state)
      BY <1>4
    <2> QED BY <1>3, <2>1, LabelsProceed DEF Proceed
  <1>5. CASE \E u \in WorkUnits, ref \in ChangeRefs, named \in BOOLEAN : Repoint(u, ref, named)
    <2>1. PICK u \in WorkUnits, ref \in ChangeRefs, named \in BOOLEAN : Repoint(u, ref, named)
      BY <1>5
    <2> QED BY <1>3, <2>1, LabelsRepoint DEF Repoint
  <1>6. ASSUME NEW beside \in Beside, NEW labels \in Labelled, LoadDocuments(LabelIncidents(labels), beside)
        PROVE  LabelInv'
    BY <1>2, <1>6, RulesTold
  <1>7. ASSUME NEW beside \in Beside, NEW verdict, NEW failing \in BOOLEAN,
               LoadDocuments(PullIncidents(verdict, failing), beside)
        PROVE  LabelInv'
    <2>1. \A n \in PullIncidents(verdict, failing) : n.item = NoRef
      BY DEF PullIncidents, AdapterIncident
    <2> QED BY <1>2, <1>7, <2>1
  <1>8. ASSUME NEW beside \in Beside, NEW of \in Registered(IssueRef), NEW n \in Others(of), LoadDocuments({n}, beside)
        PROVE  LabelInv'
    <2>1. of \in Tracker
      <3>1. declared[RepoOf[IssueRef]] \subseteq Tracker
        BY CenterAssumption DEF LabelInv, CenterInv, CenterTypes
      <3> QED BY <3>1 DEF Registered
    <2>2. ASSUME n.item # NoRef PROVE LabelIncident(n)
      <3>1. PICK k \in {"dispatch-blocked", "awaiting-human-approval"},
                 w \in {NoUnit} \cup {u \in WorkUnits : status[u].issue = IssueRef /\ truth[u].issue = of} :
               n = [provider |-> of, rule |-> "other", kind |-> k, about |-> IssueRef, item |-> IssueRef,
                    unit |-> w, of |-> of]
        BY <2>2 DEF Others
      <3>2. /\ n.provider = of /\ n.rule = "other" /\ n.kind = k /\ n.about = IssueRef /\ n.item = IssueRef
            /\ n.unit = w /\ n.of = of
        BY <3>1
      <3> QED BY <2>1, <3>2 DEF LabelIncident, LabelKinds, PlanRule, HoldRules
    <2>3. \A m \in {n} : m.item # NoRef => LabelIncident(m)
      BY <2>2
    <2> QED BY <1>2, <1>8, <2>3
  <1>9. CASE UNCHANGED centerVars
    BY <1>1, <1>9 DEF centerVars, LabelInv, LapHeld, IssuesHeld, Honest, Registered, LabelIncident, ItemsTold
  <1> QED
    BY <1>4, <1>5, <1>6, <1>7, <1>8, <1>9 DEF CenterNext

\* A gate was seen exactly when it was passed since the unit was last triaged.
LEMMA GateSeen ==
    ASSUME LapHeld, NEW u \in WorkUnits
    PROVE  /\ Passed(u, DispatchProven) <=> lap[u] \cap Proof # {}
           /\ Passed(u, PlanProven) <=> lap[u] \cap (Proof \cup {"planned", "approval-pending"}) # {}
           /\ Passed(u, ApprovalProven) <=> lap[u] \cap (Proof \cup {"approved"}) # {}
           /\ "approved" \in status[u].seen <=> "approved" \in lap[u]
  <1>1. PICK s, seen, gone : s = status[u].state /\ seen = status[u].seen /\ gone = lap[u]
    OBVIOUS
  <1>2. s \in seen /\ Honest(seen) /\ gone = seen \cap Gates
    BY <1>1 DEF LapHeld
  <1>3. \A states : Passed(u, states) <=> seen \cap states # {}
    BY <1>1, <1>2 DEF Passed
  <1>4. /\ Proof \subseteq Gates /\ Proof \subseteq DispatchProven
        /\ "planned" \in Gates /\ "approval-pending" \in Gates /\ "approved" \in Gates
    BY DEF Proof, Gates, DispatchProven, Release
  <1>5. seen \cap DispatchProven # {} <=> gone \cap Proof # {}
    BY <1>2, <1>4 DEF Honest
  <1>6. seen \cap PlanProven # {} <=> gone \cap (Proof \cup {"planned", "approval-pending"}) # {}
    BY <1>2, <1>4, <1>5 DEF PlanProven
  <1>7. seen \cap ApprovalProven # {} <=> gone \cap (Proof \cup {"approved"}) # {}
    BY <1>2, <1>4, <1>5 DEF ApprovalProven
  <1>8. "approved" \in seen <=> "approved" \in gone
    BY <1>2, <1>4
  <1> QED
    BY <1>1, <1>3, <1>5, <1>6, <1>7, <1>8

\* The unit the ledger proves retires what labels ask for exactly when it did it.
LEMMA FateTold ==
    ASSUME LapHeld, NEW n, LabelIncident(n), n.item # NoRef, NEW u \in WorkUnits
    PROVE  /\ FateBy(n, u) = "retired" <=> Crossed(n, u)
           /\ ~Crossed(n, u) /\ n.rule \in PlanRule \cup HoldRules /\ "approved" \in lap[u]
              => FateBy(n, u) = "restated"
  <1>1. PICK gone : gone = lap[u]
    OBVIOUS
  <1>2. /\ Passed(u, DispatchProven) <=> gone \cap Proof # {}
        /\ Passed(u, PlanProven) <=> gone \cap (Proof \cup {"planned", "approval-pending"}) # {}
        /\ Passed(u, ApprovalProven) <=> gone \cap (Proof \cup {"approved"}) # {}
        /\ "approved" \in status[u].seen <=> "approved" \in gone
    BY <1>1, GateSeen
  <1>3. Crossed(n, u) <=> \/ gone \cap Proof # {}
                          \/ n.rule \in PlanRule /\ gone \cap {"planned", "approval-pending"} # {} /\ "approved" \notin gone
                          \/ n.kind = "awaiting-human-approval" /\ n.rule \notin HoldRules /\ "approved" \in gone
    BY <1>1 DEF Crossed, Proof
  <1>4. CASE n.rule \in PlanRule \cup HoldRules
    <2>1. AdapterRule(n, PlanRule \cup HoldRules)
      BY <1>4 DEF AdapterRule, LabelIncident
    <2>2. AdapterRule(n, PlanRule) <=> n.rule \in PlanRule
      BY <1>4 DEF AdapterRule, LabelIncident
    <2>3. FateBy(n, u) = IF gone \cap Proof # {} THEN "retired"
                         ELSE IF "approved" \in gone THEN "restated"
                         ELSE IF n.rule \in PlanRule /\ gone \cap (Proof \cup {"planned", "approval-pending"}) # {}
                              THEN "retired" ELSE "kept"
      BY <1>2, <2>1, <2>2 DEF FateBy
    <2>4. ~(n.kind = "awaiting-human-approval" /\ n.rule \notin HoldRules)
      BY <1>4 DEF LabelIncident
    <2>5. CASE gone \cap Proof # {}
      BY <1>3, <2>3, <2>5
    <2>6. CASE gone \cap Proof = {} /\ "approved" \in gone
      BY <1>1, <1>3, <2>3, <2>4, <2>6
    <2>7. CASE gone \cap Proof = {} /\ "approved" \notin gone
      <3>1. gone \cap (Proof \cup {"planned", "approval-pending"}) # {} <=> gone \cap {"planned", "approval-pending"} # {}
        BY <2>7
      <3> QED BY <1>1, <1>3, <2>3, <2>4, <2>7, <3>1
    <2> QED BY <2>5, <2>6, <2>7
  <1>5. CASE n.rule \notin PlanRule \cup HoldRules
    <2>1. ~AdapterRule(n, PlanRule \cup HoldRules)
      BY <1>5 DEF AdapterRule
    <2>2. FateBy(n, u) = IF Passed(u, Retiring(n.kind)) THEN "retired" ELSE "kept"
      BY <2>1 DEF FateBy
    <2>3. CASE n.kind = "awaiting-human-approval"
      <3>1. Retiring(n.kind) = ApprovalProven
        BY <2>3 DEF Retiring
      <3> QED BY <1>2, <1>3, <1>5, <2>2, <2>3, <3>1
    <2>4. CASE n.kind # "awaiting-human-approval"
      <3>1. Retiring(n.kind) = DispatchProven
        BY <2>4 DEF Retiring, LabelIncident, LabelKinds
      <3> QED BY <1>2, <1>3, <1>5, <2>2, <2>4, <3>1
    <2> QED BY <2>3, <2>4
  <1> QED
    BY <1>4, <1>5

\* The unit of an incident that names none is the one unit that carries the issue,
\* and no registration says that it is another tracker's.
LEMMA UnitFound ==
    ASSUME LabelInv, NEW n \in loaded.incidents, n.item # NoRef, n.unit = NoUnit, NEW u \in ItemStatus(n)
    PROVE  /\ u \in WorkUnits /\ {w \in WorkUnits : status[w].issue = IssueRef} = {u}
           /\ Agrees(n.of, u, IssueRef)
           /\ Contested(IssueRef) => \E r \in Deciding(u, IssueRef) : declared[r] = {n.of}
  <1>1. LabelIncident(n) /\ ItemsTold(loaded.items)
    BY DEF LabelInv
  <1>2. n.item = IssueRef /\ n.provider = n.of /\ n.of # Undeclared
    BY <1>1, CenterFacts DEF LabelIncident
  <1>3. "github" \in ProvidersOf(IssueRef) /\ "github" # Undeclared
    <2>1. [provider |-> "github", id |-> IssueRef, unit |-> NoUnit] \in {j \in loaded.items : j.id = IssueRef}
      BY <1>1 DEF ItemsTold
    <2>2. [provider |-> "github", id |-> IssueRef, unit |-> NoUnit].provider \in ProvidersOf(IssueRef)
      BY <2>1 DEF ProvidersOf
    <2> QED BY <2>2, CenterFacts
  <1>4. u \in StatusUnder(n.of, IssueRef)
    <2>1. ProvidersOf(IssueRef) # {Undeclared}
      BY <1>3
    <2> QED BY <1>2, <2>1 DEF ItemStatus
  <1>5. PICK i \in loaded.items : i.provider = n.of /\ i.id = IssueRef /\ u \in StatusOf(i)
    BY <1>4 DEF StatusUnder
  <1>6. i.unit = NoUnit
    BY <1>1, <1>2, <1>5 DEF ItemsTold
  <1>7. /\ u \in UnitOfIssue(IssueRef) /\ Agrees(n.of, u, IssueRef)
        /\ Contested(IssueRef) => Identified(i, u)
    BY <1>5, <1>6 DEF StatusOf
  <1> DEFINE carriers == {w \in WorkUnits : status[w].issue = IssueRef}
  <1>8. u \in carriers /\ Cardinality(carriers) = 1
    BY <1>7 DEF UnitOfIssue
  <1>9. carriers = {u}
    <2>1. IsFiniteSet(carriers)
      BY CenterAssumption, FS_Subset
    <2> HIDE DEF carriers
    <2>2. \E x : carriers = {x}
      BY <1>8, <2>1, FS_Singleton
    <2> QED BY <1>8, <2>2
  <1> QED
    BY <1>5, <1>7, <1>8, <1>9 DEF Identified

\* Where the registry tells whose issue it is, the one unit that carries it is found.
LEMMA UnitTold ==
    ASSUME LabelInv, NEW n \in loaded.incidents, n.item # NoRef, n.unit = NoUnit, NEW u \in WorkUnits,
           status[u].issue = IssueRef, Cardinality({w \in WorkUnits : status[w].issue = IssueRef}) = 1,
           declared[RepoOf[IssueRef]] = {n.of}
    PROVE  ItemStatus(n) = {u}
  <1>1. LabelIncident(n) /\ ItemsTold(loaded.items)
    BY DEF LabelInv
  <1>2. n.item = IssueRef /\ n.provider = n.of /\ n.of # Undeclared
    BY <1>1, CenterFacts DEF LabelIncident
  <1>3. n.of = "github"
    BY DEF LabelInv, IssuesHeld, Registered
  <1> DEFINE item == [provider |-> "github", id |-> IssueRef, unit |-> NoUnit]
             carriers == {w \in WorkUnits : status[w].issue = IssueRef}
  <1>4. item \in loaded.items /\ item.provider = n.of /\ item.id = IssueRef /\ item.unit = NoUnit
    BY <1>1, <1>3 DEF ItemsTold
  <1>5. Deciding(u, IssueRef) = {RepoOf[IssueRef]}
    BY DEF Deciding
  <1>6. Agrees(n.of, u, IssueRef) /\ Identified(item, u)
    BY <1>2, <1>4, <1>5 DEF Agrees, Identified
  <1>7. u \in UnitOfIssue(IssueRef)
    BY DEF UnitOfIssue
  <1> HIDE DEF item
  <1>8. u \in StatusOf(item)
    BY <1>4, <1>6, <1>7 DEF StatusOf
  <1>9. u \in StatusUnder(n.of, IssueRef)
    BY <1>4, <1>8 DEF StatusUnder
  <1>10. u \in ItemStatus(n)
    BY <1>2, <1>9 DEF ItemStatus
  <1>11. \A w \in ItemStatus(n) : carriers = {w}
    BY UnitFound
  <1> QED
    BY <1>10, <1>11

\* The labels' incidents are dropped and told as the units' gates say.
LEMMA GatesToldHolds == LabelInv => GatesTold
  <1> SUFFICES ASSUME LabelInv, NEW n \in loaded.incidents, n.item # NoRef
      PROVE  LET carriers == {u \in WorkUnits : status[u].issue = n.item}
                 ascribed == declared[RepoOf[n.item]] = {n.of} /\ n.provider = n.of IN
             IF n \notin Shown
             THEN /\ \A u \in Subjects(n) : Crossed(n, u)
                  /\ \/ Told(n, n.item)
                     \/ Contested(n.item) /\ \A u \in carriers : status[u].repo = RepoOf[n.item]
                     => Subjects(n) # {}
             ELSE ascribed /\ Cardinality(Subjects(n)) = 1 /\ (n.unit # NoUnit \/ Cardinality(carriers) = 1)
                  => \A u \in Subjects(n) :
                           /\ ~Crossed(n, u)
                           /\ n.rule \in PlanRule \cup HoldRules /\ "approved" \in lap[u] => Fate(n) = "restated"
    BY DEF GatesTold
  <1> DEFINE carriers == {u \in WorkUnits : status[u].issue = IssueRef}
             proven == IF n.unit # NoUnit THEN {n.unit} \cap WorkUnits ELSE ItemStatus(n)
  <1>1. LabelIncident(n) /\ LapHeld /\ IssuesHeld
    BY DEF LabelInv
  <1>2. n.item = IssueRef /\ n.provider = n.of /\ n.of # Undeclared
    BY <1>1, CenterFacts DEF LabelIncident
  <1>3. ~ChangeScoped(n)
    BY <1>1 DEF LabelIncident, LabelKinds, ChangeScoped
  <1>4. Fate(n) = IF proven = {} THEN "kept" ELSE FateBy(n, CHOOSE u \in proven : TRUE)
    BY <1>3 DEF Fate
  <1>5. n \in Shown <=> Fate(n) # "retired"
    BY DEF Shown
  <1>6. n.unit # NoUnit => n.unit \in WorkUnits /\ proven = {n.unit} /\ Subjects(n) = {n.unit}
    BY <1>1 DEF LabelIncident, Subjects
  <1>7. n.unit = NoUnit => /\ proven = ItemStatus(n)
                           /\ Subjects(n) = {u \in WorkUnits : status[u].issue = IssueRef /\ truth[u].issue = n.of}
    BY <1>2 DEF Subjects
  <1> HIDE DEF proven
  <1>8. \A u : proven = {u} => Fate(n) = FateBy(n, u)
    BY <1>4
  <1>9. ASSUME n \notin Shown
        PROVE  /\ \A u \in Subjects(n) : Crossed(n, u)
               /\ \/ Told(n, IssueRef)
                  \/ Contested(IssueRef) /\ \A u \in carriers : status[u].repo = RepoOf[IssueRef]
                  => Subjects(n) # {}
    <2>1. PICK u \in proven : FateBy(n, u) = "retired"
      BY <1>4, <1>5, <1>9
    <2>2. CASE n.unit # NoUnit
      BY <1>1, <1>6, <2>1, <2>2, FateTold
    <2>3. CASE n.unit = NoUnit
      <3>1. u \in ItemStatus(n)
        BY <1>7, <2>1, <2>3
      <3>2. /\ u \in WorkUnits /\ carriers = {u} /\ Agrees(n.of, u, IssueRef)
            /\ Contested(IssueRef) => \E r \in Deciding(u, IssueRef) : declared[r] = {n.of}
        BY <2>3, <3>1, UnitFound
      <3>3. Crossed(n, u)
        BY <1>1, <2>1, <3>2, FateTold
      <3>4. Subjects(n) \subseteq {u}
        BY <1>7, <2>3, <3>2
      <3>5. declared[RepoOf[IssueRef]] # {} => declared[RepoOf[IssueRef]] = {n.of}
        BY <1>2, <3>2 DEF Agrees, Deciding
      <3>6. ASSUME \/ Told(n, IssueRef)
                   \/ Contested(IssueRef) /\ \A w \in carriers : status[w].repo = RepoOf[IssueRef]
            PROVE  Registered(IssueRef) = {n.of}
        <4>1. CASE Told(n, IssueRef)
          BY <1>2, <3>5, <4>1 DEF Told, Registered
        <4>2. CASE Contested(IssueRef) /\ \A w \in carriers : status[w].repo = RepoOf[IssueRef]
          <5>1. PICK r \in Deciding(u, IssueRef) : declared[r] = {n.of}
            BY <3>2, <4>2
          <5>2. r = RepoOf[IssueRef]
            BY <3>2, <4>2, <5>1 DEF Deciding
          <5> QED BY <5>1, <5>2 DEF Registered
        <4> QED BY <3>6, <4>1, <4>2
      <3>7. truth[u].issue \in Registered(IssueRef)
        BY <1>1, <3>2 DEF IssuesHeld
      <3>8. Registered(IssueRef) = {n.of} => u \in Subjects(n)
        BY <1>7, <2>3, <3>2, <3>7
      <3> QED BY <3>3, <3>4, <3>6, <3>8
    <2> QED BY <2>2, <2>3
  <1>10. ASSUME n \in Shown, declared[RepoOf[IssueRef]] = {n.of}, NEW u \in Subjects(n),
                n.unit # NoUnit \/ Cardinality(carriers) = 1
         PROVE  /\ ~Crossed(n, u)
                /\ n.rule \in PlanRule \cup HoldRules /\ "approved" \in lap[u] => Fate(n) = "restated"
    <2>1. u \in WorkUnits /\ proven = {u}
      <3>1. CASE n.unit # NoUnit
        BY <1>6, <1>10, <3>1
      <3>2. CASE n.unit = NoUnit
        <4>1. u \in WorkUnits /\ status[u].issue = IssueRef
          BY <1>7, <1>10, <3>2
        <4>2. ItemStatus(n) = {u}
          BY <1>10, <3>2, <4>1, UnitTold
        <4> QED BY <1>7, <3>2, <4>1, <4>2
      <3> QED BY <3>1, <3>2
    <2>2. Fate(n) = FateBy(n, u) /\ Fate(n) # "retired"
      BY <1>5, <1>8, <1>10, <2>1
    <2> QED BY <1>1, <2>1, <2>2, FateTold
  <1> QED
    BY <1>2, <1>9, <1>10

\* The console drops no issue of an export, hides no incident that stands and tells none
\* that is over, for any numbers of issues, units, trackers and ledger events between
\* the export and the ledger's reading (build_control_center_snapshot).
THEOREM ConsoleHolds == BacklogSpec /\ CenterSpec => []ConsoleTrue
  <1>1. CenterSpec => []LabelInv
    BY LabelInvInit, LabelInvNext, PTL DEF CenterSpec
  <1>2. TreeWhole /\ MergesTold /\ GatesTold => ConsoleTrue
    BY DEF ConsoleTrue
  <1> QED
    BY <1>1, <1>2, GatesToldHolds, MergesToldAlways, TreeWholeAlways, PTL
=============================================================================
