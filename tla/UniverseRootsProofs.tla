------------------------ MODULE UniverseRootsProofs ------------------------
(***************************************************************************)
(* Proofs about the universe-root comparison helpers, for every set of    *)
(* universe IDs and leaves, every page size and every interleaving of the *)
(* minter, the syncer and the comparer.                                   *)
(***************************************************************************)
EXTENDS UniverseRoots, FiniteSetTheorems, TLAPS

(***************************************************************************)
(* Lemmas about ranks.  The rank of i in a finite set T of IDs is the     *)
(* number of members of T up to i, the position AssetRoots gives it.      *)
(***************************************************************************)
CountUpTo(T, i) == Cardinality({j \in T : j <= i})

\* A member's rank lies between 1 and the size of the set.
LEMMA CountBounds ==
    ASSUME NEW T \in SUBSET Nat, IsFiniteSet(T), NEW i \in T
    PROVE  /\ IsFiniteSet({j \in T : j <= i})
           /\ CountUpTo(T, i) \in 1..Cardinality(T)
<1>1. /\ IsFiniteSet({j \in T : j <= i})
      /\ Cardinality({j \in T : j <= i}) <= Cardinality(T)
  BY FS_Subset
<1>2. Cardinality({j \in T : j <= i}) \in Nat /\ Cardinality(T) \in Nat
  BY <1>1, FS_CardinalityType
<1>3. Cardinality({j \in T : j <= i}) # 0
  BY <1>1, FS_EmptySet
<1>. QED
  BY <1>1, <1>2, <1>3 DEF CountUpTo

\* Adding members to the set never lowers a rank.
LEMMA CountMonotone ==
    ASSUME NEW T, NEW U, IsFiniteSet(U), T \subseteq U, NEW i
    PROVE  CountUpTo(T, i) <= CountUpTo(U, i)
BY FS_Subset DEF CountUpTo

\* Distinct members have distinct ranks.
LEMMA CountInjective ==
    ASSUME NEW T \in SUBSET Nat, IsFiniteSet(T), NEW j \in T, NEW k \in T,
           j < k
    PROVE  CountUpTo(T, j) # CountUpTo(T, k)
<1>1. {x \in T : x <= j} \subseteq {x \in T : x <= k}
  <2>1. SUFFICES ASSUME NEW x \in T, x <= j PROVE x <= k
    OBVIOUS
  <2>2. x \in Nat /\ j \in Nat /\ k \in Nat
    OBVIOUS
  <2>. QED
    BY <2>1, <2>2
<1>2. k \in {x \in T : x <= k} /\ k \notin {x \in T : x <= j}
  OBVIOUS
<1>3. IsFiniteSet({x \in T : x <= k})
  BY FS_Subset
<1>4. Cardinality({x \in T : x <= k}) = Cardinality({x \in T : x <= j})
        => {x \in T : x <= k} = {x \in T : x <= j}
  BY <1>1, <1>3, FS_Subset
<1>. QED
  BY <1>2, <1>4 DEF CountUpTo

\* The ranks have no gaps: below any member's rank every rank is taken.
LEMMA CountContiguous ==
    ASSUME NEW T \in SUBSET Nat, IsFiniteSet(T), NEW i \in T, NEW o \in Nat,
           CountUpTo(T, i) > o
    PROVE  \E j \in T : CountUpTo(T, j) = o + 1
<1> DEFINE N == Cardinality(T)
           f == [j \in T |-> CountUpTo(T, j)]
<1>1. N \in Nat
  BY FS_CardinalityType
<1>2. f \in [T -> 1..N]
  BY CountBounds
<1>3. f \in Injection(T, 1..N)
  <2>1. ASSUME NEW j \in T, NEW k \in T, f[j] = f[k] PROVE j = k
    <3>1. ~(j < k) /\ ~(k < j)
      BY <2>1, CountInjective
    <3>. QED
      BY <3>1
  <2>. QED
    BY <1>2, <2>1 DEF Injection, IsInjective
<1>4. IsFiniteSet(1..N) /\ Cardinality(1..N) = N
  BY <1>1, FS_Interval
<1>5. f \in Surjection(T, 1..N)
  BY <1>3, <1>4, FS_Injection
<1>6. CountUpTo(T, i) \in 1..N
  BY CountBounds
<1>7. o + 1 \in 1..N
  BY <1>1, <1>6
<1>. QED
  BY <1>5, <1>7 DEF Surjection

(***************************************************************************)
(* The inductive invariant.  FetchComplete alone is not inductive: it     *)
(* speaks of completed fetches only, and the scan in progress must already *)
(* have kept every ID tracked at its start either merged or still ahead  *)
(* of the offset (ScanSound).  Inserts only raise ranks, so an ID ahead   *)
(* of the offset stays ahead, and the ranks have no gaps, so an empty     *)
(* page means that no ID is ahead.  TypeOK is replaced by the part of it  *)
(* the argument needs (the roots' sums are never looked at).              *)
(***************************************************************************)

\* assetRoots's page size (RequestPageSize/100) is positive, and the single
\* AssetRoots call without a limit can return every tracked ID only when
\* there are at most DefaultLimit of them.
FetchAssumption ==
    /\ PageSize \in Nat \ {0}
    /\ Helpers \ {"StateEqual"} # {} => Cardinality(Ids) <= DefaultLimit

UTypeOK ==
    /\ helper \in Helpers
    /\ uni \in [Sides -> [Ids -> SUBSET LeafKeys]]
    /\ cpc \in {"idle", "fetch", "compare", "done"}
    /\ side \in Sides
    /\ offset \in Nat
    /\ DOMAIN roots = Sides
    /\ \A u \in Sides : DOMAIN roots[u] \subseteq Ids
    /\ startTracked \in [Sides -> SUBSET Ids]
    /\ fetched \subseteq Sides
    /\ compared \in BOOLEAN
    /\ verdict \in BOOLEAN

\* The scan of the current side has merged, or not yet passed, every ID the
\* side tracked when the scan began; A is scanned first, then B.
ScanSound ==
    cpc = "fetch" =>
        /\ fetched = IF side = "A" THEN {} ELSE {"A"}
        /\ \A i \in startTracked[side] :
              i \in DOMAIN roots[side] \/ Rank(side, i) > offset

FetchInv ==
    /\ UTypeOK
    /\ \A u \in Sides : startTracked[u] \subseteq Tracked(u)
    /\ ScanSound
    /\ FetchComplete

\* Any set of IDs, the IDs a side tracks in particular, is a finite set of
\* naturals no larger than Ids.
LEMMA IdSetFacts ==
    ASSUME NEW S \in SUBSET Ids
    PROVE  /\ S \in SUBSET Nat
           /\ IsFiniteSet(S)
           /\ Cardinality(S) \in Nat
           /\ Cardinality(S) <= Cardinality(Ids)
BY UniverseAssumption, FS_Subset, FS_CardinalityType

\* A tracked ID has rank at least 1: a scan that starts at offset 0 has it
\* ahead.
LEMMA RankPositive ==
    ASSUME NEW u, NEW i \in Tracked(u)
    PROVE  Rank(u, i) \in 1..Cardinality(Tracked(u))
<1>1. Tracked(u) \in SUBSET Ids
  BY DEF Tracked
<1>. QED
  BY <1>1, IdSetFacts, CountBounds DEF Rank, CountUpTo

LEMMA InitFetchInv == Init => FetchInv
<1> SUFFICES ASSUME Init PROVE FetchInv
  OBVIOUS
<1>1. UTypeOK
  <2>1. uni \in [Sides -> [Ids -> SUBSET LeafKeys]]
    BY DEF Init
  <2>2. DOMAIN roots = Sides /\ \A u \in Sides : DOMAIN roots[u] \subseteq Ids
    BY DEF Init, EmptyMap
  <2>3. startTracked \in [Sides -> SUBSET Ids] /\ side \in Sides
    BY DEF Init, Sides
  <2>. QED
    BY <2>1, <2>2, <2>3 DEF Init, UTypeOK
<1>2. \A u \in Sides : startTracked[u] \subseteq Tracked(u)
  BY DEF Init
<1>. QED
  BY <1>1, <1>2 DEF Init, FetchInv, ScanSound, FetchComplete

\* The minter and the syncer only add leaves: tracked sets grow and ranks
\* rise, and the comparer's state is untouched.
LEMMA GrowStep ==
    ASSUME FetchInv,
           uni' \in [Sides -> [Ids -> SUBSET LeafKeys]],
           \A u \in Sides, j \in Ids : uni[u][j] \subseteq uni'[u][j],
           UNCHANGED <<helper, cpc, side, offset, roots, startTracked,
                       fetched, compared, verdict>>
    PROVE  FetchInv'
<1>1. \A u \in Sides : Tracked(u) \subseteq Tracked(u)'
  BY DEF Tracked
<1>2. UTypeOK'
  BY DEF FetchInv, UTypeOK
<1>3. \A u \in Sides : startTracked'[u] \subseteq Tracked(u)'
  BY <1>1 DEF FetchInv
<1>4. ScanSound'
  <2> SUFFICES ASSUME cpc' = "fetch", NEW i \in startTracked'[side'],
                      i \notin DOMAIN roots'[side']
               PROVE  Rank(side, i)' > offset'
    BY DEF FetchInv, ScanSound
  <2>1. side \in Sides /\ offset \in Nat
    BY DEF FetchInv, UTypeOK
  <2>2. Rank(side, i) > offset
    BY DEF FetchInv, ScanSound
  <2>3. IsFiniteSet(Tracked(side)') /\ Tracked(side)' \in SUBSET Ids
    BY IdSetFacts DEF Tracked
  <2>4. CountUpTo(Tracked(side), i) <= CountUpTo(Tracked(side)', i)
    BY <1>1, <2>1, <2>3, CountMonotone
  <2>5. /\ {j \in Tracked(side) : j <= i} \in SUBSET Ids
        /\ {j \in Tracked(side)' : j <= i} \in SUBSET Ids
    BY DEF Tracked
  <2>6. Rank(side, i) \in Nat /\ Rank(side, i)' \in Nat
    BY <2>5, IdSetFacts DEF Rank
  <2>. QED
    BY <2>1, <2>2, <2>4, <2>6 DEF Rank, CountUpTo
<1>5. FetchComplete'
  BY DEF FetchInv, FetchComplete
<1>. QED
  BY <1>2, <1>3, <1>4, <1>5 DEF FetchInv

\* A poll starts a scan of A at offset 0 with nothing fetched.
LEMMA StartPollStep == FetchInv /\ StartPoll => FetchInv'
<1> SUFFICES ASSUME FetchInv, StartPoll PROVE FetchInv'
  OBVIOUS
<1>1. UTypeOK'
  BY DEF FetchInv, UTypeOK, StartPoll, Tracked, EmptyMap, Sides
<1>2. \A u \in Sides : startTracked'[u] \subseteq Tracked(u)'
  BY DEF FetchInv, UTypeOK, StartPoll, Tracked
<1>3. ScanSound'
  <2>1. ASSUME NEW i \in startTracked'["A"] PROVE Rank("A", i)' > 0
    <3>1. i \in Tracked("A")
      BY <2>1 DEF StartPoll, FetchInv, UTypeOK, Sides
    <3>2. Rank("A", i)' = Rank("A", i)
      BY DEF StartPoll, Rank, Tracked
    <3>. QED
      BY <3>1, <3>2, RankPositive
  <2>. QED
    BY <2>1 DEF StartPoll, ScanSound
<1>4. FetchComplete'
  BY DEF StartPoll, FetchComplete
<1>. QED
  BY <1>1, <1>2, <1>3, <1>4 DEF FetchInv

\* The end of a side's fetch: the side is complete once its roots cover
\* every ID it tracked at the start; the scan of B then begins at offset 0.
LEMMA EndOfSideStep ==
    ASSUME FetchInv, cpc = "fetch", NEW r, EndOfSide(r),
           DOMAIN r = Sides, \A u \in Sides : DOMAIN r[u] \subseteq Ids,
           startTracked[side] \subseteq DOMAIN r[side],
           \A u \in Sides \ {side} : r[u] = roots[u],
           UNCHANGED <<helper, uni, compared, verdict>>
    PROVE  FetchInv'
<1>1. side \in Sides /\ fetched = IF side = "A" THEN {} ELSE {"A"}
  BY DEF FetchInv, UTypeOK, ScanSound
<1>2. CASE side = "A"
  <2>1. /\ side' = "B" /\ offset' = 0 /\ cpc' = "fetch"
        /\ startTracked' = [startTracked EXCEPT !["B"] = Tracked("B")]
        /\ fetched' = {"A"} /\ roots' = r
    BY <1>1, <1>2 DEF EndOfSide
  <2>2. UTypeOK'
    BY <2>1 DEF FetchInv, UTypeOK, Tracked, Sides
  <2>3. \A u \in Sides : startTracked'[u] \subseteq Tracked(u)'
    BY <2>1 DEF FetchInv, UTypeOK, Tracked
  <2>4. ScanSound'
    <3>1. ASSUME NEW i \in startTracked'["B"] PROVE Rank("B", i)' > 0
      <4>1. i \in Tracked("B")
        BY <2>1, <3>1 DEF FetchInv, UTypeOK, Sides
      <4>2. Rank("B", i)' = Rank("B", i)
        BY DEF Rank, Tracked
      <4>. QED
        BY <4>1, <4>2, RankPositive
    <3>. QED
      BY <2>1, <3>1 DEF ScanSound
  <2>5. FetchComplete'
    BY <1>2, <2>1 DEF FetchInv, UTypeOK, FetchComplete
  <2>. QED
    BY <2>2, <2>3, <2>4, <2>5 DEF FetchInv
<1>3. CASE side = "B"
  <2>1. /\ cpc' = "compare" /\ fetched' = {"A", "B"} /\ roots' = r
        /\ UNCHANGED <<side, offset, startTracked>>
    BY <1>1, <1>3 DEF EndOfSide
  <2>2. startTracked["A"] \subseteq DOMAIN roots["A"]
    BY <1>1, <1>3 DEF FetchInv, FetchComplete
  <2>3. FetchComplete'
    BY <1>3, <2>1, <2>2 DEF FetchComplete, Sides
  <2>4. UTypeOK'
    BY <2>1 DEF FetchInv, UTypeOK, Sides
  <2>. QED
    BY <2>1, <2>3, <2>4 DEF FetchInv, ScanSound, Tracked
<1>. QED
  BY <1>1, <1>2, <1>3 DEF Sides

\* A non-empty page is merged and the offset moves past it: an ID of the
\* page is merged, an ID beyond it is still ahead of the new offset.
LEMMA FetchPageMergeStep ==
    ASSUME FetchInv, FetchAssumption, cpc = "fetch",
           Page(side, offset, PageSize) # {},
           roots' = [roots EXCEPT ![side] =
                        Merge(@, side, Page(side, offset, PageSize))],
           offset' = offset + PageSize,
           UNCHANGED <<helper, uni, cpc, side, startTracked, fetched,
                       compared, verdict>>
    PROVE  FetchInv'
<1> DEFINE page == Page(side, offset, PageSize)
<1>1. side \in Sides /\ offset \in Nat /\ PageSize \in Nat
  BY DEF FetchInv, UTypeOK, FetchAssumption
<1>2. page \subseteq Tracked(side) /\ Tracked(side) \subseteq Ids
  BY DEF Page, Tracked
<1>3. DOMAIN roots'[side] = DOMAIN roots[side] \cup page
  BY <1>1 DEF FetchInv, UTypeOK, Merge
<1>4. \A u \in Sides \ {side} : roots'[u] = roots[u]
  BY DEF FetchInv, UTypeOK
<1>5. UTypeOK'
  BY <1>1, <1>2, <1>3, <1>4 DEF FetchInv, UTypeOK
<1>6. ScanSound'
  <2> SUFFICES ASSUME NEW i \in startTracked[side],
                      i \notin DOMAIN roots'[side]
               PROVE  Rank(side, i) > offset + PageSize
    BY DEF ScanSound, FetchInv, Rank, Tracked
  <2>1. i \notin DOMAIN roots[side] /\ i \notin page
    BY <1>3
  <2>2. Rank(side, i) > offset
    BY <2>1 DEF FetchInv, ScanSound
  <2>3. i \in Tracked(side)
    BY <1>1 DEF FetchInv
  <2>4. Rank(side, i) \in Nat
    BY <2>3, RankPositive
  <2>. QED
    BY <1>1, <2>1, <2>2, <2>3, <2>4 DEF Page
<1>7. FetchComplete'
  <2>1. side \notin fetched
    BY DEF FetchInv, ScanSound
  <2>. QED
    BY <1>4, <2>1 DEF FetchInv, FetchComplete, UTypeOK
<1>. QED
  BY <1>5, <1>6, <1>7 DEF FetchInv, Tracked

\* An empty page ends the scan with every ID of the start merged: an ID
\* still ahead of the offset would put an ID at rank offset+1 on the page.
LEMMA FetchPageEndStep ==
    ASSUME FetchInv, FetchAssumption, cpc = "fetch",
           Page(side, offset, PageSize) = {},
           EndOfSide(roots),
           UNCHANGED <<helper, uni, compared, verdict>>
    PROVE  FetchInv'
<1>1. side \in Sides /\ offset \in Nat /\ PageSize \in Nat \ {0}
  BY DEF FetchInv, UTypeOK, FetchAssumption
<1>2. startTracked[side] \subseteq DOMAIN roots[side]
  <2> SUFFICES ASSUME NEW i \in startTracked[side],
                      i \notin DOMAIN roots[side]
               PROVE  FALSE
    OBVIOUS
  <2>1. i \in Tracked(side) /\ Tracked(side) \in SUBSET Ids
    BY <1>1 DEF FetchInv, Tracked
  <2>2. Tracked(side) \in SUBSET Nat /\ IsFiniteSet(Tracked(side))
    BY <2>1, IdSetFacts
  <2>3. CountUpTo(Tracked(side), i) > offset
    BY DEF FetchInv, ScanSound, Rank, CountUpTo
  <2>4. PICK j \in Tracked(side) : CountUpTo(Tracked(side), j) = offset + 1
    BY <1>1, <2>1, <2>2, <2>3, CountContiguous
  <2>5. j \in Page(side, offset, PageSize)
    BY <1>1, <2>4 DEF Page, Rank, CountUpTo
  <2>. QED
    BY <2>5
<1>. QED
  BY <1>1, <1>2, EndOfSideStep DEF FetchInv, UTypeOK

\* The single AssetRoots call without a limit returns every tracked ID when
\* there are at most DefaultLimit of them.
LEMMA FetchAllStep ==
    ASSUME FetchInv, FetchAssumption, FetchAll
    PROVE  FetchInv'
<1> DEFINE page == Page(side, 0, DefaultLimit)
           r == [roots EXCEPT ![side] = Merge(EmptyMap, side, page)]
<1>1. side \in Sides /\ DefaultLimit \in Nat /\ helper \in Helpers
  BY UniverseAssumption DEF FetchInv, UTypeOK
<1>2. Cardinality(Ids) <= DefaultLimit
  BY <1>1 DEF FetchAll, FetchAssumption
<1>3. startTracked[side] \subseteq page
  <2> SUFFICES ASSUME NEW i \in startTracked[side] PROVE i \in page
    OBVIOUS
  <2>1. i \in Tracked(side) /\ Tracked(side) \in SUBSET Ids
    BY <1>1 DEF FetchInv, Tracked
  <2>2. Rank(side, i) \in 1..Cardinality(Tracked(side))
    BY <2>1, RankPositive
  <2>3. Cardinality(Tracked(side)) <= Cardinality(Ids)
        /\ Cardinality(Tracked(side)) \in Nat /\ Cardinality(Ids) \in Nat
    BY <2>1, IdSetFacts, UniverseAssumption, FS_CardinalityType
  <2>. QED
    BY <1>1, <1>2, <2>1, <2>2, <2>3 DEF Page
<1>4. DOMAIN r[side] = page /\ page \subseteq Ids
  BY <1>1 DEF FetchInv, UTypeOK, Merge, EmptyMap, Page, Tracked
<1>. QED
  BY <1>1, <1>3, <1>4, EndOfSideStep DEF FetchAll, FetchInv, UTypeOK

LEMMA FetchInvStep ==
    ASSUME FetchAssumption
    PROVE  FetchInv /\ [Next]_vars => FetchInv'
<1> SUFFICES ASSUME FetchInv, [Next]_vars PROVE FetchInv'
  OBVIOUS
<1>1. ASSUME NEW i \in Ids, NEW k \in LeafKeys, Mint(i, k) \/ SyncLeaf(i, k)
      PROVE  FetchInv'
  <2>1. PICK u0 \in Sides :
            /\ uni' = [uni EXCEPT ![u0][i] = @ \cup {k}]
            /\ UNCHANGED <<helper, cpc, side, offset, roots, startTracked,
                           fetched, compared, verdict>>
    BY <1>1 DEF Mint, SyncLeaf, Sides
  <2>2. uni' \in [Sides -> [Ids -> SUBSET LeafKeys]]
    BY <2>1 DEF FetchInv, UTypeOK
  <2>3. \A u \in Sides, j \in Ids : uni[u][j] \subseteq uni'[u][j]
    BY <2>1 DEF FetchInv, UTypeOK
  <2>. QED
    BY <2>1, <2>2, <2>3, GrowStep
<1>2. CASE StartPoll
  BY <1>2, StartPollStep
<1>3. CASE FetchPage
  <2>1. CASE Page(side, offset, PageSize) = {}
    BY <1>3, <2>1, FetchPageEndStep DEF FetchPage
  <2>2. CASE Page(side, offset, PageSize) # {}
    BY <1>3, <2>2, FetchPageMergeStep DEF FetchPage
  <2>. QED
    BY <2>1, <2>2
<1>4. CASE FetchAll
  BY <1>4, FetchAllStep
<1>5. CASE Compare \/ CompareOnce
  <2>1. cpc' # "fetch" /\ UNCHANGED <<roots, startTracked, fetched, uni>>
    BY <1>5 DEF Compare, CompareOnce
  <2>2. compared' \in BOOLEAN /\ verdict' \in BOOLEAN
        /\ cpc' \in {"idle", "done"}
    BY <1>5 DEF Compare, CompareOnce, AssertUniverseRootsEqual,
       AssertUniverseRootEqual
  <2>3. UNCHANGED <<helper, side, offset>>
    BY <1>5 DEF Compare, CompareOnce
  <2>. QED
    BY <2>1, <2>2, <2>3 DEF FetchInv, UTypeOK, ScanSound,
       FetchComplete, Tracked
<1>6. CASE UNCHANGED vars
  <2>1. UNCHANGED <<helper, uni, cpc, side, offset, roots, startTracked,
                    fetched, compared, verdict>>
    BY <1>6 DEF vars
  <2>2. \A u \in Sides : Tracked(u)' = Tracked(u)
    BY <2>1 DEF Tracked
  <2>3. \A u \in Sides, i \in Ids : Rank(u, i)' = Rank(u, i)
    BY <2>2 DEF Rank
  <2>. QED
    BY <2>1, <2>2, <2>3 DEF FetchInv, UTypeOK, ScanSound, FetchComplete
<1>7. CASE Terminating
  BY <1>6, <1>7 DEF Terminating
<1>. QED
  BY <1>1, <1>2, <1>3, <1>4, <1>5, <1>6, <1>7 DEF Next, Comparer

(***************************************************************************)
(* Theorems                                                                *)
(***************************************************************************)

\* assetRoots's offset pagination loses no universe while the minter and
\* the syncer keep inserting: every completed fetch holds every ID its side
\* tracked when the fetch began, for any number of IDs and any positive
\* page size, and the single AssetRoots call of AssertUniverseRootEquality
\* and AssertUniverseRootEqualityEventually does when there are at most
\* DefaultLimit IDs.
THEOREM FetchCompleteness ==
    ASSUME FetchAssumption
    PROVE  Spec => []FetchComplete
<1>1. FetchInv => FetchComplete
  BY DEF FetchInv
<1>. QED
  BY InitFetchInv, FetchInvStep, <1>1, PTL DEF Spec

(***************************************************************************)
(* NoFalseMismatch.  A comparison's result stays attached to the roots it *)
(* compared: they change only in a new poll, which clears `compared`.     *)
(***************************************************************************)

\* AssertUniverseRootsEqual returns false only for root maps that differ:
\* in their key sets, or in the root of some ID.
LEMMA RootsEqualFalse ==
    ASSUME NEW a, NEW b, FALSE \in AssertUniverseRootsEqual(a, b)
    PROVE  ~RootsEqual(a, b)
<1> SUFFICES ASSUME RootsEqual(a, b) PROVE FALSE
  OBVIOUS
<1>1. DOMAIN a = DOMAIN b /\ \A k \in DOMAIN a : a[k] = b[k]
  BY DEF RootsEqual
<1>2. \A k \in DOMAIN a : AssertUniverseRootEqual(a[k], b[k])
  BY <1>1 DEF AssertUniverseRootEqual
<1>3. FALSE \in {AssertUniverseRootEqual(a[k], b[k]) : k \in DOMAIN a}
  BY <1>1 DEF AssertUniverseRootsEqual
<1>. QED
  BY <1>2, <1>3

CompareInv ==
    /\ compared => cpc \in {"idle", "done"}
    /\ NoFalseMismatch

LEMMA InitCompareInv == Init => CompareInv
BY DEF Init, CompareInv, NoFalseMismatch

LEMMA CompareInvStep == CompareInv /\ [Next]_vars => CompareInv'
<1> SUFFICES ASSUME CompareInv, [Next]_vars PROVE CompareInv'
  OBVIOUS
<1>1. CASE Compare \/ CompareOnce
  <2>1. PICK v \in AssertUniverseRootsEqual(roots["A"], roots["B"]) :
            /\ compared' = TRUE /\ verdict' = v
            /\ cpc' \in {"idle", "done"}
            /\ UNCHANGED roots
    BY <1>1 DEF Compare, CompareOnce
  <2>2. v \in BOOLEAN
    BY <2>1 DEF AssertUniverseRootsEqual, AssertUniverseRootEqual
  <2>3. ~v => ~RootsEqual(roots["A"], roots["B"])
    BY <2>1, <2>2, RootsEqualFalse, Zenon
  <2>. QED
    BY <2>1, <2>3 DEF CompareInv, NoFalseMismatch
<1>2. CASE StartPoll
  BY <1>2 DEF StartPoll, CompareInv, NoFalseMismatch
<1>3. CASE FetchPage \/ FetchAll
  <2>1. cpc = "fetch" /\ compared' = compared
    BY <1>3 DEF FetchPage, FetchAll
  <2>2. ~compared'
    BY <2>1 DEF CompareInv
  <2>. QED
    BY <2>2 DEF CompareInv, NoFalseMismatch
<1>4. ASSUME NEW i \in Ids, NEW k \in LeafKeys, Mint(i, k) \/ SyncLeaf(i, k)
      PROVE  CompareInv'
  BY <1>4 DEF Mint, SyncLeaf, CompareInv, NoFalseMismatch
<1>5. CASE UNCHANGED vars
  BY <1>5 DEF vars, CompareInv, NoFalseMismatch
<1>6. CASE Terminating
  BY <1>5, <1>6 DEF Terminating
<1>. QED
  BY <1>1, <1>2, <1>3, <1>4, <1>5, <1>6 DEF Next, Comparer

\* A mismatch AssertUniverseRootsEqual reports is real: the root maps the
\* comparer fetched differ, whichever key Go's map iteration yields first,
\* however the minter and the syncer interleave with the scans.
THEOREM NoFalseMismatchSafety == Spec => []NoFalseMismatch
<1>1. CompareInv => NoFalseMismatch
  BY DEF CompareInv
<1>. QED
  BY InitCompareInv, CompareInvStep, <1>1, PTL DEF Spec

=============================================================================
