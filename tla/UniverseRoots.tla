---------------------------- MODULE UniverseRoots ----------------------------
(***************************************************************************)
(* Comparison of the universe roots of two daemons, as the integration    *)
(* tests of itest/assertions.go do it, while the daemons keep inserting   *)
(* leaves (a minter issuing into universe "A", a syncer copying A's leaves *)
(* into "B").                                                              *)
(*                                                                         *)
(* A universe maps each universe ID to the set of its leaves; its root is *)
(* the MS-SMT root of those leaves, abstracted to [id, hash, sum] with a  *)
(* collision-free hash (the leaf set itself) and the sum of the leaves'   *)
(* amounts.  The AssetRoots RPC (not in this repository, modelled from    *)
(* the spec) returns the roots of the tracked IDs ranked offset+1 ..      *)
(* offset+limit in ascending ID order, and at most DefaultLimit of them   *)
(* when the request carries no limit.                                     *)
(*                                                                         *)
(* The comparer is one of three helpers, chosen from Helpers:            *)
(*   "StateEqual": AssertUniverseStateEqual, which pages through both      *)
(*     universes with assetRoots and compares once;                        *)
(*   "RootEqualityEventually": AssertUniverseRootEqualityEventually, which *)
(*     fetches each universe with one AssetRoots call and polls until the  *)
(*     comparison holds;                                                   *)
(*   "RootEquality": AssertUniverseRootEquality, which fetches each       *)
(*     universe with one AssetRoots call and compares once (require.Equal *)
(*     with expectedEquality ends the helper whatever the result).        *)
(* All compare with AssertUniverseRootsEqual, which returns the result   *)
(* for the first key Go's randomised map iteration yields.               *)
(***************************************************************************)
EXTENDS Naturals, FiniteSets, FiniteSetsExt

CONSTANTS
    Ids,            \* universe IDs (ordered as numbers by the server)
    LeafKeys,       \* leaf keys a universe tree can hold
    Amount,         \* amount committed by each leaf
    PageSize,       \* pageSize argument of assetRoots
    DefaultLimit,   \* roots returned for a request without a limit
    Helpers         \* the test helpers that may compare

ASSUME UniverseAssumption ==
    /\ Ids \subseteq Nat /\ IsFiniteSet(Ids)
    /\ Amount \in [LeafKeys -> Nat]
    /\ PageSize \in Nat
    /\ DefaultLimit \in Nat \ {0}
    /\ Helpers \subseteq {"StateEqual", "RootEqualityEventually", "RootEquality"}
    /\ Helpers # {}

Sides == {"A", "B"}

VARIABLES
    helper,         \* the helper under test, one of Helpers
    uni,            \* uni[u][i]: the leaves of ID i in universe u
    cpc,            \* comparer: "idle", "fetch", "compare", "done"
    side,           \* the universe being fetched
    offset,         \* assetRoots's offset
    roots,          \* roots[u]: the map of roots fetched from u
    startTracked,   \* IDs u tracked when its fetch began (ghost)
    fetched,        \* universes whose fetch has completed in this poll
    compared,       \* whether the comparison of this poll has returned
    verdict         \* what it returned

vars == <<helper, uni, cpc, side, offset, roots, startTracked, fetched,
          compared, verdict>>

\* The IDs universe u tracks: those with at least one leaf.
Tracked(u) == {i \in Ids : uni[u][i] # {}}

\* The position of tracked ID i in the server's ascending order.
Rank(u, i) == Cardinality({j \in Tracked(u) : j <= i})

\* Mutant: a root returned without its universe ID.
RootNoId(u, i) ==
    [hash |-> uni[u][i], sum |-> MapThenSumSet(LAMBDA k : Amount[k], uni[u][i])]

\* The universe root of ID i in u.
Root(u, i) ==
    [id |-> i, hash |-> uni[u][i],
     sum |-> MapThenSumSet(LAMBDA k : Amount[k], uni[u][i])]

\* AssetRoots(offset, limit): the IDs of the page.
Page(u, off, lim) ==
    {i \in Tracked(u) : off < Rank(u, i) /\ Rank(u, i) <= off + lim}

\* for k, v := range res.UniverseRoots { roots[k] = v }
Merge(m, u, page) ==
    [i \in DOMAIN m \cup page |-> IF i \in page THEN Root(u, i) ELSE m[i]]

EmptyMap == [i \in {} |-> 0]

\* Mutant: the root-hash check inverted.
AssertUniverseRootEqualInverted(ra, rb) ==
    /\ ra.id = rb.id
    /\ ra.hash # rb.hash
    /\ ra.sum = rb.sum

\* AssertUniverseRootEqual: IDs, root hashes and sums all match.
AssertUniverseRootEqual(ra, rb) ==
    /\ ra.id = rb.id
    /\ ra.hash = rb.hash
    /\ ra.sum = rb.sum

\* AssertUniverseRootsEqual: the results it can return.  After checking the
\* key sets, the loop returns the comparison of whichever key Go's map
\* iteration yields first.
AssertUniverseRootsEqual(a, b) ==
    IF Cardinality(DOMAIN a) # Cardinality(DOMAIN b) THEN {FALSE}
    ELSE IF ~(DOMAIN a \subseteq DOMAIN b) THEN {FALSE}
    ELSE IF DOMAIN a = {} THEN {TRUE}
    ELSE {AssertUniverseRootEqual(a[k], b[k]) : k \in DOMAIN a}

\* The reference: the same IDs are tracked and every root matches.
RootsEqual(a, b) ==
    /\ DOMAIN a = DOMAIN b
    /\ \A k \in DOMAIN a : a[k] = b[k]

-----------------------------------------------------------------------------

Init ==
    /\ helper \in Helpers
    /\ uni = [u \in Sides |-> [i \in Ids |-> {}]]
    /\ cpc = "idle"
    /\ side = "A"
    /\ offset = 0
    /\ roots = [u \in Sides |-> EmptyMap]
    /\ startTracked = [u \in Sides |-> {}]
    /\ fetched = {}
    /\ compared = FALSE
    /\ verdict = FALSE

\* A leaf k is issued into ID i of universe A.
Mint(i, k) ==
    /\ k \notin uni["A"][i]
    /\ uni' = [uni EXCEPT !["A"][i] = @ \cup {k}]
    /\ UNCHANGED <<helper, cpc, side, offset, roots, startTracked, fetched,
                   compared, verdict>>

\* The syncer of B inserts a leaf of A that B lacks.
SyncLeaf(i, k) ==
    /\ k \in uni["A"][i] \ uni["B"][i]
    /\ uni' = [uni EXCEPT !["B"][i] = @ \cup {k}]
    /\ UNCHANGED <<helper, cpc, side, offset, roots, startTracked, fetched,
                   compared, verdict>>

\* The comparer starts a comparison (a poll of wait.NoError).
StartPoll ==
    /\ cpc = "idle"
    /\ cpc' = "fetch"
    /\ side' = "A"
    /\ offset' = 0
    /\ roots' = [u \in Sides |-> EmptyMap]
    /\ startTracked' = [startTracked EXCEPT !["A"] = Tracked("A")]
    /\ fetched' = {}
    /\ compared' = FALSE
    /\ UNCHANGED verdict
    /\ UNCHANGED <<helper, uni>>

\* The fetch of the current side is over: go on to B, or compare.
EndOfSide(r) ==
    /\ roots' = r
    /\ fetched' = fetched \cup {side}
    /\ IF side = "A"
       THEN /\ side' = "B"
            /\ offset' = 0
            /\ startTracked' = [startTracked EXCEPT !["B"] = Tracked("B")]
            /\ UNCHANGED cpc
       ELSE /\ cpc' = "compare"
            /\ UNCHANGED <<side, offset, startTracked>>

\* Mutant: the offset advanced one past the page.
FetchPageSkip ==
    /\ cpc = "fetch"
    /\ helper = "StateEqual"
    /\ LET page == Page(side, offset, PageSize) IN
         IF page = {}
         THEN EndOfSide(roots)
         ELSE /\ roots' = [roots EXCEPT ![side] = Merge(@, side, page)]
              /\ offset' = offset + PageSize + 1
              /\ UNCHANGED <<cpc, side, startTracked, fetched>>
    /\ UNCHANGED <<helper, uni, compared, verdict>>

\* One iteration of assetRoots's loop: an empty page ends the scan,
\* any other is merged and the offset advanced by pageSize.
FetchPage ==
    /\ cpc = "fetch"
    /\ helper = "StateEqual"
    /\ LET page == Page(side, offset, PageSize) IN
         IF page = {}
         THEN EndOfSide(roots)
         ELSE /\ roots' = [roots EXCEPT ![side] = Merge(@, side, page)]
              /\ offset' = offset + PageSize
              /\ UNCHANGED <<cpc, side, startTracked, fetched>>
    /\ UNCHANGED <<helper, uni, compared, verdict>>

\* client.AssetRoots(ctxt, &AssetRootRequest{}): a single call.
FetchAll ==
    /\ cpc = "fetch"
    /\ helper \in {"RootEqualityEventually", "RootEquality"}
    /\ EndOfSide([roots EXCEPT
                    ![side] = Merge(EmptyMap, side,
                                    Page(side, 0, DefaultLimit))])
    /\ UNCHANGED <<helper, uni, compared, verdict>>

\* AssertUniverseRootEquality (and AssertUniverseStateEqual): one call of
\* AssertUniverseRootsEqual, after which the helper returns.
CompareOnce ==
    /\ cpc = "compare"
    /\ helper # "RootEqualityEventually"
    /\ \E v \in AssertUniverseRootsEqual(roots["A"], roots["B"]) :
          /\ compared' = TRUE
          /\ verdict' = v
          /\ cpc' = "done"
    /\ UNCHANGED <<helper, uni, side, offset, roots, startTracked, fetched>>

\* Mutant: a poll whose closure never returns nil.
CompareNeverDone ==
    /\ cpc = "compare"
    /\ helper = "RootEqualityEventually"
    /\ \E v \in AssertUniverseRootsEqual(roots["A"], roots["B"]) :
          /\ compared' = TRUE
          /\ verdict' = v
          /\ cpc' = "idle"
    /\ UNCHANGED <<helper, uni, side, offset, roots, startTracked, fetched>>

\* One poll's AssertUniverseRootsEqual in AssertUniverseRootEqualityEventually:
\* the closure returns nil on true, and the poll starts over on false.
Compare ==
    /\ cpc = "compare"
    /\ helper = "RootEqualityEventually"
    /\ \E v \in AssertUniverseRootsEqual(roots["A"], roots["B"]) :
          /\ compared' = TRUE
          /\ verdict' = v
          /\ cpc' = IF v THEN "done" ELSE "idle"
    /\ UNCHANGED <<helper, uni, side, offset, roots, startTracked, fetched>>

\* The comparison has returned and no daemon has anything left to insert.
Terminating ==
    /\ cpc = "done"
    /\ \A i \in Ids : uni["A"][i] = LeafKeys /\ uni["B"][i] = LeafKeys
    /\ UNCHANGED vars

Comparer == StartPoll \/ FetchPage \/ FetchAll \/ CompareOnce \/ Compare

Next ==
    \/ \E i \in Ids, k \in LeafKeys : Mint(i, k) \/ SyncLeaf(i, k)
    \/ Comparer
    \/ Terminating

\* The comparer and the syncer run until they are done; issuance is up to
\* the user and is not assumed to happen.
Fairness ==
    /\ WF_vars(Comparer)
    /\ \A i \in Ids, k \in LeafKeys : WF_vars(SyncLeaf(i, k))

Spec == Init /\ [][Next]_vars /\ Fairness

-----------------------------------------------------------------------------
(* Properties                                                              *)

RootRecords == [id : Ids, hash : SUBSET LeafKeys, sum : Nat]

TypeOK ==
    /\ helper \in Helpers
    /\ uni \in [Sides -> [Ids -> SUBSET LeafKeys]]
    /\ cpc \in {"idle", "fetch", "compare", "done"}
    /\ side \in Sides
    /\ offset \in Nat
    /\ \A u \in Sides : /\ DOMAIN roots[u] \subseteq Ids
                        /\ \A i \in DOMAIN roots[u] : roots[u][i] \in RootRecords
    /\ startTracked \in [Sides -> SUBSET Ids]
    /\ fetched \subseteq Sides
    /\ compared \in BOOLEAN
    /\ verdict \in BOOLEAN

\* Offset pagination loses nothing while the daemon keeps inserting: when
\* assetRoots has scanned universe u, every ID u tracked when the scan
\* began is in the merged map (new IDs only shift later pages forward).
FetchComplete ==
    \A u \in fetched : startTracked[u] \subseteq DOMAIN roots[u]

\* A mismatch reported by AssertUniverseRootsEqual is a real difference
\* between the two fetched root maps.
NoFalseMismatch ==
    compared /\ ~verdict => ~RootsEqual(roots["A"], roots["B"])

\* Equality reported by AssertUniverseRootsEqual means the same IDs are
\* tracked with the same root hash and sum for every ID (spec 4.6).
VerdictSound ==
    compared /\ verdict => RootsEqual(roots["A"], roots["B"])

\* Every helper returns: AssertUniverseStateEqual and
\* AssertUniverseRootEquality after their one comparison,
\* and the polling helper because it eventually sees the two universes
\* equal (the syncer catches up with the finite issuance and a later poll
\* matches).
EventuallyEqual == <>(cpc = "done")

=============================================================================
