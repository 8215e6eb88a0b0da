---------------------------- MODULE BalancesProofs ----------------------------
(***************************************************************************)
(* Proofs about AssertBalances, for every set of assets, groups, script   *)
(* keys, anchors and amounts and every wallet the daemon can reach.  The  *)
(* helper's four RPC answers are sums and counts over sets of wallet      *)
(* slots; each set is shown equal to the reference selection RefSlots,    *)
(* and equal sets have equal sums and sizes.                               *)
(***************************************************************************)
EXTENDS Balances, TLAPS

\* The ScriptKeyTypeQuery of TypeListed, as a disjunction.
LEMMA TypeListedDef ==
    ASSUME NEW t, NEW q
    PROVE  TypeListed(t, q) <=>
              \/ q = "all"
              \/ q = "default" /\ t = "bip86"
              \/ q \notin {"all", "default"} /\ t = q
BY Zenon DEF TypeListed

\* The key types the helper's query lists are those the options select.
LEMMA QueryMatchesOptions ==
    ASSUME NEW f \in Filters, NEW g, NEW n, NEW a, NEW t \in KeyTypes
    PROVE  TypeListed(t, rpcTypeQuery(Config(f, g, n, a))) <=>
              \/ f.allScriptKeyTypes
              \/ f.scriptKeyType # Nil /\ t = f.scriptKeyType
              \/ f.scriptKeyType = Nil /\ t = "bip86"
<1>1. f.allScriptKeyTypes \in BOOLEAN /\ f.scriptKeyType \in KeyTypes \cup {Nil}
  BY DEF Filters
<1>2. rpcTypeQuery(Config(f, g, n, a)) =
        IF f.allScriptKeyTypes THEN "all"
        ELSE IF f.scriptKeyType # Nil THEN f.scriptKeyType ELSE "default"
  BY DEF rpcTypeQuery, Config
<1>3. "all" \notin KeyTypes /\ "default" \notin KeyTypes
  BY DEF KeyTypes
<1>. QED
  BY <1>1, <1>2, <1>3, TypeListedDef, BalancesAssumption DEF KeyTypes, Nil

\* A wallet the daemon can hold: outputs in some of the slots.
Wallets == UNION {[D -> Outputs] : D \in SUBSET Slots}

\* The options with the asset ID, group key and script key filters removed:
\* what the anchor count of ListUtxos is over.
Unfiltered(f) == [f EXCEPT !.assetID = Nil, !.groupKey = Nil, !.scriptKey = Nil]

\* What a slot's output tells the filters apart by.
LEMMA SlotFacts ==
    ASSUME NEW w \in Wallets, NEW s \in DOMAIN w
    PROVE  /\ KeyTypeOf[w[s].key] \in KeyTypes
           /\ GroupOf[w[s].id] \in Groups \cup {NoGroup}
           /\ w[s].leased \in BOOLEAN
BY BalancesAssumption DEF Wallets, Outputs

\* ListAssets and ListUtxos list the outputs of the selected key types,
\* leased ones only when asked for: the reference without the client-side
\* filters.
LEMMA ListedIsRef ==
    ASSUME NEW w \in Wallets, NEW f \in Filters, NEW g, NEW n, NEW a
    PROVE  Listed(w, rpcTypeQuery(Config(f, g, n, a)),
                  Config(f, g, n, a).includeLeased)
             = RefSlots(w, Unfiltered(f))
<1>1. Unfiltered(f).allScriptKeyTypes = f.allScriptKeyTypes
      /\ Unfiltered(f).scriptKeyType = f.scriptKeyType
      /\ Unfiltered(f).includeLeased = f.includeLeased
      /\ Unfiltered(f).assetID = Nil /\ Unfiltered(f).groupKey = Nil
      /\ Unfiltered(f).scriptKey = Nil
  BY DEF Unfiltered, Filters
<1>2. Config(f, g, n, a).includeLeased = f.includeLeased
  BY DEF Config
<1>3. ASSUME NEW s \in DOMAIN w
      PROVE  TypeListed(KeyTypeOf[w[s].key], rpcTypeQuery(Config(f, g, n, a)))
             <=> \/ f.allScriptKeyTypes
                 \/ f.scriptKeyType # Nil
                    /\ KeyTypeOf[w[s].key] = f.scriptKeyType
                 \/ f.scriptKeyType = Nil /\ KeyTypeOf[w[s].key] = "bip86"
  BY SlotFacts, QueryMatchesOptions
<1>. QED
  BY <1>1, <1>2, <1>3 DEF Listed, RefSlots

\* The reference selection without the client-side filters: the key
\* types and the lease filter.
LEMMA UnfilteredSlots ==
    ASSUME NEW w, NEW f \in Filters, NEW s
    PROVE  s \in RefSlots(w, Unfiltered(f)) <=>
              /\ s \in DOMAIN w
              /\ \/ f.allScriptKeyTypes
                 \/ f.scriptKeyType # Nil
                    /\ KeyTypeOf[w[s].key] = f.scriptKeyType
                 \/ f.scriptKeyType = Nil /\ KeyTypeOf[w[s].key] = "bip86"
              /\ f.includeLeased \/ ~w[s].leased
<1>1. Unfiltered(f).allScriptKeyTypes = f.allScriptKeyTypes
      /\ Unfiltered(f).scriptKeyType = f.scriptKeyType
      /\ Unfiltered(f).includeLeased = f.includeLeased
      /\ Unfiltered(f).assetID = Nil /\ Unfiltered(f).groupKey = Nil
      /\ Unfiltered(f).scriptKey = Nil
  BY DEF Unfiltered, Filters
<1>. QED
  BY <1>1 DEF RefSlots

\* The reference selection is the unfiltered one cut down by the asset ID,
\* group key and script key filters.
LEMMA RefSlotsSplit ==
    ASSUME NEW w, NEW f \in Filters, NEW s
    PROVE  s \in RefSlots(w, f) <=>
              /\ s \in RefSlots(w, Unfiltered(f))
              /\ f.assetID = Nil \/ w[s].id = f.assetID
              /\ f.groupKey = Nil \/ GroupOf[w[s].id] = f.groupKey
              /\ f.scriptKey = Nil \/ w[s].key = f.scriptKey
BY UnfilteredSlots DEF RefSlots

\* The ListAssets and ListUtxos loops count exactly the selected outputs:
\* the client-side group filter's extra "has a group" test is implied by
\* the group key, which is never the "no group" marker.
LEMMA CountedIsRef ==
    ASSUME NEW w \in Wallets, NEW f \in Filters, NEW g, NEW n, NEW a
    PROVE  {s \in Listed(w, rpcTypeQuery(Config(f, g, n, a)),
                         Config(f, g, n, a).includeLeased) :
               AssetMatches(w[s], Config(f, g, n, a))}
             = RefSlots(w, f)
<1>1. f.groupKey \in Groups \cup {Nil} /\ NoGroup \notin Groups
  BY BalancesAssumption DEF Filters
<1>2. ASSUME NEW s \in DOMAIN w
      PROVE  AssetMatches(w[s], Config(f, g, n, a)) <=>
               /\ f.assetID = Nil \/ w[s].id = f.assetID
               /\ f.groupKey = Nil \/ GroupOf[w[s].id] = f.groupKey
               /\ f.scriptKey = Nil \/ w[s].key = f.scriptKey
  BY <1>1 DEF AssetMatches, Config
<1>6. {s \in Listed(w, rpcTypeQuery(Config(f, g, n, a)),
                   Config(f, g, n, a).includeLeased) :
          AssetMatches(w[s], Config(f, g, n, a))}
      = {s \in RefSlots(w, Unfiltered(f)) :
          AssetMatches(w[s], Config(f, g, n, a))}
  BY ListedIsRef
<1>7. {s \in RefSlots(w, Unfiltered(f)) :
          AssetMatches(w[s], Config(f, g, n, a))}
      = RefSlots(w, f)
  <2>1. ASSUME NEW s
        PROVE  s \in RefSlots(w, Unfiltered(f))
                 /\ AssetMatches(w[s], Config(f, g, n, a))
               <=> s \in RefSlots(w, f)
    BY <1>2, RefSlotsSplit, UnfilteredSlots
  <2>. QED
    BY <2>1
<1>. QED
  BY <1>6, <1>7

\* When the ListBalances checks run (no burn or tombstone query, no script
\* key) and the options do not ask for all key types, ListBalances adds up
\* exactly the selected outputs: the listed types are never burns or
\* tombstones, so the server's drop of those changes nothing.
LEMMA BalanceSlotsIsRef ==
    ASSUME NEW w \in Wallets, NEW f \in Filters, NEW g, NEW n, NEW a,
           ~f.allScriptKeyTypes, checkBalance(Config(f, g, n, a)),
           NEW byGroup \in BOOLEAN, NEW s
    PROVE  s \in BalanceSlots(w, Config(f, g, n, a), byGroup) <=>
             /\ s \in RefSlots(w, f)
             /\ byGroup => GroupOf[w[s].id] # NoGroup
<1>1. /\ f.scriptKey = Nil
      /\ f.scriptKeyType = Nil \/ f.scriptKeyType \notin {"burn", "tombstone"}
  BY DEF checkBalance, Config
<1>2. /\ Config(f, g, n, a).assetID = f.assetID
      /\ Config(f, g, n, a).groupKey = f.groupKey
  BY DEF Config
<1>3. s \in RefSlots(w, Unfiltered(f)) =>
        KeyTypeOf[w[s].key] \notin {"burn", "tombstone"}
  BY <1>1, UnfilteredSlots
<1>4. s \in BalanceSlots(w, Config(f, g, n, a), byGroup) <=>
               /\ s \in RefSlots(w, Unfiltered(f))
               /\ f.assetID = Nil \/ w[s].id = f.assetID
               /\ f.groupKey = Nil \/ GroupOf[w[s].id] = f.groupKey
               /\ byGroup => GroupOf[w[s].id] # NoGroup
  BY <1>2, <1>3, ListedIsRef DEF BalanceSlots
<1>. QED
  BY <1>1, <1>4, RefSlotsSplit

\* ListUtxos counts the anchors of every listed output: those of the
\* reference selection without the client-side filters.
LEMMA AnchorsIsRef ==
    ASSUME NEW w \in Wallets, NEW f \in Filters, NEW g, NEW n, NEW a
    PROVE  {w[s].anchor : s \in Listed(w, rpcTypeQuery(Config(f, g, n, a)),
                                     Config(f, g, n, a).includeLeased)}
             = RefAnchors(w, f)
BY ListedIsRef DEF RefAnchors, Unfiltered

\* AssertBalances passes, in any wallet, for the true balance and, when
\* asked for, the true grouped balance and counts.
LEMMA WalletNoFalseFailure ==
    ASSUME ~AllTypesOption, NEW w \in Wallets, NEW f \in Filters,
           NEW gb \in BOOLEAN, NEW nb \in BOOLEAN, NEW ab \in BOOLEAN
    PROVE  LET grouped == IF gb THEN RefGroupedBalance(w, f) ELSE 0
               num == IF nb THEN Cardinality(RefSlots(w, f)) ELSE 0
               anc == IF ab THEN Cardinality(RefAnchors(w, f)) ELSE 0
           IN  AssertBalances(w, Config(f, grouped, num, anc),
                              RefBalance(w, f))
<1> SUFFICES ASSUME NEW grouped, NEW num, NEW anc,
                    grouped = IF gb THEN RefGroupedBalance(w, f) ELSE 0,
                    num = IF nb THEN Cardinality(RefSlots(w, f)) ELSE 0,
                    anc = IF ab THEN Cardinality(RefAnchors(w, f)) ELSE 0
             PROVE  AssertBalances(w, Config(f, grouped, num, anc),
                                   RefBalance(w, f))
  OBVIOUS
<1>1. ~f.allScriptKeyTypes
  BY DEF Filters
<1>2. /\ Config(f, grouped, num, anc).groupedAssetBalance = grouped
      /\ Config(f, grouped, num, anc).numAssetUtxos = num
      /\ Config(f, grouped, num, anc).numAnchorUtxos = anc
  BY DEF Config
<1>3. RefBalance(w, f) = balanceSum(w, RefSlots(w, f))
  BY Zenon DEF RefBalance, balanceSum
<1>4. BalancesChecked(w, Config(f, grouped, num, anc), RefBalance(w, f))
  <2>1. ASSUME checkBalance(Config(f, grouped, num, anc))
        PROVE  BalanceSlots(w, Config(f, grouped, num, anc), FALSE)
                 = RefSlots(w, f)
    <3>1. ASSUME NEW s
          PROVE  s \in BalanceSlots(w, Config(f, grouped, num, anc), FALSE) <=>
                   /\ s \in RefSlots(w, f)
                   /\ FALSE => GroupOf[w[s].id] # NoGroup
      BY <1>1, <2>1, BalanceSlotsIsRef
    <3>. QED
      BY <3>1
  <2>2. ASSUME checkBalance(Config(f, grouped, num, anc))
        PROVE  BalanceSlots(w, Config(f, grouped, num, anc), TRUE)
                 = {s \in RefSlots(w, f) : GroupOf[w[s].id] # NoGroup}
    <3>1. ASSUME NEW s
          PROVE  s \in BalanceSlots(w, Config(f, grouped, num, anc), TRUE) <=>
                   /\ s \in RefSlots(w, f)
                   /\ TRUE => GroupOf[w[s].id] # NoGroup
      BY <1>1, <2>2, BalanceSlotsIsRef
    <3>. QED
      BY <3>1
  <2>3. RefGroupedBalance(w, f)
          = balanceSum(w, {s \in RefSlots(w, f) : GroupOf[w[s].id] # NoGroup})
    BY Zenon DEF RefGroupedBalance, balanceSum
  <2>4. grouped > 0 => grouped = RefGroupedBalance(w, f)
    OBVIOUS
  <2>. QED
    BY <1>2, <1>3, <2>1, <2>2, <2>3, <2>4 DEF BalancesChecked
<1>5. ListAssetsChecked(w, Config(f, grouped, num, anc), RefBalance(w, f))
  <2>1. {s \in Listed(w, rpcTypeQuery(Config(f, grouped, num, anc)),
                      Config(f, grouped, num, anc).includeLeased) :
            AssetMatches(w[s], Config(f, grouped, num, anc))} = RefSlots(w, f)
    BY CountedIsRef
  <2>. QED
    BY <1>2, <1>3, <2>1 DEF ListAssetsChecked
<1>6. ListUtxosChecked(w, Config(f, grouped, num, anc), RefBalance(w, f))
  <2>1. {s \in Listed(w, rpcTypeQuery(Config(f, grouped, num, anc)),
                      Config(f, grouped, num, anc).includeLeased) :
            AssetMatches(w[s], Config(f, grouped, num, anc))} = RefSlots(w, f)
    BY CountedIsRef
  <2>2. {w[s].anchor : s \in Listed(w, rpcTypeQuery(Config(f, grouped, num, anc)),
                                   Config(f, grouped, num, anc).includeLeased)}
          = RefAnchors(w, f)
    BY AnchorsIsRef
  <2>3. RefBalance(w, f)
          = balanceSum(w, {s \in Listed(w, rpcTypeQuery(Config(f, grouped, num, anc)),
                                        Config(f, grouped, num, anc).includeLeased) :
                              AssetMatches(w[s], Config(f, grouped, num, anc))})
    BY <1>3, <2>1
  <2>4. Config(f, grouped, num, anc).numAnchorUtxos > 0 =>
          Config(f, grouped, num, anc).numAnchorUtxos
            = Cardinality({w[s].anchor :
                 s \in Listed(w, rpcTypeQuery(Config(f, grouped, num, anc)),
                              Config(f, grouped, num, anc).includeLeased)})
    <3>1. anc > 0 => anc = Cardinality(RefAnchors(w, f))
      OBVIOUS
    <3>. QED
      BY <1>2, <2>2, <3>1, Zenon
  <2>5. Config(f, grouped, num, anc).numAssetUtxos > 0 =>
          Config(f, grouped, num, anc).numAssetUtxos
            = Cardinality({s \in Listed(w, rpcTypeQuery(Config(f, grouped, num, anc)),
                                        Config(f, grouped, num, anc).includeLeased) :
                              AssetMatches(w[s], Config(f, grouped, num, anc))})
    BY <1>2, <2>1
  <2>. QED
    BY <2>3, <2>4, <2>5, Zenon DEF ListUtxosChecked
<1>. QED
  BY <1>4, <1>5, <1>6 DEF AssertBalances

\* AssertBalances, in any wallet, passes for no balance but the true one:
\* the ListAssets loop alone already adds up exactly the selected outputs.
LEMMA WalletNoFalsePass ==
    ASSUME NEW w \in Wallets, NEW f \in Filters, NEW b,
           AssertBalances(w, Config(f, 0, 0, 0), b)
    PROVE  b = RefBalance(w, f)
<1>1. {s \in Listed(w, rpcTypeQuery(Config(f, 0, 0, 0)),
                    Config(f, 0, 0, 0).includeLeased) :
          AssetMatches(w[s], Config(f, 0, 0, 0))} = RefSlots(w, f)
  BY CountedIsRef
<1>2. RefBalance(w, f) = balanceSum(w, RefSlots(w, f))
  BY Zenon DEF RefBalance, balanceSum
<1>3. ListAssetsChecked(w, Config(f, 0, 0, 0), b)
  BY DEF AssertBalances
<1>. QED
  BY <1>1, <1>2, <1>3, Zenon DEF ListAssetsChecked

-----------------------------------------------------------------------------
(* The wallet stays a function from occupied slots to outputs.           *)

WInv == wallet \in Wallets

\* The daemon starts with an empty wallet.
LEMMA InitWInv == Init => WInv
<1>1. [s \in {} |-> 0] \in [{} -> Outputs]
  OBVIOUS
<1>. QED
  BY <1>1 DEF Init, WInv, Wallets

\* Every step of the daemon (an output created, leased or spent) keeps the
\* wallet a finite map from slots to outputs.
LEMMA WInvStep == WInv /\ [Next]_wallet => WInv'
<1> SUFFICES ASSUME WInv, [Next]_wallet PROVE WInv'
  OBVIOUS
<1>1. PICK D \in SUBSET Slots : wallet \in [D -> Outputs]
  BY DEF WInv, Wallets
<1>2. ASSUME NEW s \in Slots, CreateOutput(s) PROVE WInv'
  <2>1. PICK id \in AssetIds, key \in ScriptKeys, amt \in Amounts,
             anchor \in Anchors :
          wallet' = [t \in DOMAIN wallet \cup {s} |->
                       IF t = s
                       THEN [id |-> id, key |-> key, amt |-> amt,
                             leased |-> FALSE, anchor |-> anchor]
                       ELSE wallet[t]]
    BY <1>2 DEF CreateOutput
  <2>2. wallet' \in [D \cup {s} -> Outputs]
    BY <1>1, <2>1 DEF Outputs
  <2>. QED
    BY <2>2 DEF WInv, Wallets
<1>3. ASSUME NEW s \in Slots, LeaseOutput(s) PROVE WInv'
  <2>1. wallet' \in [D -> Outputs]
    BY <1>1, <1>3 DEF LeaseOutput, Outputs
  <2>. QED
    BY <2>1 DEF WInv, Wallets
<1>4. ASSUME NEW s \in Slots, SpendOutput(s) PROVE WInv'
  <2>1. wallet' \in [D \ {s} -> Outputs]
    BY <1>1, <1>4 DEF SpendOutput
  <2>. QED
    BY <2>1 DEF WInv, Wallets
<1>5. CASE UNCHANGED wallet
  BY <1>5 DEF WInv
<1>. QED
  BY <1>2, <1>3, <1>4, <1>5 DEF Next

\* Without WithAllScriptKeyTypes, AssertBalances never fails for a test
\* that passes the true balance (and, if it asks, the true grouped balance
\* and counts) in any state the wallet reaches: its four RPCs agree.
THEOREM NoFalseFailureSafety ==
    ASSUME ~AllTypesOption
    PROVE  Spec => []NoFalseFailure
<1>2. WInv => NoFalseFailure
  BY WalletNoFalseFailure DEF WInv, NoFalseFailure
<1>. QED
  BY InitWInv, <1>2, WInvStep, PTL DEF Spec

\* AssertBalances never passes for a balance other than the true one of
\* the outputs its options select, in any state the wallet reaches.
THEOREM NoFalsePassSafety == Spec => []NoFalsePass
<1>2. WInv => NoFalsePass
  BY WalletNoFalsePass DEF WInv, NoFalsePass
<1>. QED
  BY InitWInv, <1>2, WInvStep, PTL DEF Spec

=============================================================================
