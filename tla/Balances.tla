------------------------------ MODULE Balances ------------------------------
(***************************************************************************)
(* AssertBalances of itest/assertions.go and its BalanceOption setters.   *)
(* The helper queries one daemon four times (ListBalances grouped by      *)
(* asset ID, ListBalances grouped by group key, ListAssets and ListUtxos) *)
(* with the filters its options select, and requires each answer to add  *)
(* up to the expected balance and counts.                                  *)
(*                                                                         *)
(* The wallet maps the occupied slots to their asset outputs: asset ID,  *)
(* script key, amount, lease flag and anchor outpoint.  The               *)
(* wallet changes (outputs created, leased, spent) are the daemon's and   *)
(* are modelled from the spec; so are the RPCs' server-side filters.  The *)
(* helper is a pure function of one wallet state, evaluated in every      *)
(* state the wallet can reach.                                             *)
(***************************************************************************)
EXTENDS Naturals, FiniteSets, FiniteSetsExt

CONSTANTS
    AssetIds,       \* asset IDs
    Groups,         \* tweaked group keys
    GroupOf,        \* GroupOf[id]: the group of an asset, or NoGroup
    ScriptKeys,     \* script keys of the wallet's outputs
    KeyTypeOf,      \* KeyTypeOf[k]: "bip86", "burn" or "tombstone"
    Anchors,        \* anchor outpoints
    Amounts,        \* output amounts
    Slots,          \* how many outputs the wallet holds at most
    AllTypesOption  \* whether WithAllScriptKeyTypes() is among the options

Nil == "nil"
NoGroup == "none"
KeyTypes == {"bip86", "burn", "tombstone"}

ASSUME BalancesAssumption ==
    /\ Nil \notin AssetIds \cup Groups \cup ScriptKeys \cup KeyTypes
    /\ NoGroup \notin Groups
    /\ GroupOf \in [AssetIds -> Groups \cup {NoGroup}]
    /\ KeyTypeOf \in [ScriptKeys -> KeyTypes]
    /\ Amounts \subseteq Nat
    /\ IsFiniteSet(Slots)
    /\ AllTypesOption \in BOOLEAN

VARIABLE wallet

Outputs == [id : AssetIds, key : ScriptKeys, amt : Amounts,
            leased : BOOLEAN, anchor : Anchors]

\* The options a test passes: WithAssetID, WithGroupKey, WithIncludeLeased,
\* WithAllScriptKeyTypes, WithScriptKeyType, WithScriptKey (unset fields
\* keep balanceConfig's zero values).  The counts are added per call.
Filters ==
    [assetID : AssetIds \cup {Nil}, groupKey : Groups \cup {Nil},
     includeLeased : BOOLEAN,
     allScriptKeyTypes : IF AllTypesOption THEN BOOLEAN ELSE {FALSE},
     scriptKeyType : KeyTypes \cup {Nil}, scriptKey : ScriptKeys \cup {Nil}]

\* balanceConfig after WithGroupedAssetBalance, WithNumUtxos and
\* WithNumAnchorUtxos (0 when the option is not given).
Config(f, grouped, numAssetUtxos, numAnchorUtxos) ==
    [assetID |-> f.assetID, groupKey |-> f.groupKey,
     includeLeased |-> f.includeLeased,
     allScriptKeyTypes |-> f.allScriptKeyTypes,
     scriptKeyType |-> f.scriptKeyType, scriptKey |-> f.scriptKey,
     groupedAssetBalance |-> grouped, numAssetUtxos |-> numAssetUtxos,
     numAnchorUtxos |-> numAnchorUtxos]

\* Mutant: the explicit script key type is not passed on.
rpcTypeQueryNoExplicit(cfg) ==
    IF cfg.allScriptKeyTypes THEN "all" ELSE "default"

\* The ScriptKeyTypeQuery the helper sends: all types, an explicit type,
\* or none (the server's default).
rpcTypeQuery(cfg) ==
    IF cfg.allScriptKeyTypes THEN "all"
    ELSE IF cfg.scriptKeyType # Nil THEN cfg.scriptKeyType
    ELSE "default"

\* balanceSum: the total of the returned per-ID or per-group balances.
balanceSum(w, slots) == MapThenSumSet(LAMBDA s : w[s].amt, slots)

\* Mutant: the balance check kept when a script key is given.
checkBalanceNoKey(cfg) ==
    cfg.scriptKeyType = Nil \/ cfg.scriptKeyType \notin {"burn", "tombstone"}

\* ListBalances is skipped for burn and tombstone queries and for a
\* specific script key.
checkBalance(cfg) ==
    /\ cfg.scriptKeyType = Nil \/ cfg.scriptKeyType \notin {"burn", "tombstone"}
    /\ cfg.scriptKey = Nil

-----------------------------------------------------------------------------
(* The daemon's RPCs, modelled from the spec.                              *)

\* An output of key type t is returned for query q.
TypeListed(t, q) ==
    CASE q = "all" -> TRUE
      [] q = "default" -> t = "bip86"
      [] OTHER -> t = q

\* The slots whose outputs ListAssets / ListUtxos return.
Listed(w, q, includeLeased) ==
    {s \in DOMAIN w : /\ TypeListed(KeyTypeOf[w[s].key], q)
                      /\ includeLeased \/ ~w[s].leased}

\* The outputs ListBalances adds up: the listed ones of an unspent key
\* type, filtered by asset ID and group key, and only grouped ones when
\* grouping by group key.
BalanceSlots(w, cfg, byGroup) ==
    {s \in Listed(w, rpcTypeQuery(cfg), cfg.includeLeased) :
        /\ KeyTypeOf[w[s].key] \notin {"burn", "tombstone"}
        /\ cfg.assetID = Nil \/ w[s].id = cfg.assetID
        /\ cfg.groupKey = Nil \/ GroupOf[w[s].id] = cfg.groupKey
        /\ byGroup => GroupOf[w[s].id] # NoGroup}

-----------------------------------------------------------------------------
(* The helper.                                                             *)

\* The client-side filter of the ListAssets and ListUtxos loops.
AssetMatches(o, cfg) ==
    /\ cfg.assetID = Nil \/ o.id = cfg.assetID
    /\ cfg.groupKey = Nil \/ (GroupOf[o.id] # NoGroup
                              /\ GroupOf[o.id] = cfg.groupKey)
    /\ cfg.scriptKey = Nil \/ o.key = cfg.scriptKey

\* The two ListBalances checks.
BalancesChecked(w, cfg, balance) ==
    /\ checkBalance(cfg) =>
         balance = balanceSum(w, BalanceSlots(w, cfg, FALSE))
    /\ cfg.groupedAssetBalance > 0 /\ checkBalance(cfg) =>
         cfg.groupedAssetBalance = balanceSum(w, BalanceSlots(w, cfg, TRUE))

\* The ListAssets loop and its checks.
ListAssetsChecked(w, cfg, balance) ==
    LET counted == {s \in Listed(w, rpcTypeQuery(cfg), cfg.includeLeased) :
                        AssetMatches(w[s], cfg)}
    IN  /\ balance = balanceSum(w, counted)
        /\ cfg.numAssetUtxos > 0 => cfg.numAssetUtxos = Cardinality(counted)

\* The ListUtxos loop: every managed UTXO is counted as an anchor, its
\* assets are filtered as in the ListAssets loop.
ListUtxosChecked(w, cfg, balance) ==
    LET listed == Listed(w, rpcTypeQuery(cfg), cfg.includeLeased)
        anchors == {w[s].anchor : s \in listed}
        counted == {s \in listed : AssetMatches(w[s], cfg)}
    IN  /\ balance = balanceSum(w, counted)
        /\ cfg.numAnchorUtxos > 0 => cfg.numAnchorUtxos = Cardinality(anchors)
        /\ cfg.numAssetUtxos > 0 => cfg.numAssetUtxos = Cardinality(counted)

\* AssertBalances(t, client, balance, opts...) passes.
AssertBalances(w, cfg, balance) ==
    /\ BalancesChecked(w, cfg, balance)
    /\ ListAssetsChecked(w, cfg, balance)
    /\ ListUtxosChecked(w, cfg, balance)

-----------------------------------------------------------------------------
(* The daemon's wallet, modelled from the spec.                            *)

Init == wallet = [s \in {} |-> 0]

\* An asset output is created: minted, received, a change output, or a
\* burn (an output to a burn key).
CreateOutput(s) ==
    /\ s \notin DOMAIN wallet
    /\ \E id \in AssetIds, key \in ScriptKeys, amt \in Amounts,
          anchor \in Anchors :
          LET o == [id |-> id, key |-> key, amt |-> amt, leased |-> FALSE,
                    anchor |-> anchor]
          IN  wallet' = [t \in DOMAIN wallet \cup {s} |->
                            IF t = s THEN o ELSE wallet[t]]

\* Coin selection leases an output for a send in progress.
LeaseOutput(s) ==
    /\ s \in DOMAIN wallet
    /\ ~wallet[s].leased
    /\ wallet' = [wallet EXCEPT ![s].leased = TRUE]

\* The output is spent by a confirmed transfer.
SpendOutput(s) ==
    /\ s \in DOMAIN wallet
    /\ wallet' = [t \in DOMAIN wallet \ {s} |-> wallet[t]]

Next == \E s \in Slots : CreateOutput(s) \/ LeaseOutput(s) \/ SpendOutput(s)

Spec == Init /\ [][Next]_wallet

-----------------------------------------------------------------------------
(* Properties                                                              *)

\* What a test means by AssertBalances: the outputs of the queried key
\* types (all of them, the explicit one, or BIP-86 by default), leased ones
\* only when asked for, of the given asset ID, group and script key.
RefSlots(w, f) ==
    {s \in DOMAIN w :
        /\ \/ f.allScriptKeyTypes
           \/ f.scriptKeyType # Nil /\ KeyTypeOf[w[s].key] = f.scriptKeyType
           \/ f.scriptKeyType = Nil /\ KeyTypeOf[w[s].key] = "bip86"
        /\ f.includeLeased \/ ~w[s].leased
        /\ f.assetID = Nil \/ w[s].id = f.assetID
        /\ f.groupKey = Nil \/ GroupOf[w[s].id] = f.groupKey
        /\ f.scriptKey = Nil \/ w[s].key = f.scriptKey}

RefBalance(w, f) == MapThenSumSet(LAMBDA s : w[s].amt, RefSlots(w, f))

\* The grouped part of the balance, as asked for only for a group query.
RefGroupedBalance(w, f) ==
    MapThenSumSet(LAMBDA s : w[s].amt,
                  {s \in RefSlots(w, f) : GroupOf[w[s].id] # NoGroup})

\* The anchor outpoints of the outputs of the queried types.
RefAnchors(w, f) ==
    {w[s].anchor :
        s \in RefSlots(w, [f EXCEPT !.assetID = Nil, !.groupKey = Nil,
                                    !.scriptKey = Nil])}

\* Given the wallet's true balance for its options, and optionally the true
\* grouped balance and output and anchor counts, AssertBalances passes:
\* its four RPCs' answers agree with each other in every wallet state.
NoFalseFailure ==
    \A f \in Filters, g, n, a \in BOOLEAN :
        LET grouped == IF g THEN RefGroupedBalance(wallet, f) ELSE 0
            num == IF n THEN Cardinality(RefSlots(wallet, f)) ELSE 0
            anc == IF a THEN Cardinality(RefAnchors(wallet, f)) ELSE 0
        IN  AssertBalances(wallet, Config(f, grouped, num, anc),
                           RefBalance(wallet, f))

\* AssertBalances passes for no balance other than the true one of the
\* outputs its options select.
NoFalsePass ==
    \A f \in Filters, b \in 0..(Cardinality(Slots) * Max(Amounts)) :
        AssertBalances(wallet, Config(f, 0, 0, 0), b) =>
            b = RefBalance(wallet, f)

=============================================================================
