------------------------- MODULE WalletMoneyQueries -------------------------
(***************************************************************************)
(* The read side of the drk2 wallet's Money tables (bin/drk2/src/money.rs):*)
(* money_balance over get_coins(false), and get_aliases /                  *)
(* get_aliases_mapped_by_token over the alias table.                       *)
(*                                                                         *)
(* The rows are written by other drk commands (scanning stores coins and  *)
(* marks them spent, the alias commands add and remove aliases), which    *)
(* are the environment here.  A coin row is abstracted to the columns the *)
(* queries read: its value, token id, spend hook and is_spent flag.  The   *)
(* u64 range of values is scaled down to U64Modulus; money_balance adds    *)
(* with +=, which panics on overflow in a build with overflow checks and  *)
(* wraps in one without.                                                   *)
(***************************************************************************)
EXTENDS Naturals, FiniteSets, SequencesExt, FiniteSetsExt

CONSTANTS CoinIds,         \* row ids of MONEY_COINS_TABLE
          Tokens,          \* token ids
          Values,          \* coin values (u64)
          AliasNames,      \* alias strings
          U64Modulus,      \* 2^64, scaled down
          OverflowChecks   \* whether drk is built with overflow checks

ZeroHook == "zero"      \* pallas::Base::zero()
Hooks == {ZeroHook, "dao"}
None == "none"          \* Option::None of the filters

VARIABLES coinRows,   \* MONEY_COINS_TABLE: row id -> coin row
          aliasRows,  \* MONEY_ALIASES_TABLE: alias -> token id
          balances,   \* what the last money_balance returned
          byToken     \* what the last get_aliases_mapped_by_token returned

vars == <<coinRows, aliasRows, balances, byToken>>

CoinRow == [value : Values, token : Tokens, spendHook : Hooks, spent : BOOLEAN]

Init ==
    /\ coinRows = <<>> /\ aliasRows = <<>>
    /\ balances = [panicked |-> FALSE, map |-> <<>>]
    /\ byToken = <<>>

(* get_coins(false), lines 149-258: the rows with is_spent = false.        *)
GetCoins(rows) == SetToSeq({id \in DOMAIN rows : ~rows[id].spent})

(* Mutant: the sum is taken in a wider integer and not narrowed.         *)
RECURSIVE AccumulateWide(_, _, _)
AccumulateWide(rows, ids, balmap) ==
    IF ids = <<>> THEN [panicked |-> FALSE, map |-> balmap]
    ELSE LET c == rows[Head(ids)]
             value == IF c.token \in DOMAIN balmap
                      THEN c.value + balmap[c.token] ELSE c.value
         IN AccumulateWide(rows, Tail(ids), (c.token :> value) @@ balmap)

(* The loop of lines 134-142: value += prev in u64 for each coin.          *)
RECURSIVE Accumulate(_, _, _)
Accumulate(rows, ids, balmap) ==
    IF ids = <<>> THEN [panicked |-> FALSE, map |-> balmap]
    ELSE LET c == rows[Head(ids)]
             value == IF c.token \in DOMAIN balmap
                      THEN c.value + balmap[c.token] ELSE c.value
         IN IF OverflowChecks /\ value >= U64Modulus
            THEN [panicked |-> TRUE, map |-> balmap]
            ELSE Accumulate(rows, Tail(ids),
                            (c.token :> value % U64Modulus) @@ balmap)

(* Mutant: coins with a spend hook are counted too.                        *)
MoneyBalanceNoRetain(rows) == Accumulate(rows, GetCoins(rows), <<>>)

(* money_balance, lines 127-145: unspent coins, retain those whose spend  *)
(* hook is zero, then sum per token.                                       *)
MoneyBalance(rows) ==
    Accumulate(rows, SelectSeq(GetCoins(rows), LAMBDA id : rows[id].spendHook = ZeroHook),
               <<>>)

(* get_aliases, lines 262-299: the alias rows that pass both filters.     *)
GetAliases(aliasFilter, tokenFilter) ==
    LET keep == {a \in DOMAIN aliasRows :
                   /\ aliasFilter \in {None, a}
                   /\ tokenFilter \in {None, aliasRows[a]}}
    IN [a \in keep |-> aliasRows[a]]

(* Mutant: each alias overwrites the previous ones of its token.           *)
RECURSIVE MapByTokenOverwrite(_, _, _)
MapByTokenOverwrite(aliases, order, map) ==
    IF order = <<>> THEN map
    ELSE LET a == Head(order) IN
         MapByTokenOverwrite(aliases, Tail(order), (aliases[a] :> << a >>) @@ map)

(* The loop of lines 305-313, over the aliases in the HashMap's order:    *)
(* "prev, alias" extends the token's list, modelled as a sequence.         *)
RECURSIVE MapByToken(_, _, _)
MapByToken(aliases, order, map) ==
    IF order = <<>> THEN map
    ELSE LET a == Head(order)
             t == aliases[a]
             aliasesString == IF t \in DOMAIN map THEN Append(map[t], a) ELSE << a >>
         IN MapByToken(aliases, Tail(order), (t :> aliasesString) @@ map)

MoneyBalanceCall ==
    /\ balances' = MoneyBalance(coinRows)
    /\ UNCHANGED <<coinRows, aliasRows, byToken>>

(* get_aliases_mapped_by_token, lines 302-316.                              *)
GetAliasesMappedByToken ==
    LET aliases == GetAliases(None, None) IN
    /\ \E order \in SetToSeqs(DOMAIN aliases) :
          byToken' = MapByToken(aliases, order, <<>>)
    /\ UNCHANGED <<coinRows, aliasRows, balances>>

(* Environment: a scan stores a new coin, or marks a stored one spent.    *)
StoreCoin ==
    \E id \in CoinIds \ DOMAIN coinRows, row \in CoinRow :
        /\ ~row.spent
        /\ coinRows' = (id :> row) @@ coinRows
        /\ UNCHANGED <<aliasRows, balances, byToken>>

MarkSpent ==
    \E id \in DOMAIN coinRows :
        /\ ~coinRows[id].spent
        /\ coinRows' = [coinRows EXCEPT ![id].spent = TRUE]
        /\ UNCHANGED <<aliasRows, balances, byToken>>

(* Environment: the alias commands add (or replace) and remove aliases.   *)
SetAlias ==
    \E a \in AliasNames, t \in Tokens :
        /\ aliasRows' = (a :> t) @@ aliasRows
        /\ UNCHANGED <<coinRows, balances, byToken>>

RemoveAlias ==
    \E a \in DOMAIN aliasRows :
        /\ aliasRows' = [b \in DOMAIN aliasRows \ {a} |-> aliasRows[b]]
        /\ UNCHANGED <<coinRows, balances, byToken>>

Next ==
    \/ MoneyBalanceCall \/ GetAliasesMappedByToken
    \/ StoreCoin \/ MarkSpent \/ SetAlias \/ RemoveAlias

Spec == Init /\ [][Next]_vars

-----------------------------------------------------------------------------
TypeOK ==
    /\ coinRows \in UNION {[ids -> CoinRow] : ids \in SUBSET CoinIds}
    /\ aliasRows \in UNION {[as -> Tokens] : as \in SUBSET AliasNames}
    /\ balances.panicked \in BOOLEAN
    /\ balances.map \in UNION {[ts -> 0..(U64Modulus - 1)] : ts \in SUBSET Tokens}
    /\ \A t \in DOMAIN byToken : byToken[t] \in Seq(AliasNames)

(* The balance of each token: the sum of the values of the unspent coins  *)
(* of that token with a zero spend hook, in mathematical integers.        *)
HeldBalances(rows) ==
    LET held == {id \in DOMAIN rows : ~rows[id].spent /\ rows[id].spendHook = ZeroHook}
    IN [t \in {rows[id].token : id \in held} |->
          MapThenSumSet(LAMBDA id : rows[id].value, {id \in held : rows[id].token = t})]

(* money_balance either fails (a panic of the u64 addition) or returns,   *)
(* for every token the wallet holds spendable coins of, exactly the sum   *)
(* of their values.                                                        *)
BalanceIsSum ==
    [][MoneyBalanceCall /\ ~balances'.panicked =>
         balances'.map = HeldBalances(coinRows)]_vars

(* get_aliases_mapped_by_token inverts the alias table: every token with  *)
(* an alias maps to a list of exactly its aliases, each listed once,       *)
(* whatever order the HashMap yields them in.                               *)
AliasesByTokenInverse ==
    [][GetAliasesMappedByToken =>
         /\ DOMAIN byToken' = Range(aliasRows)
         /\ \A t \in DOMAIN byToken' :
               /\ IsInjective(byToken'[t])
               /\ ToSet(byToken'[t]) = {a \in DOMAIN aliasRows : aliasRows[a] = t}]_vars

=============================================================================
