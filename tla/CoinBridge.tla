---------------------------- MODULE CoinBridge ----------------------------
(***************************************************************************)
(* The bridge between Move balances and the host's native currency         *)
(* (mvm/src/io/balance.rs, mvm/src/io/session.rs) inside the transaction   *)
(* pipeline of mvm/src/mvm.rs.                                             *)
(*                                                                         *)
(* A Balance<Coin> resource of a bridged coin is read from the host's bank *)
(* and written back to it as Sub and Add operations; every other resource  *)
(* lives in storage.  The Move program moves coins, it never makes or      *)
(* destroys them: that is the Move framework's promise (Token has neither  *)
(* copy nor drop) and the only thing assumed of the program.               *)
(***************************************************************************)
EXTENDS Integers, FiniteSets, Functions

CONSTANTS Acc,        \* account addresses
          Coin,       \* coin types: the type argument of Balance and NativeToken
          Path,       \* currency access paths of the host
          PathOf,     \* the path stored in NativeToken<Coin>
          MaxAmt,     \* u64::MAX
          Nil,        \* None: no resource, no bank account, no bridge
          Unknown     \* native_mapper has no entry; the resource is not loaded

ASSUME Sentinels ==
    /\ MaxAmt \in Nat \ {0}
    /\ Nil # Unknown /\ Nil \notin Int /\ Unknown \notin Int
    /\ Nil \notin Path /\ Unknown \notin Path

\* No two coins are registered with the same path: make_coin_tag inverts the map.
ASSUME PathsDistinct ==
    /\ PathOf \in [Coin -> Path]
    /\ \A c, d \in Coin : PathOf[c] = PathOf[d] => c = d

ASSUME FiniteSystem == IsFiniteSet(Acc) /\ IsFiniteSet(Coin)

VARIABLES stored,   \* storage: the Balance<Coin> resources
          pot,      \* storage: coins inside other resources
          native,   \* storage: the coins with a NativeToken resource
          mapper,   \* MasterOfCoin::native_mapper
          bank,     \* the host's balances, per account and path
          reserve,  \* the host's reserve, which backs the coins inside Move
          issued,   \* ghost: coins brought in by the host so far
          phase,    \* "idle", "running" or "applying"
          dry,      \* dry_run
          base,     \* data cache: the balance as it was loaded
          cur,      \* data cache: the balance now
          dirty,    \* data cache: written since it was loaded
          initial,  \* MasterOfCoinSession::balances
          purse,    \* coins on the program's stack
          potCur,   \* the other resources as the program sees them
          reg,      \* coins whose NativeToken the program created
          ops       \* balance operations still to be applied

store == <<stored, pot, native>>
host  == <<bank, reserve, issued>>
data  == <<base, cur, dirty, initial>>
prog  == <<purse, potCur, reg>>
vars  == <<store, host, data, prog, mapper, phase, dry, ops>>

Key == Acc \X Coin
Amt == 0..MaxAmt
Op  == [op : {"sub", "add"}, acc : Acc, path : Path, n : Amt]

\* The value of a balance that may not exist.
Value(b) == IF b \in {Nil, Unknown} THEN 0 ELSE b

-----------------------------------------------------------------------------
(* Reading a balance.                                                      *)

\* Mutant: a NativeToken that is not committed yet counts.
GetBridgePending(c) ==
    IF mapper[c] # Unknown THEN mapper[c]
    ELSE IF c \in native \cup reg THEN PathOf[c] ELSE Nil

\* MasterOfCoin::get_bridge: the cached answer, or the one storage gives.
GetBridge(c) ==
    IF mapper[c] # Unknown THEN mapper[c]
    ELSE IF c \in native THEN PathOf[c] ELSE Nil

\* get_bridge inserts what it looked up, the absence of a bridge too.
Remember(c) == [mapper EXCEPT ![c] = GetBridge(c)]

\* StateSession::get_resource of Balance<c>: the native balance when the coin is bridged
\* and the bank knows the account, the stored resource otherwise.
GetResource(a, c, p) ==
    IF p # Nil /\ bank[<<a, p>>] # Nil THEN bank[<<a, p>>] ELSE stored[<<a, c>>]

\* Mutant: the native balance is handed out but not remembered.
RecordNothing(a, p) == initial

\* MasterOfCoinSession::get_balance records what the bank answered.
Record(a, p) ==
    IF p # Nil /\ bank[<<a, p>>] # Nil
    THEN [initial EXCEPT ![<<a, p>>] = bank[<<a, p>>]] ELSE initial

\* TransactionDataCache::load_resource of Balance<c>, through exists or borrow.
Load(a, c) ==
    /\ phase = "running"
    /\ base[<<a, c>>] = Unknown
    /\ LET p == GetBridge(c)
           b == GetResource(a, c, p)
       IN  /\ base' = [base EXCEPT ![<<a, c>>] = b]
           /\ cur'  = [cur EXCEPT ![<<a, c>>] = b]
           /\ initial' = Record(a, p)
           /\ mapper' = Remember(c)
    /\ UNCHANGED <<store, host, prog, phase, dry, dirty, ops>>

\* The same of CurrencyInfo<c>: the bridge is looked up and remembered.  The total value
\* that the host's answer patches into the resource is left out: no balance depends on it.
LoadCurrencyInfo(c) ==
    /\ phase = "running"
    /\ mapper' = Remember(c)
    /\ UNCHANGED <<store, host, data, prog, phase, dry, ops>>

\* StateAccess::get_resource, outside a transaction.
Query(a, c) ==
    /\ phase = "idle"
    /\ mapper' = Remember(c)
    /\ UNCHANGED <<store, host, data, prog, phase, dry, ops>>

\* Vm::clear.
Clear ==
    /\ phase = "idle"
    /\ mapper' = [c \in Coin |-> Unknown]
    /\ UNCHANGED <<store, host, data, prog, phase, dry, ops>>

-----------------------------------------------------------------------------
(* The Move program: the account module of the framework, over the cache.  *)

InMove == UNCHANGED <<store, host, mapper, phase, dry, ops>>

Loaded(k) == phase = "running" /\ base[k] # Unknown

Withdraw(k, n) ==
    /\ Loaded(k) /\ cur[k] # Nil /\ n <= cur[k] /\ purse[k[2]] + n <= MaxAmt
    /\ cur' = [cur EXCEPT ![k] = @ - n]
    /\ dirty' = [dirty EXCEPT ![k] = TRUE]
    /\ purse' = [purse EXCEPT ![k[2]] = @ + n]
    /\ InMove /\ UNCHANGED <<base, initial, potCur, reg>>

Deposit(k, n) ==
    /\ Loaded(k) /\ cur[k] # Nil /\ n <= purse[k[2]] /\ cur[k] + n <= MaxAmt
    /\ cur' = [cur EXCEPT ![k] = @ + n]
    /\ dirty' = [dirty EXCEPT ![k] = TRUE]
    /\ purse' = [purse EXCEPT ![k[2]] = @ - n]
    /\ InMove /\ UNCHANGED <<base, initial, potCur, reg>>

\* move_to of a Balance resource.
Create(k, n) ==
    /\ Loaded(k) /\ cur[k] = Nil /\ n <= purse[k[2]]
    /\ cur' = [cur EXCEPT ![k] = n]
    /\ dirty' = [dirty EXCEPT ![k] = TRUE]
    /\ purse' = [purse EXCEPT ![k[2]] = @ - n]
    /\ InMove /\ UNCHANGED <<base, initial, potCur, reg>>

\* move_from of a Balance resource.
Destroy(k) ==
    /\ Loaded(k) /\ cur[k] # Nil /\ purse[k[2]] + cur[k] <= MaxAmt
    /\ cur' = [cur EXCEPT ![k] = Nil]
    /\ purse' = [purse EXCEPT ![k[2]] = @ + cur[k]]
    /\ InMove /\ UNCHANGED <<base, dirty, initial, potCur, reg>>

\* The whole purse goes into another resource, or that resource is emptied.
PutAway(c) ==
    /\ phase = "running" /\ purse[c] > 0 /\ potCur[c] + purse[c] <= MaxAmt
    /\ potCur' = [potCur EXCEPT ![c] = @ + purse[c]]
    /\ purse' = [purse EXCEPT ![c] = 0]
    /\ InMove /\ UNCHANGED <<data, reg>>

TakeOut(c) ==
    /\ phase = "running" /\ potCur[c] > 0 /\ purse[c] + potCur[c] <= MaxAmt
    /\ purse' = [purse EXCEPT ![c] = @ + potCur[c]]
    /\ potCur' = [potCur EXCEPT ![c] = 0]
    /\ InMove /\ UNCHANGED <<data, reg>>

\* move_to of NativeToken<c> by the root account.
Register(c) ==
    /\ phase = "running" /\ c \notin native \cup reg
    /\ reg' = reg \cup {c}
    /\ InMove /\ UNCHANGED <<data, purse, potCur>>

-----------------------------------------------------------------------------
(* The end of a transaction.                                               *)

\* The entry of the change set for a balance: Unknown when there is none.
Effect(k) ==
    IF base[k] = Unknown \/ (base[k] = Nil /\ cur[k] = Nil) THEN Unknown
    ELSE IF base[k] = Nil \/ cur[k] = Nil \/ dirty[k] THEN cur[k] ELSE Unknown

\* make_coin_tag: the coin that the mapper sends to a path.
CoinAt(p) == {c \in Coin : mapper[c] = p}

\* The balances make_acc_ops takes out of the change set.
Bridged == {k \in Key : \E p \in Path : initial[<<k[1], p>>] # Nil /\ k[2] \in CoinAt(p)}

\* make_acc_ops for one account and path: the difference, or everything when the
\* resource was dropped.
MakeOps(a, p, from, to) ==
    IF to = Unknown \/ to = from THEN {}
    ELSE IF Value(to) > from THEN {[op |-> "add", acc |-> a, path |-> p, n |-> to - from]}
    ELSE {[op |-> "sub", acc |-> a, path |-> p, n |-> from - Value(to)]}

\* MasterOfCoinSession::finish.
BalanceOps ==
    UNION {LET p == mapper[k[2]] IN MakeOps(k[1], p, initial[<<k[1], p>>], Effect(k)) :
              k \in Bridged}

\* Mutant: a bridged balance is also left in the change set.
StoreEffectsAll == [k \in Key |-> IF Effect(k) = Unknown THEN stored[k] ELSE Effect(k)]

\* handle_tx_effects on the change set that is left.
StoreEffects ==
    [k \in Key |-> IF k \in Bridged \/ Effect(k) = Unknown THEN stored[k] ELSE Effect(k)]

EndSession ==
    /\ base' = [k \in Key |-> Unknown] /\ cur' = [k \in Key |-> Nil]
    /\ dirty' = [k \in Key |-> FALSE]
    /\ initial' = [x \in Acc \X Path |-> Nil]
    /\ purse' = [c \in Coin |-> 0] /\ potCur' = [c \in Coin |-> 0] /\ reg' = {}

\* execute_script.
Begin(d) ==
    /\ phase = "idle"
    /\ phase' = "running" /\ dry' = d
    /\ potCur' = pot
    /\ UNCHANGED <<store, host, data, mapper, purse, reg, ops>>

\* Success: the program is done and holds no coin.  A dry run stops here.
Finish ==
    /\ phase = "running"
    /\ \A c \in Coin : purse[c] = 0
    /\ IF dry
       THEN phase' = "idle" /\ UNCHANGED <<store, ops>>
       ELSE /\ phase' = "applying"
            /\ stored' = StoreEffects /\ pot' = potCur /\ native' = native \cup reg
            /\ ops' = BalanceOps
    /\ EndSession
    /\ UNCHANGED <<host, mapper, dry>>

\* An abort, or no gas left for the program or for the write charge.
Fail ==
    /\ phase = "running"
    /\ phase' = "idle"
    /\ EndSession
    /\ UNCHANGED <<store, host, mapper, dry, ops>>

\* Mutant: the operations are applied in the order they were made.
ReadyUnsorted(o) == o \in ops

\* ops.sort(): every Sub comes before every Add.
Ready(o) == o \in ops /\ (o.op = "add" => \A q \in ops : q.op = "add")

\* The bank accepts an operation: BalanceAccess::sub and ::add.
Accepts(o) ==
    IF o.op = "sub" THEN o.n <= Value(bank[<<o.acc, o.path>>]) ELSE o.n <= reserve

\* update_balance.
ApplyOp(o) ==
    /\ phase = "applying" /\ Ready(o) /\ Accepts(o)
    /\ LET x == <<o.acc, o.path>>
           d == IF o.op = "add" THEN o.n ELSE 0 - o.n
       IN  /\ bank' = [bank EXCEPT ![x] = Value(@) + d]
           /\ reserve' = reserve - d
    /\ ops' = ops \ {o}
    /\ UNCHANGED <<store, issued, data, prog, mapper, phase, dry>>

EndTx ==
    /\ phase = "applying" /\ ops = {}
    /\ phase' = "idle"
    /\ UNCHANGED <<store, host, data, prog, mapper, dry, ops>>

-----------------------------------------------------------------------------
(* The host between transactions.                                          *)

\* A native deposit; it may open the account.
HostDeposit(a, c) ==
    /\ phase = "idle"
    /\ issued[c] < MaxAmt      \* bound: the supply of a coin
    /\ Value(bank[<<a, PathOf[c]>>]) < MaxAmt
    /\ bank' = [bank EXCEPT ![<<a, PathOf[c]>>] = Value(@) + 1]
    /\ issued' = [issued EXCEPT ![c] = @ + 1]
    /\ UNCHANGED <<store, reserve, data, prog, mapper, phase, dry, ops>>

\* A native payment or fee.
HostWithdraw(a, c) ==
    /\ phase = "idle"
    /\ Value(bank[<<a, PathOf[c]>>]) > 0
    /\ bank' = [bank EXCEPT ![<<a, PathOf[c]>>] = @ - 1]
    /\ issued' = [issued EXCEPT ![c] = @ - 1]
    /\ UNCHANGED <<store, reserve, data, prog, mapper, phase, dry, ops>>

Init ==
    /\ stored = [k \in Key |-> Nil] /\ pot \in [Coin -> {0, 1}]
    /\ native \in SUBSET Coin
    /\ mapper = [c \in Coin |-> Unknown]
    /\ bank = [x \in Acc \X Path |-> Nil]
    /\ reserve = SumFunction(pot) /\ reserve \in Nat /\ issued = pot
    /\ phase = "idle" /\ dry = FALSE
    /\ base = [k \in Key |-> Unknown] /\ cur = [k \in Key |-> Nil]
    /\ dirty = [k \in Key |-> FALSE] /\ initial = [x \in Acc \X Path |-> Nil]
    /\ purse = [c \in Coin |-> 0] /\ potCur = [c \in Coin |-> 0] /\ reg = {}
    /\ ops = {}

Program ==
    \/ \E a \in Acc, c \in Coin : Load(a, c)
    \/ \E k \in Key, n \in Amt : Withdraw(k, n) \/ Deposit(k, n) \/ Create(k, n)
    \/ \E k \in Key : Destroy(k)
    \/ \E c \in Coin : PutAway(c) \/ TakeOut(c) \/ Register(c) \/ LoadCurrencyInfo(c)

Next ==
    \/ Program
    \/ \E d \in BOOLEAN : Begin(d)
    \/ Finish \/ Fail \/ EndTx \/ Clear
    \/ \E o \in ops : ApplyOp(o)
    \/ \E a \in Acc, c \in Coin : Query(a, c) \/ HostDeposit(a, c) \/ HostWithdraw(a, c)

Spec == Init /\ [][Next]_vars

-----------------------------------------------------------------------------
(* Properties.                                                             *)

\* Type invariant: balances stay within u64 on both sides of the bridge, and the
\* reserve never goes below zero.
TypeOK ==
    /\ stored \in [Key -> Amt \cup {Nil}] /\ pot \in [Coin -> Amt] /\ native \subseteq Coin
    /\ mapper \in [Coin -> Path \cup {Nil, Unknown}]
    /\ bank \in [Acc \X Path -> Amt \cup {Nil}] /\ reserve \in Nat
    /\ issued \in [Coin -> Int]
    /\ phase \in {"idle", "running", "applying"} /\ dry \in BOOLEAN
    /\ base \in [Key -> Amt \cup {Nil, Unknown}] /\ cur \in [Key -> Amt \cup {Nil}]
    /\ dirty \in [Key -> BOOLEAN] /\ initial \in [Acc \X Path -> Amt \cup {Nil}]
    /\ purse \in [Coin -> Amt] /\ potCur \in [Coin -> Amt] /\ reg \subseteq Coin
    /\ ops \subseteq Op

\* What is still to be added to (or taken from) the bank account x: it has one operation
\* at most.
Due(x) ==
    LET mine == {o \in ops : <<o.acc, o.path>> = x}
        o == CHOOSE o \in mine : TRUE
    IN  IF mine = {} THEN 0 ELSE IF o.op = "add" THEN o.n ELSE 0 - o.n

\* Coins of type c in storage, in the bank and on their way to it.
Total(c) ==
    SumFunction([a \in Acc |-> Value(stored[<<a, c>>])
                               + Value(bank[<<a, PathOf[c]>>]) + Due(<<a, PathOf[c]>>)])
    + pot[c]

\* No coin is made or lost by the bridge: whatever is transferred, put away, dropped
\* or created, with whatever answer cached in native_mapper, storage and bank together
\* hold what the host brought in (make_acc_ops, handle_tx_effects).
Conserved == \A c \in Coin : Total(c) = issued[c]

\* The bank never refuses an operation: each Sub finds the balance it was computed from,
\* each Add finds enough in reserve, because Subs are applied first (BalanceOp's order,
\* finish); and so no balance on either side leaves the range of u64.
BankNeverShort ==
    /\ TypeOK
    /\ phase = "applying" => \A o \in ops : Ready(o) => Accepts(o)

\* The balance a program would read next, once pending operations are applied.
Balance(k) ==
    LET p == GetBridge(k[2]) IN
    Value(GetResource(k[1], k[2], p))
        + IF p # Nil /\ bank[<<k[1], p>>] # Nil THEN Due(<<k[1], p>>) ELSE 0

\* A committed transaction leaves every account with the balance the program last saw,
\* or had before if the program did not look; only a coin that this very transaction
\* bridges may change hands from storage to bank (get_resource after finish).
CommitKeepsBalances ==
    [][phase' = "applying" /\ phase = "running" =>
         \A k \in Key : k[2] \notin reg =>
             Balance(k)' = IF base[k] = Unknown THEN Balance(k) ELSE Value(cur[k])]_vars

\* A failed or dry transaction changes nothing the next one can see: not the balances,
\* nor which coins are bridged, although it may have filled native_mapper.
NoTrace ==
    [][phase = "running" /\ phase' # "applying" =>
         \A k \in Key : Balance(k)' = Balance(k)]_vars
=============================================================================
