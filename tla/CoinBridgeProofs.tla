------------------------- MODULE CoinBridgeProofs -------------------------
(***************************************************************************)
(* Proofs about CoinBridge: for any finite number of accounts and coins    *)
(* the bridge neither makes nor loses a coin, the bank never refuses an    *)
(* operation, and a transaction leaves the balances it should.             *)
(***************************************************************************)
EXTENDS CoinBridge, SumTheorems

-----------------------------------------------------------------------------
(* The inductive invariant.                                                *)

\* The sum over the accounts of a table of amounts per account and coin.
Row(D, c) == SumFunction([a \in Acc |-> D[<<a, c>>]])

\* The bank account of a balance.
AccountOf(k) == <<k[1], PathOf[k[2]]>>

\* What the program changed in a balance, what a balance holds inside Move (pending
\* operations included), and what it holds on both sides.
Drawn  == [k \in Key |-> IF base[k] = Unknown THEN 0 ELSE Value(cur[k]) - Value(base[k])]
Inside == [k \in Key |-> Value(stored[k]) + Due(AccountOf(k))]
Held   == [k \in Key |-> Value(stored[k]) + Value(bank[AccountOf(k)]) + Due(AccountOf(k))]

\* There is no session outside a transaction, and nothing to apply before its end.
Quiet ==
    /\ phase # "running" =>
          /\ \A k \in Key : base[k] = Unknown
          /\ \A x \in Acc \X Path : initial[x] = Nil
          /\ \A c \in Coin : purse[c] = 0
    /\ phase # "applying" => ops = {}

\* The mapper sends a coin to its own path or nowhere.
MapperOK == \A c \in Coin : mapper[c] \in {Unknown, Nil, PathOf[c]}

\* A loaded balance is the one that the bridge or storage still holds, and the session
\* remembers those that came from the bank, and only those.
Viewed ==
    /\ \A k \in Key : base[k] # Unknown =>
          /\ mapper[k[2]] # Unknown
          /\ base[k] = GetResource(k[1], k[2], mapper[k[2]])
          /\ mapper[k[2]] # Nil => initial[AccountOf(k)] = bank[AccountOf(k)]
    /\ \A x \in Acc \X Path : initial[x] # Nil =>
          /\ initial[x] = bank[x]
          /\ \E c \in Coin : x[2] = PathOf[c] /\ mapper[c] = x[2] /\ base[<<x[1], c>>] # Unknown

\* An unwritten balance is as it was loaded, unless it was dropped.
CleanIsLoaded ==
    \A k \in Key : base[k] \notin {Unknown, Nil} /\ cur[k] # Nil /\ ~dirty[k] => cur[k] = base[k]

\* The program moves coins between balances, purse and other resources.
ProgramConserves ==
    phase = "running" => \A c \in Coin : Row(Drawn, c) + purse[c] + potCur[c] = pot[c]

\* Each pending operation is the only one of its account, and the bank can do it.
OpsOK ==
    \A o \in ops :
        /\ \E c \in Coin : o.path = PathOf[c]
        /\ \A q \in ops : q.acc = o.acc /\ q.path = o.path => q = o
        /\ bank[<<o.acc, o.path>>] # Nil
        /\ IF o.op = "sub" THEN o.n <= bank[<<o.acc, o.path>>]
           ELSE bank[<<o.acc, o.path>>] + o.n <= MaxAmt

\* The reserve is what is inside Move.
Backed == reserve = SumFunction([c \in Coin |-> Row(Inside, c) + pot[c]])

Inv ==
    /\ TypeOK /\ Quiet /\ MapperOK /\ Viewed /\ CleanIsLoaded
    /\ ProgramConserves /\ OpsOK /\ Backed /\ Conserved

-----------------------------------------------------------------------------
(* Sums over the accounts of one coin.                                     *)

LEMMA RowType ==
    ASSUME NEW D \in [Key -> Int], NEW c \in Coin
    PROVE  Row(D, c) \in Int
<1>1. [a \in Acc |-> D[<<a, c>>]] \in [Acc -> Int]
  BY DEF Key
<1> QED BY <1>1, SumType, FiniteSystem DEF Row

LEMMA RowAdd ==
    ASSUME NEW D \in [Key -> Int], NEW E \in [Key -> Int], NEW F \in [Key -> Int],
           NEW c \in Coin, \A k \in Key : F[k] = D[k] + E[k]
    PROVE  Row(F, c) = Row(D, c) + Row(E, c)
<1> DEFINE d == [a \in Acc |-> D[<<a, c>>]]
           e == [a \in Acc |-> E[<<a, c>>]]
           f == [a \in Acc |-> F[<<a, c>>]]
<1>1. d \in [Acc -> Int] /\ e \in [Acc -> Int] /\ f \in [Acc -> Int]
  BY DEF Key
<1>2. \A a \in Acc : f[a] = d[a] + e[a]
  BY DEF Key
<1>3. SumFunction(f) = SumFunction(d) + SumFunction(e)
  <2> HIDE DEF d, e, f
  <2> QED BY <1>1, <1>2, SumAdd, FiniteSystem
<1> QED BY <1>3 DEF Row

LEMMA RowZero ==
    ASSUME NEW D \in [Key -> Int], NEW c \in Coin, \A k \in Key : D[k] = 0
    PROVE  Row(D, c) = 0
<1> DEFINE d == [a \in Acc |-> D[<<a, c>>]]
<1>1. d \in [Acc -> Int] /\ \A a \in Acc : d[a] = 0
  BY DEF Key
<1>2. SumFunction(d) = 0
  <2> HIDE DEF d
  <2> QED BY <1>1, SumZero, FiniteSystem
<1> QED BY <1>2 DEF Row

\* One balance changes by n: the row of its coin does, and no other.
LEMMA RowChange ==
    ASSUME NEW D \in [Key -> Int], NEW E \in [Key -> Int], NEW k \in Key, NEW n \in Int,
           E[k] = D[k] + n, \A j \in Key : j # k => E[j] = D[j], NEW c \in Coin
    PROVE  Row(E, c) = Row(D, c) + (IF c = k[2] THEN n ELSE 0)
<1> DEFINE d == [a \in Acc |-> D[<<a, c>>]]
           e == [a \in Acc |-> E[<<a, c>>]]
<1>1. d \in [Acc -> Int] /\ e \in [Acc -> Int]
  BY DEF Key
<1>2. k[1] \in Acc /\ k = <<k[1], k[2]>>
  BY DEF Key
<1>3. \A a \in Acc : a # k[1] => e[a] = d[a]
  BY <1>2 DEF Key
<1>4. SumFunction(e) = SumFunction(d) + (e[k[1]] - d[k[1]])
  <2> HIDE DEF d, e
  <2> QED BY <1>1, <1>2, <1>3, SumChange, FiniteSystem
<1>5. SumFunction(d) \in Int
  <2> HIDE DEF d, e
  <2> QED BY <1>1, SumType, FiniteSystem
<1>6. e[k[1]] - d[k[1]] = IF c = k[2] THEN n ELSE 0
  <2>1. d[k[1]] = D[<<k[1], c>>] /\ e[k[1]] = E[<<k[1], c>>] /\ D[<<k[1], c>>] \in Int
    BY <1>2 DEF Key
  <2>2. CASE c = k[2]
    BY <1>2, <2>1, <2>2
  <2>3. CASE c # k[2]
    <3>1. <<k[1], c>> # k /\ <<k[1], c>> \in Key
      BY <1>2, <2>3 DEF Key
    <3> HIDE DEF d, e
    <3> QED BY <2>1, <2>3, <3>1
  <2> QED BY <2>2, <2>3
<1>7. SumFunction(e) = SumFunction(d) + (IF c = k[2] THEN n ELSE 0)
  <2> HIDE DEF d, e
  <2> QED BY <1>4, <1>6
<1> QED BY <1>7 DEF Row

LEMMA RowBounds ==
    ASSUME NEW D \in [Key -> Int], NEW c \in Coin, \A k \in Key : D[k] >= 0
    PROVE  Row(D, c) >= 0 /\ \A a \in Acc : D[<<a, c>>] <= Row(D, c)
<1> DEFINE d == [a \in Acc |-> D[<<a, c>>]]
<1>1. d \in [Acc -> Int] /\ \A a \in Acc : d[a] >= 0
  BY DEF Key
<1>2. SumFunction(d) >= 0 /\ \A a \in Acc : d[a] <= SumFunction(d)
  <2> HIDE DEF d
  <2> QED BY <1>1, SumBounds, FiniteSystem
<1> QED BY <1>2 DEF Row

-----------------------------------------------------------------------------
(* Amounts and pending operations.                                         *)

LEMMA ValueType ==
    ASSUME NEW b \in Amt \cup {Nil, Unknown}
    PROVE  /\ Value(b) \in Amt /\ Value(b) \in Int /\ Value(b) >= 0 /\ Value(b) <= MaxAmt
           /\ b \in Amt => Value(b) = b
BY Sentinels DEF Value, Amt

\* What an operation does to the bank.
Signed(o) == IF o.op = "add" THEN o.n ELSE 0 - o.n

\* What is due, from the operations of the account.
DueOf(mine) ==
    LET o == CHOOSE o \in mine : TRUE
    IN  IF mine = {} THEN 0 ELSE IF o.op = "add" THEN o.n ELSE 0 - o.n

LEMMA DueNone ==
    ASSUME NEW x, \A o \in ops : <<o.acc, o.path>> # x
    PROVE  Due(x) = 0
<1>1. {o \in ops : <<o.acc, o.path>> = x} = {}
  OBVIOUS
<1> QED BY <1>1, Zenon DEF Due

LEMMA DueOne ==
    ASSUME NEW o \in ops, \A q \in ops : q.acc = o.acc /\ q.path = o.path => q = o
    PROVE  Due(<<o.acc, o.path>>) = Signed(o)
<1> DEFINE mine == {q \in ops : <<q.acc, q.path>> = <<o.acc, o.path>>}
           p == CHOOSE q \in mine : TRUE
<1>1. mine = {o}
  OBVIOUS
<1>2. mine # {} /\ p = o
  BY <1>1
<1>3. Due(<<o.acc, o.path>>) = IF mine = {} THEN 0 ELSE IF p.op = "add" THEN p.n ELSE 0 - p.n
  BY Zenon DEF Due
<1> HIDE DEF mine, p
<1> QED BY <1>2, <1>3 DEF Signed

LEMMA DueType ==
    ASSUME TypeOK, NEW x
    PROVE  Due(x) \in Int
<1> DEFINE mine == {o \in ops : <<o.acc, o.path>> = x}
           o == CHOOSE q \in mine : TRUE
<1>1. CASE mine = {}
  <2>1. Due(x) = 0
    BY <1>1, Zenon DEF Due
  <2> QED BY <2>1
<1>2. CASE mine # {}
  <2>1. o \in mine
    BY <1>2
  <2>2. o \in Op
    BY <2>1 DEF TypeOK
  <2>3. o.n \in Int
    BY <2>2, Sentinels DEF Op, Amt
  <2>4. Due(x) = IF o.op = "add" THEN o.n ELSE 0 - o.n
    BY <1>2, Zenon DEF Due
  <2> HIDE DEF o, mine
  <2> QED BY <2>3, <2>4
<1> QED BY <1>1, <1>2

\* The tables are tables of integers.
TablesTyped ==
    /\ Drawn \in [Key -> Int] /\ Inside \in [Key -> Int] /\ Held \in [Key -> Int]
    /\ \A x : Due(x) \in Int

LEMMA TableTypes == TypeOK => TablesTyped
<1> SUFFICES ASSUME TypeOK PROVE TablesTyped
  OBVIOUS
<1>1. \A x : Due(x) \in Int
  BY DueType
<1>2. ASSUME NEW k \in Key
      PROVE  /\ Value(stored[k]) \in Int /\ Value(bank[AccountOf(k)]) \in Int
             /\ Value(cur[k]) \in Int /\ Value(base[k]) \in Int
  <2>1. AccountOf(k) \in Acc \X Path
    BY PathsDistinct DEF AccountOf, Key
  <2>2. /\ stored[k] \in Amt \cup {Nil, Unknown} /\ bank[AccountOf(k)] \in Amt \cup {Nil, Unknown}
        /\ cur[k] \in Amt \cup {Nil, Unknown} /\ base[k] \in Amt \cup {Nil, Unknown}
    BY <2>1 DEF TypeOK
  <2> QED BY <2>2, ValueType
<1>3. Drawn \in [Key -> Int]
  BY <1>2 DEF Drawn
<1>4. Inside \in [Key -> Int]
  BY <1>1, <1>2 DEF Inside
<1>5. Held \in [Key -> Int]
  BY <1>1, <1>2 DEF Held
<1> QED BY <1>1, <1>3, <1>4, <1>5 DEF TablesTyped

LEMMA TableTypesNext == TypeOK' => TablesTyped'
BY TableTypes, PTL

\* The total of a coin is a row of what is held.
TotalsAreRows == \A c \in Coin : Total(c) = Row(Held, c) + pot[c]

LEMMA TotalIsRow == TotalsAreRows
<1> SUFFICES ASSUME NEW c \in Coin PROVE Total(c) = Row(Held, c) + pot[c]
  BY DEF TotalsAreRows
<1>1. [a \in Acc |-> Held[<<a, c>>]] =
      [a \in Acc |-> Value(stored[<<a, c>>])
                      + Value(bank[<<a, PathOf[c]>>]) + Due(<<a, PathOf[c]>>)]
  BY DEF Held, AccountOf, Key
<1> QED BY <1>1 DEF Total, Row

LEMMA TotalIsRowNext == TotalsAreRows'
BY TotalIsRow, PTL

-----------------------------------------------------------------------------
(* The invariant holds initially.                                          *)

LEMMA InitInv == Init => Inv
<1> SUFFICES ASSUME Init PROVE Inv
  OBVIOUS
<1>1. TypeOK
  <2>1. 0 \in Amt /\ 1 \in Amt
    BY Sentinels DEF Amt
  <2>2. /\ stored \in [Key -> Amt \cup {Nil}] /\ pot \in [Coin -> Amt] /\ native \subseteq Coin
        /\ mapper \in [Coin -> Path \cup {Nil, Unknown}]
        /\ bank \in [Acc \X Path -> Amt \cup {Nil}] /\ reserve \in Nat
    BY <2>1 DEF Init
  <2>3. issued \in [Coin -> Int] /\ phase = "idle" /\ ops \subseteq Op
    BY DEF Init
  <2>4. dry \in BOOLEAN /\ dirty \in [Key -> BOOLEAN]
    BY DEF Init
  <2>5. /\ base \in [Key -> Amt \cup {Nil, Unknown}] /\ cur \in [Key -> Amt \cup {Nil}]
        /\ initial \in [Acc \X Path -> Amt \cup {Nil}]
        /\ purse \in [Coin -> Amt] /\ potCur \in [Coin -> Amt] /\ reg \subseteq Coin
    BY <2>1 DEF Init
  <2> QED BY <2>2, <2>3, <2>4, <2>5 DEF TypeOK
<1>2. Quiet
  BY DEF Init, Quiet
<1>3. MapperOK
  BY DEF Init, MapperOK
<1>4. Viewed
  BY DEF Init, Viewed
<1>5. CleanIsLoaded
  BY DEF Init, CleanIsLoaded
<1>6. ProgramConserves
  BY DEF Init, ProgramConserves
<1>7. OpsOK
  BY DEF Init, OpsOK
<1>8. \A x : Due(x) = 0
  BY DueNone DEF Init
<1>9. ASSUME NEW k \in Key PROVE Inside[k] = 0 /\ Held[k] = 0
  <2>1. stored[k] = Nil /\ bank[AccountOf(k)] = Nil
    BY PathsDistinct DEF Init, AccountOf, Key
  <2>2. Value(stored[k]) = 0 /\ Value(bank[AccountOf(k)]) = 0
    BY <2>1 DEF Value
  <2> QED BY <1>8, <2>2 DEF Inside, Held
<1>10. \A c \in Coin : Row(Inside, c) = 0 /\ Row(Held, c) = 0
  BY <1>1, <1>9, TableTypes, RowZero DEF TablesTyped
<1>11. \A c \in Coin : pot[c] \in Int
  BY DEF Init
<1>12. Backed
  <2>1. pot = [c \in Coin |-> pot[c]]
    BY DEF Init
  <2>2. [c \in Coin |-> Row(Inside, c) + pot[c]] = pot
    BY <1>10, <1>11, <2>1
  <2> QED BY <2>2 DEF Backed, Init
<1>13. Conserved
  BY <1>10, <1>11, TotalIsRow DEF Conserved, Init, TotalsAreRows
<1> QED BY <1>1, <1>2, <1>3, <1>4, <1>5, <1>6, <1>7, <1>12, <1>13 DEF Inv

-----------------------------------------------------------------------------
(* Steps that leave storage and bank alone.                                *)

LEMMA SameBooks ==
    ASSUME Inv, UNCHANGED <<store, host, ops>>
    PROVE  Backed' /\ Conserved'
<1>1. \A x : Due(x)' = Due(x)
  BY DEF Due
<1>2. Inside' = Inside
  BY <1>1 DEF Inside, store
<1>3. Held' = Held
  BY <1>1 DEF Held, store, host
<1>4. Backed'
  BY <1>2 DEF Inv, Backed, store, host
<1>5. \A c \in Coin : Total(c)' = Total(c)
  BY <1>3, TotalIsRow, TotalIsRowNext DEF TotalsAreRows, store
<1>6. Conserved'
  BY <1>5 DEF Inv, Conserved, host
<1> QED BY <1>4, <1>6

LEMMA SameOps ==
    ASSUME Inv, UNCHANGED <<host, ops>>
    PROVE  OpsOK'
BY DEF Inv, OpsOK, host

\* A balance changes by n at the expense of the purse.
LEMMA MoveStep ==
    ASSUME Inv, NEW k \in Key, Loaded(k), NEW n \in Int, NEW v \in Amt \cup {Nil},
           Value(v) = Value(cur[k]) + n, purse[k[2]] - n \in Amt,
           cur' = [cur EXCEPT ![k] = v],
           dirty' \in [Key -> BOOLEAN], \A j \in Key : j # k => dirty'[j] = dirty[j],
           v = Nil \/ dirty'[k],
           purse' = [purse EXCEPT ![k[2]] = @ - n],
           InMove, UNCHANGED <<base, initial, potCur, reg>>
    PROVE  Inv'
<1>1. TypeOK'
  BY DEF Inv, TypeOK, InMove, store, host
<1>2. Quiet'
  BY DEF Inv, Quiet, InMove, Loaded
<1>3. MapperOK'
  BY DEF Inv, MapperOK, InMove
<1>4. Viewed'
  BY DEF Inv, Viewed, InMove, GetResource, store, host
<1>5. CleanIsLoaded'
  <2> SUFFICES ASSUME NEW j \in Key, base'[j] \notin {Unknown, Nil}, cur'[j] # Nil, ~dirty'[j]
               PROVE  cur'[j] = base'[j]
    BY DEF CleanIsLoaded
  <2>1. CASE j = k
    BY <2>1 DEF Inv, TypeOK
  <2>2. CASE j # k
    BY <2>2 DEF Inv, TypeOK, CleanIsLoaded
  <2> QED BY <2>1, <2>2
<1>6. ProgramConserves'
  <2>1. Drawn \in [Key -> Int] /\ Drawn' \in [Key -> Int]
    BY <1>1, TableTypes, TableTypesNext DEF Inv, TablesTyped
  <2>2. Drawn'[k] = Drawn[k] + n
    <3>1. base[k] # Unknown /\ cur'[k] = v
      BY DEF Loaded, Inv, TypeOK
    <3>2. Drawn[k] = Value(cur[k]) - Value(base[k]) /\ Drawn'[k] = Value(v) - Value(base[k])
      BY <3>1 DEF Drawn
    <3>3. Value(cur[k]) \in Int /\ Value(base[k]) \in Int
      <4>1. cur[k] \in Amt \cup {Nil, Unknown} /\ base[k] \in Amt \cup {Nil, Unknown}
        BY DEF Inv, TypeOK
      <4> QED BY <4>1, ValueType
    <3> QED BY <3>2, <3>3
  <2>3. \A j \in Key : j # k => Drawn'[j] = Drawn[j]
    <3>1. \A j \in Key : j # k => cur'[j] = cur[j]
      BY DEF Inv, TypeOK
    <3> QED BY <3>1 DEF Drawn
  <2>4. ASSUME NEW c \in Coin
        PROVE  Row(Drawn', c) + purse'[c] + potCur'[c] = pot'[c]
    <3>1. Row(Drawn', c) = Row(Drawn, c) + (IF c = k[2] THEN n ELSE 0)
      <4> HIDE DEF Drawn
      <4> QED BY <2>1, <2>2, <2>3, RowChange
    <3>2. Row(Drawn, c) + purse[c] + potCur[c] = pot[c]
      BY DEF Inv, ProgramConserves, Loaded
    <3>3. Row(Drawn, c) \in Int /\ purse[c] \in Int /\ potCur[c] \in Int
      BY <2>1, RowType, Sentinels DEF Inv, TypeOK, Amt
    <3>4. purse'[c] = purse[c] - (IF c = k[2] THEN n ELSE 0)
      BY <3>3 DEF Inv, TypeOK
    <3> QED BY <3>1, <3>2, <3>3, <3>4 DEF InMove, store
  <2>5. \A c \in Coin : Row(Drawn, c)' = Row(Drawn', c)
    BY DEF Row
  <2> QED BY <2>4, <2>5 DEF ProgramConserves
<1>7. OpsOK' /\ Backed' /\ Conserved'
  BY SameBooks, SameOps DEF InMove
<1> QED BY <1>1, <1>2, <1>3, <1>4, <1>5, <1>6, <1>7 DEF Inv

LEMMA KeyParts ==
    ASSUME NEW k \in Key
    PROVE  k[1] \in Acc /\ k[2] \in Coin /\ k = <<k[1], k[2]>> /\ AccountOf(k) \in Acc \X Path
BY PathsDistinct DEF Key, AccountOf

LEMMA WithdrawInv == ASSUME Inv, NEW k \in Key, NEW n \in Amt, Withdraw(k, n) PROVE Inv'
<1>1. cur[k] \in Amt /\ purse[k[2]] \in Amt /\ k[2] \in Coin
  BY KeyParts DEF Withdraw, Inv, TypeOK
<1>2. n \in Int /\ 0 - n \in Int /\ cur[k] - n \in Amt /\ purse[k[2]] - (0 - n) \in Amt
  BY <1>1, Sentinels DEF Withdraw, Amt
<1>3. Value(cur[k] - n) = Value(cur[k]) + (0 - n)
  BY <1>1, <1>2, ValueType, Sentinels DEF Amt
<1>4. purse' = [purse EXCEPT ![k[2]] = @ - (0 - n)]
  <2>1. purse[k[2]] + n = purse[k[2]] - (0 - n)
    BY <1>1, Sentinels DEF Amt
  <2> QED BY <2>1 DEF Withdraw
<1>5. /\ dirty' \in [Key -> BOOLEAN] /\ dirty'[k]
      /\ \A j \in Key : j # k => dirty'[j] = dirty[j]
  BY DEF Withdraw, Inv, TypeOK
<1> QED BY <1>2, <1>3, <1>4, <1>5, MoveStep DEF Withdraw

LEMMA DepositInv == ASSUME Inv, NEW k \in Key, NEW n \in Amt, Deposit(k, n) PROVE Inv'
<1>1. cur[k] \in Amt /\ purse[k[2]] \in Amt /\ k[2] \in Coin
  BY KeyParts DEF Deposit, Inv, TypeOK
<1>2. n \in Int /\ cur[k] + n \in Amt /\ purse[k[2]] - n \in Amt
  BY <1>1, Sentinels DEF Deposit, Amt
<1>3. Value(cur[k] + n) = Value(cur[k]) + n
  BY <1>1, <1>2, ValueType
<1>4. /\ dirty' \in [Key -> BOOLEAN] /\ dirty'[k]
      /\ \A j \in Key : j # k => dirty'[j] = dirty[j]
  BY DEF Deposit, Inv, TypeOK
<1> QED BY <1>2, <1>3, <1>4, MoveStep DEF Deposit

LEMMA CreateInv == ASSUME Inv, NEW k \in Key, NEW n \in Amt, Create(k, n) PROVE Inv'
<1>1. cur[k] = Nil /\ purse[k[2]] \in Amt /\ k[2] \in Coin
  BY KeyParts DEF Create, Inv, TypeOK
<1>2. n \in Int /\ purse[k[2]] - n \in Amt
  BY <1>1, Sentinels DEF Create, Amt
<1>3. Value(n) = Value(cur[k]) + n
  <2>1. Value(n) = n
    BY ValueType
  <2>2. Value(cur[k]) = 0
    BY <1>1 DEF Value
  <2> QED BY <1>2, <2>1, <2>2
<1>4. /\ dirty' \in [Key -> BOOLEAN] /\ dirty'[k]
      /\ \A j \in Key : j # k => dirty'[j] = dirty[j]
  BY DEF Create, Inv, TypeOK
<1> QED BY <1>2, <1>3, <1>4, MoveStep DEF Create

LEMMA DestroyInv == ASSUME Inv, NEW k \in Key, Destroy(k) PROVE Inv'
<1>1. cur[k] \in Amt /\ purse[k[2]] \in Amt /\ k[2] \in Coin
  BY KeyParts DEF Destroy, Inv, TypeOK
<1>2. 0 - cur[k] \in Int /\ purse[k[2]] - (0 - cur[k]) \in Amt
  BY <1>1, Sentinels DEF Destroy, Amt
<1>3. Value(Nil) = Value(cur[k]) + (0 - cur[k])
  <2>1. Value(cur[k]) = cur[k] /\ cur[k] \in Int
    BY <1>1, ValueType
  <2>2. Value(Nil) = 0
    BY DEF Value
  <2> QED BY <2>1, <2>2
<1>4. purse' = [purse EXCEPT ![k[2]] = @ - (0 - cur[k])]
  <2>1. purse[k[2]] + cur[k] = purse[k[2]] - (0 - cur[k])
    BY <1>1, Sentinels DEF Amt
  <2> QED BY <2>1 DEF Destroy
<1>5. dirty' \in [Key -> BOOLEAN] /\ \A j \in Key : j # k => dirty'[j] = dirty[j]
  BY DEF Destroy, Inv, TypeOK
<1> QED BY <1>2, <1>3, <1>4, <1>5, MoveStep DEF Destroy

\* The other steps of the program do not touch balances.
LEMMA PurseStep ==
    ASSUME Inv, phase = "running", InMove, UNCHANGED data,
           purse' \in [Coin -> Amt], potCur' \in [Coin -> Amt], reg' \subseteq Coin,
           \A c \in Coin : purse'[c] + potCur'[c] = purse[c] + potCur[c]
    PROVE  Inv'
<1>1. TypeOK'
  BY DEF Inv, TypeOK, InMove, store, host, data
<1>2. Quiet' /\ MapperOK'
  BY DEF Inv, Quiet, MapperOK, InMove
<1>3. Viewed'
  BY DEF Inv, Viewed, InMove, GetResource, store, host, data
<1>4. CleanIsLoaded'
  BY DEF Inv, CleanIsLoaded, data
<1>5. ProgramConserves'
  <2>1. Drawn' = Drawn /\ Drawn \in [Key -> Int]
    BY TableTypes DEF Drawn, data, Inv, TablesTyped
  <2>2. ASSUME NEW c \in Coin PROVE Row(Drawn, c)' + purse'[c] + potCur'[c] = pot'[c]
    <3>1. Row(Drawn, c) + purse[c] + potCur[c] = pot[c]
      BY DEF Inv, ProgramConserves
    <3>2. /\ Row(Drawn, c) \in Int /\ purse[c] \in Int /\ potCur[c] \in Int
          /\ purse'[c] \in Int /\ potCur'[c] \in Int
      BY <2>1, RowType, Sentinels DEF Inv, TypeOK, Amt
    <3>3. Row(Drawn, c)' = Row(Drawn, c)
      BY <2>1 DEF Row
    <3> QED BY <3>1, <3>2, <3>3 DEF InMove, store
  <2> QED BY <2>2 DEF ProgramConserves
<1>6. OpsOK' /\ Backed' /\ Conserved'
  BY SameBooks, SameOps DEF InMove
<1> QED BY <1>1, <1>2, <1>3, <1>4, <1>5, <1>6 DEF Inv

LEMMA PutAwayInv == ASSUME Inv, NEW c \in Coin, PutAway(c) PROVE Inv'
<1>1. purse \in [Coin -> Amt] /\ potCur \in [Coin -> Amt] /\ reg \subseteq Coin
  BY DEF Inv, TypeOK
<1>2. purse' \in [Coin -> Amt] /\ potCur' \in [Coin -> Amt]
  BY <1>1, Sentinels DEF PutAway, Amt
<1>3. \A d \in Coin : purse'[d] + potCur'[d] = purse[d] + potCur[d]
  BY <1>1, Sentinels DEF PutAway, Amt
<1> QED BY <1>1, <1>2, <1>3, PurseStep DEF PutAway

LEMMA TakeOutInv == ASSUME Inv, NEW c \in Coin, TakeOut(c) PROVE Inv'
<1>1. purse \in [Coin -> Amt] /\ potCur \in [Coin -> Amt] /\ reg \subseteq Coin
  BY DEF Inv, TypeOK
<1>2. purse' \in [Coin -> Amt] /\ potCur' \in [Coin -> Amt]
  BY <1>1, Sentinels DEF TakeOut, Amt
<1>3. \A d \in Coin : purse'[d] + potCur'[d] = purse[d] + potCur[d]
  BY <1>1, Sentinels DEF TakeOut, Amt
<1> QED BY <1>1, <1>2, <1>3, PurseStep DEF TakeOut

LEMMA RegisterInv == ASSUME Inv, NEW c \in Coin, Register(c) PROVE Inv'
<1>1. purse \in [Coin -> Amt] /\ potCur \in [Coin -> Amt] /\ reg' \subseteq Coin
  BY DEF Inv, TypeOK, Register
<1> QED BY <1>1, PurseStep DEF Register

-----------------------------------------------------------------------------
(* Loading a balance, and the mapper outside a transaction.                *)

LEMMA GetBridgeIs ==
    ASSUME Inv, NEW c \in Coin
    PROVE  GetBridge(c) \in {Nil, PathOf[c]} /\ (mapper[c] # Unknown => GetBridge(c) = mapper[c])
BY DEF Inv, MapperOK, GetBridge

LEMMA LoadInv == ASSUME Inv, NEW a \in Acc, NEW c \in Coin, Load(a, c) PROVE Inv'
<1> DEFINE k == <<a, c>>
           p == GetBridge(c)
           b == GetResource(a, c, p)
           x == <<a, PathOf[c]>>
<1>1. k \in Key /\ x \in Acc \X Path /\ AccountOf(k) = x /\ k[1] = a /\ k[2] = c
  BY PathsDistinct DEF Key, AccountOf
<1>2. p \in {Nil, PathOf[c]} /\ (mapper[c] # Unknown => p = mapper[c]) /\ p # Unknown
  BY GetBridgeIs, Sentinels, PathsDistinct
<1>3. /\ phase = "running" /\ base[k] = Unknown
      /\ base' = [base EXCEPT ![k] = b] /\ cur' = [cur EXCEPT ![k] = b]
      /\ initial' = Record(a, p)
      /\ mapper' = [mapper EXCEPT ![c] = p]
      /\ UNCHANGED <<store, host, prog, phase, dry, dirty, ops>>
  BY DEF Load, Remember
<1>4. /\ initial' = IF p # Nil /\ bank[x] # Nil THEN [initial EXCEPT ![x] = bank[x]] ELSE initial
      /\ b = IF p # Nil /\ bank[x] # Nil THEN bank[x] ELSE stored[k]
      /\ b \in Amt \cup {Nil}
  <2>1. bank[x] \in Amt \cup {Nil} /\ stored[k] \in Amt \cup {Nil}
    BY <1>1 DEF Inv, TypeOK
  <2> QED BY <1>2, <1>3, <2>1 DEF Record, GetResource
<1> HIDE DEF b, p
<1>5. b # Unknown
  BY <1>4, Sentinels DEF Amt
<1>6. TypeOK'
  <2>1. bank[x] \in Amt \cup {Nil}
    BY <1>1 DEF Inv, TypeOK
  <2>2. /\ base' \in [Key -> Amt \cup {Nil, Unknown}] /\ cur' \in [Key -> Amt \cup {Nil}]
        /\ initial' \in [Acc \X Path -> Amt \cup {Nil}]
    BY <1>1, <1>3, <1>4, <2>1 DEF Inv, TypeOK
  <2>3. mapper' \in [Coin -> Path \cup {Nil, Unknown}]
    BY <1>2, <1>3, PathsDistinct DEF Inv, TypeOK
  <2> QED BY <1>3, <2>2, <2>3 DEF Inv, TypeOK, store, host, prog
<1>7. Quiet'
  BY <1>3 DEF Inv, Quiet
<1>8. MapperOK'
  BY <1>2, <1>3 DEF Inv, MapperOK, TypeOK
<1>9. \A d \in Coin : mapper[d] # Unknown => mapper'[d] = mapper[d]
  BY <1>2, <1>3 DEF Inv, TypeOK
<1>10. mapper'[c] = p
  BY <1>3 DEF Inv, TypeOK
<1>11. ASSUME NEW j \in Key, base'[j] # Unknown
       PROVE  /\ mapper'[j[2]] # Unknown
              /\ base'[j] = GetResource(j[1], j[2], mapper[j[2]])'
              /\ mapper'[j[2]] # Nil => initial'[AccountOf(j)] = bank'[AccountOf(j)]
  <2>1. CASE j = k
    <3>1. base'[j] = b
      BY <1>1, <1>3, <2>1 DEF Inv, TypeOK
    <3>2. GetResource(j[1], j[2], mapper[j[2]])' = IF p # Nil /\ bank[x] # Nil THEN bank[x] ELSE stored[k]
      BY <1>1, <1>2, <1>3, <1>10, <2>1 DEF GetResource, store, host
    <3>3. p # Nil => initial'[x] = bank'[x]
      <4>1. CASE bank[x] # Nil
        BY <1>1, <1>3, <1>4, <4>1 DEF Inv, TypeOK, host
      <4>2. CASE bank[x] = Nil
        BY <1>1, <1>3, <1>4, <4>2 DEF Inv, Viewed, host
      <4> QED BY <4>1, <4>2
    <3> QED BY <1>1, <1>2, <1>4, <1>10, <2>1, <3>1, <3>2, <3>3
  <2>2. CASE j # k
    <3>1. base'[j] = base[j]
      BY <1>3, <2>2 DEF Inv, TypeOK
    <3>2. /\ mapper[j[2]] # Unknown
          /\ base[j] = GetResource(j[1], j[2], mapper[j[2]])
          /\ mapper[j[2]] # Nil => initial[AccountOf(j)] = bank[AccountOf(j)]
      BY <1>11, <3>1 DEF Inv, Viewed
    <3>3. mapper'[j[2]] = mapper[j[2]]
      BY <1>9, <3>2, KeyParts
    <3>4. GetResource(j[1], j[2], mapper[j[2]])' = GetResource(j[1], j[2], mapper[j[2]])
      BY <1>3, <3>3 DEF GetResource, store, host
    <3>5. initial[AccountOf(j)] = bank[AccountOf(j)] => initial'[AccountOf(j)] = bank'[AccountOf(j)]
      BY <1>1, <1>3, <1>4 DEF Inv, TypeOK, host
    <3> QED BY <3>1, <3>2, <3>3, <3>4, <3>5
  <2> QED BY <2>1, <2>2
<1>12. ASSUME NEW y \in Acc \X Path, initial'[y] # Nil
       PROVE  /\ initial'[y] = bank'[y]
              /\ \E d \in Coin : y[2] = PathOf[d] /\ mapper'[d] = y[2] /\ base'[<<y[1], d>>] # Unknown
  <2>1. CASE initial[y] # Nil
    <3>1. initial'[y] = bank'[y]
      <4>1. initial[y] = bank[y] /\ bank' = bank
        BY <1>3, <2>1 DEF Inv, Viewed, host
      <4>2. initial'[y] \in {initial[y], bank[y]}
        BY <1>1, <1>4 DEF Inv, TypeOK
      <4> QED BY <4>1, <4>2
    <3>2. PICK d \in Coin : y[2] = PathOf[d] /\ mapper[d] = y[2] /\ base[<<y[1], d>>] # Unknown
      BY <2>1 DEF Inv, Viewed
    <3>3. mapper'[d] = y[2]
      BY <1>9, <3>2, PathsDistinct, Sentinels
    <3>4. base'[<<y[1], d>>] # Unknown
      BY <1>1, <1>3, <1>5, <3>2 DEF Inv, TypeOK, Key
    <3> QED BY <3>1, <3>2, <3>3, <3>4
  <2>2. CASE initial[y] = Nil
    <3>1. y = x /\ p # Nil /\ bank[x] # Nil
      BY <1>4, <1>12, <2>2 DEF Inv, TypeOK
    <3>2. initial'[y] = bank'[y]
      BY <1>3, <1>4, <3>1 DEF Inv, TypeOK, host
    <3>3. y[2] = PathOf[c] /\ y[1] = a /\ mapper'[c] = y[2]
      BY <1>2, <1>10, <3>1
    <3>4. base'[<<y[1], c>>] # Unknown
      BY <1>1, <1>3, <1>5, <3>3 DEF Inv, TypeOK
    <3> QED BY <3>2, <3>3, <3>4
  <2> QED BY <2>1, <2>2
<1>13. Viewed'
  BY <1>11, <1>12 DEF Viewed, AccountOf
<1>14. CleanIsLoaded'
  BY <1>1, <1>3 DEF Inv, CleanIsLoaded, TypeOK
<1>15. ProgramConserves'
  <2>1. ASSUME NEW j \in Key PROVE Drawn'[j] = Drawn[j]
    <3>1. CASE j = k
      <4>1. base'[j] = b /\ cur'[j] = b /\ base[j] = Unknown
        BY <1>1, <1>3, <3>1 DEF Inv, TypeOK
      <4>2. Drawn'[j] = Value(b) - Value(b) /\ Drawn[j] = 0
        BY <1>5, <4>1 DEF Drawn
      <4> QED BY <1>4, <4>2, ValueType
    <3>2. CASE j # k
      <4>1. base'[j] = base[j] /\ cur'[j] = cur[j]
        BY <1>3, <3>2 DEF Inv, TypeOK
      <4> QED BY <4>1 DEF Drawn
    <3> QED BY <3>1, <3>2
  <2>2. Drawn' = Drawn
    BY <2>1 DEF Drawn
  <2>3. \A d \in Coin : Row(Drawn, d)' = Row(Drawn, d)
    BY <2>2 DEF Row
  <2> QED BY <1>3, <2>3 DEF Inv, ProgramConserves, store, prog
<1>16. OpsOK' /\ Backed' /\ Conserved'
  BY <1>3, SameBooks, SameOps
<1> QED BY <1>6, <1>7, <1>8, <1>13, <1>14, <1>15, <1>16 DEF Inv

\* A bridge that is looked up inside a transaction was not needed by any loaded balance.
LEMMA CurrencyInfoInv == ASSUME Inv, NEW c \in Coin, LoadCurrencyInfo(c) PROVE Inv'
<1>1. /\ mapper' = [mapper EXCEPT ![c] = GetBridge(c)] /\ phase = "running"
      /\ UNCHANGED <<store, host, data, prog, phase, dry, ops>>
  BY DEF LoadCurrencyInfo, Remember
<1>2. mapper' \in [Coin -> Path \cup {Nil, Unknown}] /\ MapperOK'
  BY <1>1, GetBridgeIs, PathsDistinct DEF Inv, MapperOK, TypeOK
<1>3. \A d \in Coin : mapper[d] # Unknown => mapper'[d] = mapper[d]
  BY <1>1, GetBridgeIs DEF Inv, TypeOK
<1>4. TypeOK'
  BY <1>1, <1>2 DEF Inv, TypeOK, store, host, data, prog
<1>5. Quiet'
  BY <1>1 DEF Inv, Quiet, data, prog
<1>6. ASSUME NEW j \in Key, base'[j] # Unknown
      PROVE  /\ mapper'[j[2]] # Unknown
             /\ base'[j] = GetResource(j[1], j[2], mapper[j[2]])'
             /\ mapper'[j[2]] # Nil => initial'[AccountOf(j)] = bank'[AccountOf(j)]
  <2>1. /\ mapper[j[2]] # Unknown
        /\ base[j] = GetResource(j[1], j[2], mapper[j[2]])
        /\ mapper[j[2]] # Nil => initial[AccountOf(j)] = bank[AccountOf(j)]
    BY <1>1, <1>6 DEF Inv, Viewed, data
  <2>2. mapper'[j[2]] = mapper[j[2]]
    BY <1>3, <2>1, KeyParts
  <2>3. GetResource(j[1], j[2], mapper[j[2]])' = GetResource(j[1], j[2], mapper[j[2]])
    BY <1>1, <2>2 DEF GetResource, store, host
  <2> QED BY <1>1, <2>1, <2>2, <2>3 DEF data, host
<1>7. ASSUME NEW y \in Acc \X Path, initial'[y] # Nil
      PROVE  /\ initial'[y] = bank'[y]
             /\ \E d \in Coin : y[2] = PathOf[d] /\ mapper'[d] = y[2] /\ base'[<<y[1], d>>] # Unknown
  <2>1. initial[y] = bank[y]
    BY <1>1, <1>7 DEF Inv, Viewed, data
  <2>2. PICK d \in Coin : y[2] = PathOf[d] /\ mapper[d] = y[2] /\ base[<<y[1], d>>] # Unknown
    BY <1>1, <1>7 DEF Inv, Viewed, data
  <2>3. mapper'[d] = y[2]
    BY <1>3, <2>2, PathsDistinct, Sentinels
  <2> QED BY <1>1, <2>1, <2>2, <2>3 DEF data, host
<1>8. Viewed'
  BY <1>6, <1>7 DEF Viewed, AccountOf
<1>9. CleanIsLoaded'
  BY <1>1 DEF Inv, CleanIsLoaded, data
<1>10. ProgramConserves'
  BY <1>1 DEF Inv, ProgramConserves, Row, Drawn, store, data, prog
<1>11. OpsOK' /\ Backed' /\ Conserved'
  BY <1>1, SameBooks, SameOps
<1> QED BY <1>2, <1>4, <1>5, <1>8, <1>9, <1>10, <1>11 DEF Inv

\* Outside a transaction the mapper may change at will.
LEMMA MapperStep ==
    ASSUME Inv, phase = "idle", mapper' \in [Coin -> Path \cup {Nil, Unknown}], MapperOK',
           UNCHANGED <<store, host, data, prog, phase, dry, ops>>
    PROVE  Inv'
<1>1. TypeOK'
  BY DEF Inv, TypeOK, store, host, data, prog
<1>2. Quiet'
  BY DEF Inv, Quiet, data, prog
<1>3. Viewed'
  BY DEF Inv, Quiet, Viewed, data
<1>4. CleanIsLoaded' /\ ProgramConserves'
  BY DEF Inv, CleanIsLoaded, ProgramConserves, data
<1>5. OpsOK' /\ Backed' /\ Conserved'
  BY SameBooks, SameOps
<1> QED BY <1>1, <1>2, <1>3, <1>4, <1>5 DEF Inv

LEMMA QueryInv == ASSUME Inv, NEW a \in Acc, NEW c \in Coin, Query(a, c) PROVE Inv'
<1>1. mapper' = [mapper EXCEPT ![c] = GetBridge(c)]
  BY DEF Query, Remember
<1>2. mapper' \in [Coin -> Path \cup {Nil, Unknown}] /\ MapperOK'
  BY <1>1, GetBridgeIs, PathsDistinct DEF Inv, MapperOK, TypeOK
<1> QED BY <1>2, MapperStep DEF Query

LEMMA ClearInv == ASSUME Inv, Clear PROVE Inv'
<1>1. mapper' \in [Coin -> Path \cup {Nil, Unknown}] /\ MapperOK'
  BY DEF Clear, MapperOK
<1> QED BY <1>1, MapperStep DEF Clear

-----------------------------------------------------------------------------
(* The ends of a transaction that leave storage and bank alone.            *)

LEMMA BeginInv == ASSUME Inv, NEW d \in BOOLEAN, Begin(d) PROVE Inv'
<1>1. TypeOK'
  <2>1. dry' \in BOOLEAN
    BY DEF Begin
  <2>2. phase' = "running" /\ potCur' \in [Coin -> Amt]
    BY DEF Begin, Inv, TypeOK
  <2> QED BY <2>1, <2>2 DEF Begin, Inv, TypeOK, store, host, data
<1>2. Quiet' /\ MapperOK'
  BY DEF Begin, Inv, Quiet, MapperOK
<1>3. Viewed' /\ CleanIsLoaded'
  BY DEF Begin, Inv, Quiet, Viewed, CleanIsLoaded, data
<1>4. ProgramConserves'
  <2>1. \A k \in Key : base'[k] = Unknown
    BY DEF Begin, Inv, Quiet, data
  <2>2. Drawn' \in [Key -> Int] /\ \A k \in Key : Drawn'[k] = 0
    BY <2>1 DEF Drawn
  <2>3. \A c \in Coin : Row(Drawn', c) = 0
    BY <2>2, RowZero
  <2>4. \A c \in Coin : Row(Drawn, c)' = 0
    BY <2>3 DEF Row
  <2>5. \A c \in Coin : purse'[c] = 0 /\ potCur'[c] = pot'[c] /\ pot'[c] \in Int
    BY Sentinels DEF Begin, Inv, Quiet, TypeOK, Amt, store
  <2> QED BY <2>4, <2>5 DEF ProgramConserves
<1>5. OpsOK' /\ Backed' /\ Conserved'
  BY SameBooks, SameOps DEF Begin
<1> QED BY <1>1, <1>2, <1>3, <1>4, <1>5 DEF Inv

LEMMA SessionOver ==
    ASSUME Inv, EndSession, phase' \in {"idle", "applying"}, UNCHANGED mapper
    PROVE  /\ MapperOK' /\ Viewed' /\ CleanIsLoaded' /\ ProgramConserves'
           /\ \A k \in Key : base'[k] = Unknown
           /\ \A x \in Acc \X Path : initial'[x] = Nil
           /\ \A c \in Coin : purse'[c] = 0
           /\ base' \in [Key -> Amt \cup {Nil, Unknown}] /\ cur' \in [Key -> Amt \cup {Nil}]
           /\ dirty' \in [Key -> BOOLEAN] /\ initial' \in [Acc \X Path -> Amt \cup {Nil}]
           /\ purse' \in [Coin -> Amt] /\ potCur' \in [Coin -> Amt] /\ reg' \subseteq Coin
<1>1. /\ \A k \in Key : base'[k] = Unknown
      /\ \A x \in Acc \X Path : initial'[x] = Nil
      /\ \A c \in Coin : purse'[c] = 0
  BY DEF EndSession
<1>2. MapperOK'
  BY DEF Inv, MapperOK
<1>3. Viewed' /\ CleanIsLoaded' /\ ProgramConserves'
  BY <1>1 DEF Viewed, CleanIsLoaded, ProgramConserves
<1>4. 0 \in Amt
  BY Sentinels DEF Amt
<1>5. /\ base' \in [Key -> Amt \cup {Nil, Unknown}] /\ cur' \in [Key -> Amt \cup {Nil}]
      /\ initial' \in [Acc \X Path -> Amt \cup {Nil}]
      /\ purse' \in [Coin -> Amt] /\ potCur' \in [Coin -> Amt] /\ reg' \subseteq Coin
  BY <1>4 DEF EndSession
<1>6. dirty' \in [Key -> BOOLEAN]
  BY DEF EndSession
<1> QED BY <1>1, <1>2, <1>3, <1>5, <1>6

LEMMA GiveUp ==
    ASSUME Inv, phase = "running", phase' = "idle", EndSession,
           UNCHANGED <<store, host, mapper, dry, ops>>
    PROVE  Inv'
<1>1. TypeOK'
  BY SessionOver DEF Inv, TypeOK, store, host
<1>2. Quiet'
  BY SessionOver DEF Inv, Quiet
<1>3. MapperOK' /\ Viewed' /\ CleanIsLoaded' /\ ProgramConserves'
  BY SessionOver
<1>4. OpsOK' /\ Backed' /\ Conserved'
  BY SameBooks, SameOps
<1> QED BY <1>1, <1>2, <1>3, <1>4 DEF Inv

LEMMA EndTxInv == ASSUME Inv, EndTx PROVE Inv'
<1>1. TypeOK'
  BY DEF EndTx, Inv, TypeOK, store, host, data, prog
<1>2. Quiet' /\ MapperOK'
  BY DEF EndTx, Inv, Quiet, MapperOK, data, prog
<1>3. Viewed'
  BY DEF EndTx, Inv, Quiet, Viewed, data
<1>4. CleanIsLoaded' /\ ProgramConserves'
  BY DEF EndTx, Inv, CleanIsLoaded, ProgramConserves, data
<1>5. OpsOK' /\ Backed' /\ Conserved'
  BY SameBooks, SameOps DEF EndTx
<1> QED BY <1>1, <1>2, <1>3, <1>4, <1>5 DEF Inv

LEMMA StutterInv == ASSUME Inv, UNCHANGED vars PROVE Inv'
<1>1. TypeOK' /\ Quiet' /\ MapperOK' /\ CleanIsLoaded'
  BY DEF vars, Inv, TypeOK, Quiet, MapperOK, CleanIsLoaded, store, host, data, prog
<1>2. Viewed'
  BY DEF vars, Inv, Viewed, GetResource, store, host, data, prog
<1>3. ProgramConserves'
  BY DEF vars, Inv, ProgramConserves, Row, Drawn, store, data, prog
<1>4. OpsOK' /\ Backed' /\ Conserved'
  BY SameBooks, SameOps DEF vars
<1> QED BY <1>1, <1>2, <1>3, <1>4 DEF Inv

-----------------------------------------------------------------------------
(* The host: operations applied, and native payments between transactions. *)

\* An account of the bank belongs to one balance.
LEMMA AccountsDistinct ==
    ASSUME NEW j \in Key, NEW k \in Key, AccountOf(j) = AccountOf(k)
    PROVE  j = k
BY KeyParts, PathsDistinct DEF AccountOf

LEMMA ApplyOpInv == ASSUME Inv, NEW o \in ops, ApplyOp(o) PROVE Inv'
<1> DEFINE x == <<o.acc, o.path>>
           d == Signed(o)
<1>1. /\ o.acc \in Acc /\ o.path \in Path /\ x \in Acc \X Path
      /\ o.n \in Amt /\ o.n \in Int /\ d \in Int /\ o.op \in {"sub", "add"}
  BY Sentinels DEF Inv, TypeOK, Op, Amt, Signed
<1>2. PICK c0 \in Coin : o.path = PathOf[c0]
  BY DEF Inv, OpsOK
<1> DEFINE k0 == <<o.acc, c0>>
<1>3. k0 \in Key /\ AccountOf(k0) = x /\ k0[2] = c0
  BY <1>1, <1>2 DEF Key, AccountOf
<1>4. /\ phase = "applying" /\ o \in ops /\ Accepts(o)
      /\ bank' = [bank EXCEPT ![x] = Value(@) + d]
      /\ reserve' = reserve - d /\ ops' = ops \ {o}
      /\ UNCHANGED <<store, issued, data, prog, mapper, phase, dry>>
  BY DEF ApplyOp, Ready, Signed
<1>5. /\ bank[x] \in Amt /\ Value(bank[x]) = bank[x] /\ bank[x] \in Int
      /\ bank[x] + d \in Amt
  <2>1. bank[x] \in Amt
    BY <1>1 DEF Inv, TypeOK, OpsOK
  <2>2. bank[x] \in Int /\ Value(bank[x]) = bank[x] /\ bank[x] >= 0 /\ bank[x] <= MaxAmt
    BY <2>1, ValueType
  <2>3. bank[x] + d \in Amt
    <3>1. CASE o.op = "sub"
      <4>1. o.n <= bank[x] /\ d = 0 - o.n
        BY <3>1 DEF Inv, OpsOK, Signed
      <4> QED BY <1>1, <2>1, <4>1, Sentinels DEF Amt
    <3>2. CASE o.op = "add"
      <4>1. bank[x] + o.n <= MaxAmt /\ d = o.n
        BY <3>2 DEF Inv, OpsOK, Signed
      <4> QED BY <1>1, <2>1, <4>1, Sentinels DEF Amt
    <3> QED BY <1>1, <3>1, <3>2
  <2> QED BY <2>1, <2>2, <2>3
<1>6. TypeOK'
  <2>1. reserve' \in Nat
    <3>1. CASE o.op = "sub"
      BY <1>1, <1>4, <3>1, Sentinels DEF Signed, Inv, TypeOK, Amt
    <3>2. CASE o.op = "add"
      BY <1>1, <1>4, <3>2, Sentinels DEF Signed, Inv, TypeOK, Amt, Accepts
    <3> QED BY <1>1, <3>1, <3>2
  <2>2. bank' \in [Acc \X Path -> Amt \cup {Nil}]
    BY <1>1, <1>4, <1>5 DEF Inv, TypeOK
  <2> QED BY <1>4, <2>1, <2>2 DEF Inv, TypeOK, store, data, prog
<1>7. Quiet' /\ MapperOK'
  BY <1>4 DEF Inv, Quiet, MapperOK, data, prog
<1>8. Viewed' /\ CleanIsLoaded' /\ ProgramConserves'
  BY <1>4 DEF Inv, Quiet, Viewed, CleanIsLoaded, ProgramConserves, data
<1>9. \A q \in ops : <<q.acc, q.path>> = x => q = o
  BY DEF Inv, OpsOK
<1>10. OpsOK'
  <2> SUFFICES ASSUME NEW q \in ops'
               PROVE  /\ \E c \in Coin : q.path = PathOf[c]
                      /\ \A r \in ops' : r.acc = q.acc /\ r.path = q.path => r = q
                      /\ bank'[<<q.acc, q.path>>] # Nil
                      /\ IF q.op = "sub" THEN q.n <= bank'[<<q.acc, q.path>>]
                         ELSE bank'[<<q.acc, q.path>>] + q.n <= MaxAmt
    BY DEF OpsOK
  <2>1. q \in ops /\ q # o /\ <<q.acc, q.path>> # x /\ <<q.acc, q.path>> \in Acc \X Path
    BY <1>4, <1>9 DEF Inv, TypeOK, Op
  <2>2. bank'[<<q.acc, q.path>>] = bank[<<q.acc, q.path>>]
    BY <1>4, <2>1 DEF Inv, TypeOK
  <2> QED BY <1>4, <2>1, <2>2 DEF Inv, OpsOK
<1>11. Due(x) = d
  BY DueOne DEF Inv, OpsOK
<1>12. Due(x)' = 0
  <2>1. \A q \in ops' : <<q.acc, q.path>> # x
    BY <1>4, <1>9
  <2>2. {q \in ops' : <<q.acc, q.path>> = x} = {}
    BY <2>1
  <2> QED BY <2>2, Zenon DEF Due
<1>13. ASSUME NEW y, y # x PROVE Due(y)' = Due(y)
  <2>1. {q \in ops' : <<q.acc, q.path>> = y} = {q \in ops : <<q.acc, q.path>> = y}
    BY <1>4, <1>13
  <2>2. Due(y) = DueOf({q \in ops : <<q.acc, q.path>> = y})
    BY Zenon DEF Due, DueOf
  <2>3. Due(y)' = DueOf({q \in ops' : <<q.acc, q.path>> = y})
    BY Zenon DEF Due, DueOf
  <2> QED BY <2>1, <2>2, <2>3
<1> HIDE DEF x, d, k0
<1>14. \A k \in Key : k # k0 => AccountOf(k) # x
  BY <1>3, AccountsDistinct
<1>15. TablesTyped /\ TablesTyped'
  BY <1>6, TableTypes, TableTypesNext DEF Inv
<1>16. ASSUME NEW k \in Key
       PROVE  /\ Held'[k] = Held[k]
              /\ k # k0 => Inside'[k] = Inside[k]
              /\ k = k0 => Inside'[k] = Inside[k] + (0 - d)
  <2>1. /\ Held'[k] = Value(stored[k]) + Value(bank'[AccountOf(k)]) + Due(AccountOf(k))'
        /\ Inside'[k] = Value(stored[k]) + Due(AccountOf(k))'
        /\ Held[k] = Value(stored[k]) + Value(bank[AccountOf(k)]) + Due(AccountOf(k))
        /\ Inside[k] = Value(stored[k]) + Due(AccountOf(k))
    BY <1>4 DEF Held, Inside, AccountOf, store
  <2>2. Value(stored[k]) \in Int
    BY ValueType DEF Inv, TypeOK
  <2>3. CASE k # k0
    <3>1. AccountOf(k) # x /\ AccountOf(k) \in Acc \X Path
      BY <1>14, <2>3, KeyParts
    <3>2. bank'[AccountOf(k)] = bank[AccountOf(k)]
      BY <1>4, <3>1 DEF Inv, TypeOK
    <3>3. Due(AccountOf(k))' = Due(AccountOf(k))
      BY <1>13, <3>1 DEF AccountOf
    <3> QED BY <2>1, <2>3, <3>2, <3>3
  <2>4. CASE k = k0
    <3>1. AccountOf(k) = x
      BY <1>3, <2>4
    <3>2. bank'[AccountOf(k)] = bank[x] + d
      BY <1>1, <1>4, <1>5, <3>1 DEF Inv, TypeOK
    <3>3. Due(AccountOf(k))' = 0 /\ Due(AccountOf(k)) = d
      BY <1>11, <1>12, <3>1 DEF AccountOf
    <3>4. Value(bank[x] + d) = bank[x] + d
      BY <1>5, ValueType
    <3> QED BY <1>1, <1>5, <2>1, <2>2, <2>4, <3>1, <3>2, <3>3, <3>4
  <2> QED BY <2>3, <2>4
<1>17. Conserved'
  <2>1. Held' = Held
    BY <1>15, <1>16 DEF TablesTyped
  <2>2. \A c \in Coin : Total(c)' = Total(c)
    BY <1>4, <2>1, TotalIsRow, TotalIsRowNext DEF TotalsAreRows, store
  <2> QED BY <1>4, <2>2 DEF Inv, Conserved
<1>18. Backed'
  <2> DEFINE f == [c \in Coin |-> Row(Inside, c) + pot[c]]
             h == [c \in Coin |-> Row(Inside', c) + pot'[c]]
  <2>1. Inside \in [Key -> Int] /\ Inside' \in [Key -> Int]
    BY <1>15 DEF TablesTyped
  <2>2. \A c \in Coin : Row(Inside', c) = Row(Inside, c) + (IF c = c0 THEN 0 - d ELSE 0)
    <3>1. Inside'[k0] = Inside[k0] + (0 - d) /\ \A j \in Key : j # k0 => Inside'[j] = Inside[j]
      BY <1>3, <1>16
    <3> QED BY <1>1, <1>3, <2>1, <3>1, RowChange
  <2>3. \A c \in Coin : Row(Inside, c) \in Int /\ Row(Inside', c) \in Int /\ pot[c] \in Int /\ pot'[c] = pot[c]
    BY <1>4, <2>1, RowType, Sentinels DEF Inv, TypeOK, Amt, store
  <2>4. f \in [Coin -> Int] /\ h \in [Coin -> Int]
    BY <2>3
  <2>5. \A c \in Coin : c # c0 => h[c] = f[c]
    BY <2>2, <2>3
  <2>6. h[c0] - f[c0] = 0 - d
    BY <1>1, <2>2, <2>3
  <2>7. SumFunction(f) = reserve
    BY DEF Inv, Backed
  <2>8. SumFunction(h) = SumFunction(f) + (h[c0] - f[c0])
    <3> HIDE DEF f, h
    <3> QED BY <2>4, <2>5, SumChange, FiniteSystem
  <2>9. SumFunction(h) = reserve'
    <3> HIDE DEF f, h
    <3> QED BY <1>1, <1>4, <2>6, <2>7, <2>8 DEF Inv, TypeOK
  <2>10. \A c \in Coin : Row(Inside, c)' = Row(Inside', c)
    BY DEF Row
  <2>11. ([c \in Coin |-> Row(Inside, c) + pot[c]])' = h
    BY <2>10
  <2> QED BY <2>9, <2>11 DEF Backed
<1> QED BY <1>6, <1>7, <1>8, <1>10, <1>17, <1>18 DEF Inv

\* A native payment of n to (or from) an account.
LEMMA HostStep ==
    ASSUME Inv, phase = "idle", NEW a \in Acc, NEW c \in Coin, NEW n \in Int,
           Value(bank[<<a, PathOf[c]>>]) + n \in Amt,
           bank' = [bank EXCEPT ![<<a, PathOf[c]>>] = Value(@) + n],
           issued' = [issued EXCEPT ![c] = @ + n],
           UNCHANGED <<store, reserve, data, prog, mapper, phase, dry, ops>>
    PROVE  Inv'
<1> DEFINE k0 == <<a, c>>
           x == <<a, PathOf[c]>>
<1>1. k0 \in Key /\ AccountOf(k0) = x /\ k0[2] = c /\ x \in Acc \X Path
  BY PathsDistinct DEF Key, AccountOf
<1>2. TypeOK'
  <2>1. bank' \in [Acc \X Path -> Amt \cup {Nil}]
    BY <1>1 DEF Inv, TypeOK
  <2>2. issued' \in [Coin -> Int]
    BY DEF Inv, TypeOK
  <2> QED BY <2>1, <2>2 DEF Inv, TypeOK, store, data, prog
<1>3. Quiet' /\ MapperOK'
  BY DEF Inv, Quiet, MapperOK, data, prog
<1>4. Viewed' /\ CleanIsLoaded' /\ ProgramConserves'
  BY DEF Inv, Quiet, Viewed, CleanIsLoaded, ProgramConserves, data
<1>5. OpsOK'
  BY DEF Inv, Quiet, OpsOK
<1>6. \A y : Due(y)' = Due(y)
  BY DEF Due
<1>7. Backed'
  <2>1. Inside' = Inside
    BY <1>6 DEF Inside, store
  <2> QED BY <2>1 DEF Inv, Backed, store
<1>8. TablesTyped /\ TablesTyped'
  BY <1>2, TableTypes, TableTypesNext DEF Inv
<1> HIDE DEF k0, x
<1>9. ASSUME NEW k \in Key
      PROVE  (k # k0 => Held'[k] = Held[k]) /\ (k = k0 => Held'[k] = Held[k] + n)
  <2>1. /\ Held'[k] = Value(stored[k]) + Value(bank'[AccountOf(k)]) + Due(AccountOf(k))
        /\ Held[k] = Value(stored[k]) + Value(bank[AccountOf(k)]) + Due(AccountOf(k))
    BY <1>6 DEF Held, AccountOf, store
  <2>2. AccountOf(k) \in Acc \X Path
    BY KeyParts
  <2>3. CASE k # k0
    <3>1. AccountOf(k) # x
      BY <1>1, <2>3, AccountsDistinct
    <3>2. bank'[AccountOf(k)] = bank[AccountOf(k)]
      BY <2>2, <3>1 DEF Inv, TypeOK, x
    <3> QED BY <2>1, <2>3, <3>2
  <2>4. CASE k = k0
    <3>1. AccountOf(k) = x
      BY <1>1, <2>4
    <3>2. bank'[x] = Value(bank[x]) + n
      BY <1>1 DEF Inv, TypeOK, x
    <3>3. Value(Value(bank[x]) + n) = Value(bank[x]) + n
      BY ValueType DEF x
    <3>4. Value(stored[k]) \in Int /\ Value(bank[x]) \in Int
      BY <1>1, ValueType DEF Inv, TypeOK
    <3>5. Due(x) \in Int
      BY <1>8 DEF TablesTyped
    <3> QED BY <2>1, <2>4, <3>1, <3>2, <3>3, <3>4, <3>5
  <2> QED BY <2>3, <2>4
<1>10. Conserved'
  <2> SUFFICES ASSUME NEW e \in Coin PROVE Total(e)' = issued'[e]
    BY DEF Conserved
  <2>1. Held \in [Key -> Int] /\ Held' \in [Key -> Int]
    BY <1>8 DEF TablesTyped
  <2>2. Row(Held', e) = Row(Held, e) + (IF e = c THEN n ELSE 0)
    BY <1>1, <1>9, <2>1, RowChange
  <2>3. Total(e) = Row(Held, e) + pot[e] /\ Total(e)' = Row(Held', e) + pot[e]
    <3>1. Total(e)' = Row(Held, e)' + pot'[e]
      BY TotalIsRowNext DEF TotalsAreRows
    <3>2. Row(Held, e)' = Row(Held', e)
      BY DEF Row
    <3> QED BY <3>1, <3>2, TotalIsRow DEF TotalsAreRows, store
  <2>4. Row(Held, e) \in Int /\ pot[e] \in Int
    BY <2>1, RowType, Sentinels DEF Inv, TypeOK, Amt
  <2>5. issued'[e] = issued[e] + (IF e = c THEN n ELSE 0)
    BY DEF Inv, TypeOK
  <2>6. Total(e) = issued[e]
    BY DEF Inv, Conserved
  <2> QED BY <2>2, <2>3, <2>4, <2>5, <2>6
<1> QED BY <1>2, <1>3, <1>4, <1>5, <1>7, <1>10 DEF Inv

LEMMA HostDepositInv == ASSUME Inv, NEW a \in Acc, NEW c \in Coin, HostDeposit(a, c) PROVE Inv'
<1> DEFINE x == <<a, PathOf[c]>>
<1>1. bank[x] \in Amt \cup {Nil, Unknown}
  BY PathsDistinct DEF Inv, TypeOK
<1>2. Value(bank[x]) \in Int /\ Value(bank[x]) >= 0
  BY <1>1, ValueType
<1>3. /\ phase = "idle" /\ Value(bank[x]) < MaxAmt
      /\ bank' = [bank EXCEPT ![x] = Value(@) + 1]
      /\ issued' = [issued EXCEPT ![c] = @ + 1]
      /\ UNCHANGED <<store, reserve, data, prog, mapper, phase, dry, ops>>
  BY DEF HostDeposit
<1>4. Value(bank[x]) + 1 \in Amt /\ 1 \in Int
  BY <1>2, <1>3, Sentinels DEF Amt
<1> QED BY <1>3, <1>4, HostStep, Zenon

LEMMA HostWithdrawInv == ASSUME Inv, NEW a \in Acc, NEW c \in Coin, HostWithdraw(a, c) PROVE Inv'
<1> DEFINE x == <<a, PathOf[c]>>
           m == -1
<1>1. x \in Acc \X Path /\ bank[x] \in Amt \cup {Nil}
  BY PathsDistinct DEF Inv, TypeOK
<1>2. bank[x] \in Amt
  BY <1>1 DEF HostWithdraw, Value
<1>3. /\ Value(bank[x]) = bank[x] /\ bank[x] \in Int /\ bank[x] - 1 = bank[x] + m
      /\ Value(bank[x]) + m \in Amt /\ m \in Int
  BY <1>2, ValueType, Sentinels DEF HostWithdraw, Amt
<1>4. /\ phase = "idle" /\ bank' = [bank EXCEPT ![x] = @ - 1]
      /\ issued' = [issued EXCEPT ![c] = @ - 1]
      /\ UNCHANGED <<store, reserve, data, prog, mapper, phase, dry, ops>>
  BY DEF HostWithdraw
<1>5. bank' = [bank EXCEPT ![x] = Value(@) + m]
  BY <1>3, <1>4
<1>6. issued' = [issued EXCEPT ![c] = @ + m]
  <2>1. issued[c] \in Int
    BY DEF Inv, TypeOK
  <2>2. issued[c] - 1 = issued[c] + m
    BY <2>1
  <2> QED BY <1>4, <2>2
<1> HIDE DEF m
<1> QED BY <1>3, <1>4, <1>5, <1>6, HostStep, Zenon

-----------------------------------------------------------------------------
(* The commit.                                                             *)

LEMMA DueOfOne ==
    ASSUME NEW o
    PROVE  DueOf({o}) = Signed(o)
<1> DEFINE p == CHOOSE q \in {o} : TRUE
<1>1. p = o /\ {o} # {}
  OBVIOUS
<1>2. DueOf({o}) = IF {o} = {} THEN 0 ELSE IF p.op = "add" THEN p.n ELSE 0 - p.n
  BY Zenon DEF DueOf
<1> HIDE DEF p
<1> QED BY <1>1, <1>2 DEF Signed

\* make_acc_ops makes at most one operation, which the bank can do and which changes the
\* account by the difference.
LEMMA MakeOpsDoes ==
    ASSUME NEW a \in Acc, NEW p \in Path, NEW from \in Amt, NEW to \in Amt \cup {Nil, Unknown}
    PROVE  LET made == MakeOps(a, p, from, to) IN
           /\ made \subseteq Op
           /\ \A o \in made : /\ o.acc = a /\ o.path = p
                              /\ IF o.op = "sub" THEN o.n <= from ELSE from + o.n <= MaxAmt
           /\ \A o, q \in made : o = q
           /\ DueOf(made) = IF to = Unknown THEN 0 ELSE Value(to) - from
<1> DEFINE made == MakeOps(a, p, from, to)
<1>1. from \in Int /\ from >= 0 /\ from <= MaxAmt /\ MaxAmt \in Nat
  BY Sentinels DEF Amt
<1>2. Value(to) \in Int /\ Value(to) >= 0 /\ Value(to) <= MaxAmt /\ (to \in Amt => Value(to) = to)
  BY ValueType
<1>3. CASE to = Unknown \/ to = from
  <2>1. made = {}
    BY <1>3 DEF MakeOps
  <2>2. DueOf({}) = 0
    BY Zenon DEF DueOf
  <2>3. to # Unknown => Value(to) - from = 0
    BY <1>1, <1>2, <1>3
  <2> QED BY <1>3, <2>1, <2>2, <2>3
<1>4. CASE to # Unknown /\ to # from /\ Value(to) > from
  <2> DEFINE o == [op |-> "add", acc |-> a, path |-> p, n |-> to - from]
  <2>1. made = {o}
    BY <1>4 DEF MakeOps
  <2>2. to \in Amt /\ Value(to) = to
    BY <1>1, <1>2, <1>4 DEF Value
  <2>3. o.n \in Amt /\ o.n = Value(to) - from /\ from + o.n <= MaxAmt /\ o.n \in Int
    BY <1>1, <1>2, <1>4, <2>2 DEF Amt
  <2>4. o \in Op
    BY <2>3 DEF Op
  <2>5. DueOf(made) = Value(to) - from
    <3>1. Signed(o) = o.n
      BY DEF Signed
    <3> HIDE DEF made, o
    <3> QED BY <2>1, <2>3, <3>1, DueOfOne
  <2> QED BY <1>4, <2>1, <2>3, <2>4, <2>5
<1>5. CASE to # Unknown /\ to # from /\ ~(Value(to) > from)
  <2> DEFINE o == [op |-> "sub", acc |-> a, path |-> p, n |-> from - Value(to)]
  <2>1. made = {o}
    BY <1>5 DEF MakeOps
  <2>2. o.n \in Amt /\ 0 - o.n = Value(to) - from /\ o.n <= from
    BY <1>1, <1>2, <1>5 DEF Amt
  <2>3. o \in Op
    BY <2>2 DEF Op
  <2>4. DueOf(made) = Value(to) - from
    BY <2>1, <2>2, DueOfOne DEF Signed
  <2> QED BY <1>5, <2>1, <2>2, <2>3, <2>4
<1> QED BY <1>3, <1>4, <1>5

\* The balances taken out of the change set are those the session remembers, and these
\* are the ones loaded from the bank.
LEMMA BridgedIs ==
    ASSUME Inv, NEW k \in Key
    PROVE  /\ k \in Bridged <=> initial[AccountOf(k)] # Nil
           /\ initial[AccountOf(k)] # Nil =>
                /\ mapper[k[2]] = PathOf[k[2]] /\ base[k] = initial[AccountOf(k)]
                /\ bank[AccountOf(k)] = initial[AccountOf(k)] /\ base[k] \in Amt
           /\ initial[AccountOf(k)] = Nil /\ base[k] # Unknown =>
                /\ base[k] = stored[k]
                /\ mapper[k[2]] = Nil \/ bank[AccountOf(k)] = Nil
<1> DEFINE x == AccountOf(k)
<1>1. /\ k[1] \in Acc /\ k[2] \in Coin /\ k = <<k[1], k[2]>> /\ x \in Acc \X Path
      /\ x = <<k[1], PathOf[k[2]]>> /\ x[1] = k[1] /\ x[2] = PathOf[k[2]] /\ PathOf[k[2]] \in Path
  BY KeyParts, PathsDistinct DEF AccountOf
<1>2. ASSUME k \in Bridged PROVE initial[x] # Nil
  <2>1. PICK p \in Path : initial[<<k[1], p>>] # Nil /\ k[2] \in CoinAt(p)
    BY <1>2 DEF Bridged
  <2>2. mapper[k[2]] = p
    BY <2>1 DEF CoinAt
  <2>3. p = PathOf[k[2]]
    BY <1>1, <2>2, Sentinels DEF Inv, MapperOK
  <2> QED BY <1>1, <2>1, <2>3
<1>3. ASSUME initial[x] # Nil
      PROVE  /\ k \in Bridged /\ mapper[k[2]] = PathOf[k[2]] /\ base[k] = initial[x]
             /\ bank[x] = initial[x] /\ base[k] \in Amt
  <2>1. PICK d \in Coin : x[2] = PathOf[d] /\ mapper[d] = x[2] /\ base[<<x[1], d>>] # Unknown
    BY <1>1, <1>3 DEF Inv, Viewed
  <2>2. d = k[2]
    BY <1>1, <2>1, PathsDistinct
  <2>3. mapper[k[2]] = PathOf[k[2]] /\ base[k] # Unknown
    BY <1>1, <2>1, <2>2
  <2>4. initial[x] = bank[x]
    BY <1>1, <1>3 DEF Inv, Viewed
  <2>5. base[k] = GetResource(k[1], k[2], mapper[k[2]])
    BY <2>3 DEF Inv, Viewed
  <2>6. PathOf[k[2]] # Nil
    BY <1>1, Sentinels
  <2>7. base[k] = bank[x]
    BY <1>1, <1>3, <2>3, <2>4, <2>5, <2>6 DEF GetResource
  <2>8. k[2] \in CoinAt(PathOf[k[2]])
    BY <1>1, <2>3 DEF CoinAt
  <2>9. k \in Bridged
    BY <1>1, <1>3, <2>8 DEF Bridged
  <2>10. bank[x] \in Amt
    BY <1>1, <1>3, <2>4 DEF Inv, TypeOK
  <2> QED BY <2>3, <2>4, <2>7, <2>9, <2>10
<1>4. ASSUME initial[x] = Nil, base[k] # Unknown
      PROVE  base[k] = stored[k] /\ (mapper[k[2]] = Nil \/ bank[x] = Nil)
  <2>1. /\ mapper[k[2]] # Unknown
        /\ base[k] = GetResource(k[1], k[2], mapper[k[2]])
        /\ mapper[k[2]] # Nil => initial[x] = bank[x]
    BY <1>4 DEF Inv, Viewed
  <2>2. mapper[k[2]] = Nil \/ (mapper[k[2]] = PathOf[k[2]] /\ bank[x] = Nil)
    BY <1>1, <1>4, <2>1 DEF Inv, MapperOK
  <2> QED BY <1>1, <2>1, <2>2 DEF GetResource
<1> QED BY <1>2, <1>3, <1>4

\* The change set is right about what the program did.
LEMMA EffectIs ==
    ASSUME Inv, NEW k \in Key
    PROVE  /\ Effect(k) \in Amt \cup {Nil, Unknown}
           /\ base[k] = Unknown => Effect(k) = Unknown
           /\ base[k] # Unknown /\ Effect(k) = Unknown => cur[k] = base[k]
           /\ Effect(k) # Unknown => Effect(k) = cur[k]
<1>1. cur[k] \in Amt \cup {Nil} /\ base[k] \in Amt \cup {Nil, Unknown}
  BY DEF Inv, TypeOK
<1>2. cur[k] # Unknown
  BY <1>1, Sentinels DEF Amt
<1>3. base[k] \notin {Unknown, Nil} /\ cur[k] # Nil /\ ~dirty[k] => cur[k] = base[k]
  BY DEF Inv, CleanIsLoaded
<1> QED BY <1>1, <1>2, <1>3 DEF Effect

\* The operations of one account.
LEMMA OpsOfAccount ==
    ASSUME Inv, NEW k \in Key
    PROVE  {o \in BalanceOps : <<o.acc, o.path>> = AccountOf(k)} =
              IF initial[AccountOf(k)] = Nil THEN {}
              ELSE MakeOps(k[1], PathOf[k[2]], initial[AccountOf(k)], Effect(k))
<1> DEFINE made(j) == MakeOps(j[1], PathOf[j[2]], initial[AccountOf(j)], Effect(j))
<1>1. BalanceOps = UNION {made(j) : j \in Bridged}
  <2>1. ASSUME NEW j \in Bridged PROVE mapper[j[2]] = PathOf[j[2]]
    BY BridgedIs DEF Bridged
  <2> QED BY <2>1 DEF BalanceOps, AccountOf
<1>2. ASSUME NEW j \in Bridged, NEW o \in made(j) PROVE <<o.acc, o.path>> = AccountOf(j)
  <2>1. j \in Key
    BY DEF Bridged
  <2>2. /\ initial[AccountOf(j)] \in Amt /\ Effect(j) \in Amt \cup {Nil, Unknown}
        /\ j[1] \in Acc /\ PathOf[j[2]] \in Path
    BY <2>1, BridgedIs, EffectIs, KeyParts, PathsDistinct
  <2>3. o.acc = j[1] /\ o.path = PathOf[j[2]]
    BY <1>2, <2>2, MakeOpsDoes
  <2> QED BY <2>3 DEF AccountOf
<1> HIDE DEF made
<1>3. CASE initial[AccountOf(k)] = Nil
  <2>1. k \notin Bridged
    BY <1>3, BridgedIs
  <2>2. \A j \in Bridged : j \in Key
    BY DEF Bridged
  <2>3. \A j \in Bridged : AccountOf(j) # AccountOf(k)
    BY <2>1, <2>2, AccountsDistinct
  <2> QED BY <1>1, <1>2, <1>3, <2>3
<1>4. CASE initial[AccountOf(k)] # Nil
  <2>1. k \in Bridged
    BY <1>4, BridgedIs
  <2>2. \A j \in Bridged : AccountOf(j) = AccountOf(k) => j = k
    BY AccountsDistinct DEF Bridged
  <2>3. {o \in BalanceOps : <<o.acc, o.path>> = AccountOf(k)} = made(k)
    BY <1>1, <1>2, <2>1, <2>2
  <2> QED BY <1>4, <2>3 DEF made
<1> QED BY <1>3, <1>4

\* A commit, balance by balance: the change that the program made ends up in storage or
\* among the operations, and nowhere else.
LEMMA CommitPoint ==
    ASSUME Inv, NEW k \in Key, stored' = StoreEffects, ops' = BalanceOps
    PROVE  /\ initial[AccountOf(k)] = Nil =>
                /\ Due(AccountOf(k))' = 0
                /\ Value(stored'[k]) = Value(stored[k]) + Drawn[k]
           /\ initial[AccountOf(k)] # Nil =>
                /\ Due(AccountOf(k))' = Drawn[k]
                /\ stored'[k] = stored[k]
           /\ stored'[k] \in Amt \cup {Nil}
<1> DEFINE x == AccountOf(k)
           mine == {o \in BalanceOps : <<o.acc, o.path>> = x}
<1>1. Due(AccountOf(k))' = DueOf(mine)
  <2>1. Due(AccountOf(k))' = DueOf({o \in ops' : <<o.acc, o.path>> = AccountOf(k)'})
    BY Zenon DEF Due, DueOf
  <2>2. AccountOf(k)' = AccountOf(k)
    BY DEF AccountOf
  <2> QED BY <2>1, <2>2
<1>2. stored'[k] = IF k \in Bridged \/ Effect(k) = Unknown THEN stored[k] ELSE Effect(k)
  BY DEF StoreEffects
<1>3. /\ stored[k] \in Amt \cup {Nil} /\ Value(stored[k]) \in Int
      /\ cur[k] \in Amt \cup {Nil} /\ Value(cur[k]) \in Int
      /\ Value(base[k]) \in Int
  BY ValueType DEF Inv, TypeOK
<1>4. Drawn[k] = IF base[k] = Unknown THEN 0 ELSE Value(cur[k]) - Value(base[k])
  BY DEF Drawn
<1>5. stored'[k] \in Amt \cup {Nil}
  BY <1>2, <1>3, EffectIs
<1>6. CASE initial[x] = Nil
  <2>1. mine = {} /\ k \notin Bridged
    BY <1>6, OpsOfAccount, BridgedIs
  <2>2. DueOf({}) = 0
    BY Zenon DEF DueOf
  <2>3. Value(stored'[k]) = Value(stored[k]) + Drawn[k]
    <3>1. CASE base[k] = Unknown
      <4>1. stored'[k] = stored[k]
        BY <1>2, <3>1, EffectIs
      <4> QED BY <1>3, <1>4, <3>1, <4>1
    <3>2. CASE base[k] # Unknown
      <4>1. base[k] = stored[k]
        BY <1>6, <3>2, BridgedIs
      <4>2. Value(stored'[k]) = Value(cur[k])
        BY <1>2, <2>1, <3>2, <4>1, EffectIs
      <4> QED BY <1>3, <1>4, <3>2, <4>1, <4>2
    <3> QED BY <3>1, <3>2
  <2> QED BY <1>1, <1>5, <1>6, <2>1, <2>2, <2>3
<1>7. CASE initial[x] # Nil
  <2>1. /\ k \in Bridged /\ base[k] = initial[x] /\ initial[x] \in Amt /\ base[k] # Unknown
    BY <1>7, BridgedIs, Sentinels DEF Amt
  <2>2. mine = MakeOps(k[1], PathOf[k[2]], initial[x], Effect(k))
    BY <1>7, OpsOfAccount
  <2>3. k[1] \in Acc /\ PathOf[k[2]] \in Path /\ Effect(k) \in Amt \cup {Nil, Unknown}
    BY KeyParts, PathsDistinct, EffectIs
  <2>4. DueOf(mine) = IF Effect(k) = Unknown THEN 0 ELSE Value(Effect(k)) - initial[x]
    <3> DEFINE from == initial[x]
               to == Effect(k)
               made == MakeOps(k[1], PathOf[k[2]], from, to)
    <3> HIDE DEF mine, from, to
    <3>1. from \in Amt /\ to \in Amt \cup {Nil, Unknown}
      BY <2>1, <2>3 DEF from, to
    <3>2. DueOf(made) = IF to = Unknown THEN 0 ELSE Value(to) - from
      BY <2>3, <3>1, MakeOpsDoes
    <3> QED BY <2>2, <3>2 DEF from, to
  <2>5. Value(base[k]) = initial[x]
    BY <2>1, ValueType
  <2>6. DueOf(mine) = Drawn[k]
    <3> HIDE DEF mine
    <3>1. CASE Effect(k) = Unknown
      <4>1. cur[k] = base[k]
        BY <2>1, <3>1, EffectIs
      <4> QED BY <1>3, <1>4, <2>1, <2>4, <3>1, <4>1
    <3>2. CASE Effect(k) # Unknown
      <4>1. Effect(k) = cur[k]
        BY <3>2, EffectIs
      <4> QED BY <1>3, <1>4, <2>1, <2>4, <2>5, <3>2, <4>1
    <3> QED BY <3>1, <3>2
  <2>7. stored'[k] = stored[k]
    BY <1>2, <2>1
  <2> QED BY <1>1, <1>5, <1>7, <2>6, <2>7
<1> QED BY <1>6, <1>7

LEMMA CommitOpsOK ==
    ASSUME Inv, ops' = BalanceOps, UNCHANGED bank
    PROVE  ops' \subseteq Op /\ OpsOK'
<1>1. ASSUME NEW o \in BalanceOps
      PROVE  \E k \in Key :
                /\ initial[AccountOf(k)] # Nil
                /\ o \in MakeOps(k[1], PathOf[k[2]], initial[AccountOf(k)], Effect(k))
                /\ <<o.acc, o.path>> = AccountOf(k)
  <2>1. PICK k \in Bridged : o \in MakeOps(k[1], mapper[k[2]], initial[<<k[1], mapper[k[2]]>>], Effect(k))
    BY DEF BalanceOps
  <2>2. k \in Key
    BY DEF Bridged
  <2>3. initial[AccountOf(k)] # Nil /\ mapper[k[2]] = PathOf[k[2]] /\ initial[AccountOf(k)] \in Amt
    BY <2>2, BridgedIs
  <2>4. o \in MakeOps(k[1], PathOf[k[2]], initial[AccountOf(k)], Effect(k))
    BY <2>1, <2>3 DEF AccountOf
  <2>5. k[1] \in Acc /\ PathOf[k[2]] \in Path /\ Effect(k) \in Amt \cup {Nil, Unknown}
    BY <2>2, KeyParts, PathsDistinct, EffectIs
  <2>6. o.acc = k[1] /\ o.path = PathOf[k[2]]
    BY <2>3, <2>4, <2>5, MakeOpsDoes
  <2> QED BY <2>2, <2>3, <2>4, <2>6 DEF AccountOf
<1>2. ASSUME NEW o \in BalanceOps
      PROVE  /\ o \in Op
             /\ \E c \in Coin : o.path = PathOf[c]
             /\ \A q \in BalanceOps : q.acc = o.acc /\ q.path = o.path => q = o
             /\ bank[<<o.acc, o.path>>] # Nil
             /\ IF o.op = "sub" THEN o.n <= bank[<<o.acc, o.path>>]
                ELSE bank[<<o.acc, o.path>>] + o.n <= MaxAmt
  <2>1. PICK k \in Key :
                /\ initial[AccountOf(k)] # Nil
                /\ o \in MakeOps(k[1], PathOf[k[2]], initial[AccountOf(k)], Effect(k))
                /\ <<o.acc, o.path>> = AccountOf(k)
    BY <1>1
  <2> DEFINE made == MakeOps(k[1], PathOf[k[2]], initial[AccountOf(k)], Effect(k))
  <2>2. /\ k[1] \in Acc /\ PathOf[k[2]] \in Path /\ Effect(k) \in Amt \cup {Nil, Unknown}
        /\ initial[AccountOf(k)] \in Amt /\ k[2] \in Coin
        /\ bank[AccountOf(k)] = initial[AccountOf(k)]
    BY <2>1, KeyParts, PathsDistinct, EffectIs, BridgedIs
  <2>3. /\ made \subseteq Op
        /\ \A q \in made : /\ q.path = PathOf[k[2]]
                           /\ IF q.op = "sub" THEN q.n <= initial[AccountOf(k)]
                              ELSE initial[AccountOf(k)] + q.n <= MaxAmt
        /\ \A q, r \in made : q = r
    BY <2>2, MakeOpsDoes
  <2>4. {q \in BalanceOps : <<q.acc, q.path>> = AccountOf(k)} = made
    BY <2>1, OpsOfAccount
  <2> HIDE DEF made
  <2>5. o \in made
    BY <2>1, <2>4
  <2>6. \A q \in BalanceOps : q.acc = o.acc /\ q.path = o.path => q = o
    BY <2>1, <2>3, <2>4, <2>5
  <2>7. bank[<<o.acc, o.path>>] = initial[AccountOf(k)]
    BY <2>1, <2>2
  <2>8. \E c \in Coin : o.path = PathOf[c]
    BY <2>2, <2>3, <2>5
  <2> QED BY <2>1, <2>3, <2>5, <2>6, <2>7, <2>8
<1> QED BY <1>2 DEF OpsOK

LEMMA FinishInv == ASSUME Inv, Finish PROVE Inv'
<1>1. CASE dry
  BY <1>1, GiveUp DEF Finish
<1>2. CASE ~dry
  <2>1. /\ phase = "running" /\ phase' = "applying" /\ \A c \in Coin : purse[c] = 0
        /\ stored' = StoreEffects /\ pot' = potCur /\ native' = native \cup reg
        /\ ops' = BalanceOps /\ EndSession /\ UNCHANGED <<host, mapper, dry>>
    BY <1>2 DEF Finish
  <2>2. stored' \in [Key -> Amt \cup {Nil}]
    <3>1. \A k \in Key : stored'[k] \in Amt \cup {Nil}
      BY <2>1, CommitPoint
    <3> QED BY <2>1, <3>1 DEF StoreEffects
  <2>3. ops' \subseteq Op /\ OpsOK'
    BY <2>1, CommitOpsOK DEF host
  <2>4. TypeOK'
    BY <2>1, <2>2, <2>3, SessionOver DEF Inv, TypeOK, host
  <2>5. Quiet' /\ MapperOK' /\ Viewed' /\ CleanIsLoaded' /\ ProgramConserves'
    BY <2>1, SessionOver DEF Quiet
  <2>6. /\ Drawn \in [Key -> Int] /\ Inside \in [Key -> Int] /\ Held \in [Key -> Int]
        /\ Inside' \in [Key -> Int] /\ Held' \in [Key -> Int]
    BY <2>4, TableTypes, TableTypesNext DEF Inv, TablesTyped
  <2>7. \A x : Due(x) = 0
    BY <2>1, DueNone DEF Inv, Quiet
  <2>8. ASSUME NEW k \in Key
        PROVE  Inside'[k] = Inside[k] + Drawn[k] /\ Held'[k] = Held[k] + Drawn[k]
    <3>1. /\ Held'[k] = Value(stored'[k]) + Value(bank[AccountOf(k)]) + Due(AccountOf(k))'
          /\ Inside'[k] = Value(stored'[k]) + Due(AccountOf(k))'
          /\ Held[k] = Value(stored[k]) + Value(bank[AccountOf(k)])  + 0
          /\ Inside[k] = Value(stored[k]) + 0
      BY <2>1, <2>7 DEF Held, Inside, AccountOf, host
    <3>2. Value(stored[k]) \in Int /\ Value(bank[AccountOf(k)]) \in Int /\ Drawn[k] \in Int
      BY <2>6, KeyParts, ValueType DEF Inv, TypeOK
    <3>3. CASE initial[AccountOf(k)] = Nil
      <4>1. Due(AccountOf(k))' = 0 /\ Value(stored'[k]) = Value(stored[k]) + Drawn[k]
        BY <2>1, <3>3, CommitPoint
      <4> QED BY <3>1, <3>2, <4>1
    <3>4. CASE initial[AccountOf(k)] # Nil
      <4>1. Due(AccountOf(k))' = Drawn[k] /\ stored'[k] = stored[k]
        BY <2>1, <3>4, CommitPoint
      <4> QED BY <3>1, <3>2, <4>1
    <3> QED BY <3>3, <3>4
  <2>9. ASSUME NEW c \in Coin
        PROVE  /\ Row(Inside', c) = Row(Inside, c) + Row(Drawn, c)
               /\ Row(Held', c) = Row(Held, c) + Row(Drawn, c)
               /\ Row(Drawn, c) + potCur[c] = pot[c]
               /\ Row(Inside, c) \in Int /\ Row(Held, c) \in Int /\ Row(Drawn, c) \in Int
               /\ potCur[c] \in Int /\ pot[c] \in Int /\ pot'[c] = potCur[c]
    <3>1. Row(Inside, c) \in Int /\ Row(Held, c) \in Int /\ Row(Drawn, c) \in Int
      BY <2>6, RowType
    <3>2. potCur[c] \in Int /\ pot[c] \in Int /\ pot'[c] = potCur[c]
      BY <2>1, Sentinels DEF Inv, TypeOK, Amt
    <3>3. Row(Drawn, c) + purse[c] + potCur[c] = pot[c] /\ purse[c] = 0
      BY <2>1 DEF Inv, ProgramConserves
    <3>4. Row(Inside', c) = Row(Inside, c) + Row(Drawn, c)
      <4> HIDE DEF Inside, Drawn
      <4> QED BY <2>6, <2>8, RowAdd
    <3>5. Row(Held', c) = Row(Held, c) + Row(Drawn, c)
      <4> HIDE DEF Held, Drawn
      <4> QED BY <2>6, <2>8, RowAdd
    <3> QED BY <3>1, <3>2, <3>3, <3>4, <3>5
  <2>10. \A c \in Coin : Row(Inside, c)' = Row(Inside', c) /\ Row(Held, c)' = Row(Held', c)
    BY DEF Row
  <2>11. Backed'
    <3>1. \A c \in Coin : Row(Inside, c)' + pot'[c] = Row(Inside, c) + pot[c]
      BY <2>9, <2>10
    <3>2. ([c \in Coin |-> Row(Inside, c) + pot[c]])' = [c \in Coin |-> Row(Inside, c) + pot[c]]
      BY <3>1
    <3> QED BY <2>1, <3>2 DEF Inv, Backed, host
  <2>12. Conserved'
    <3> SUFFICES ASSUME NEW c \in Coin PROVE Total(c)' = issued'[c]
      BY DEF Conserved
    <3>1. Total(c)' = Row(Held, c)' + pot'[c] /\ Total(c) = Row(Held, c) + pot[c]
      BY TotalIsRow, TotalIsRowNext DEF TotalsAreRows
    <3>2. Total(c)' = Total(c)
      BY <2>9, <2>10, <3>1
    <3> QED BY <2>1, <3>2 DEF Inv, Conserved, host
  <2> QED BY <2>3, <2>4, <2>5, <2>11, <2>12 DEF Inv
<1> QED BY <1>1, <1>2

-----------------------------------------------------------------------------
(* The theorems.                                                           *)

LEMMA NextInv == Inv /\ [Next]_vars => Inv'
<1> SUFFICES ASSUME Inv, [Next]_vars PROVE Inv'
  OBVIOUS
<1>1. CASE Program
  <2>1. ASSUME NEW a \in Acc, NEW c \in Coin, Load(a, c) PROVE Inv'
    BY <2>1, LoadInv
  <2>2. ASSUME NEW k \in Key, NEW n \in Amt, Withdraw(k, n) \/ Deposit(k, n) \/ Create(k, n)
        PROVE  Inv'
    BY <2>2, WithdrawInv, DepositInv, CreateInv
  <2>3. ASSUME NEW k \in Key, Destroy(k) PROVE Inv'
    BY <2>3, DestroyInv
  <2>4. ASSUME NEW c \in Coin, PutAway(c) \/ TakeOut(c) \/ Register(c) \/ LoadCurrencyInfo(c)
        PROVE  Inv'
    BY <2>4, PutAwayInv, TakeOutInv, RegisterInv, CurrencyInfoInv
  <2> QED BY <1>1, <2>1, <2>2, <2>3, <2>4 DEF Program
<1>2. ASSUME NEW d \in BOOLEAN, Begin(d) PROVE Inv'
  BY <1>2, BeginInv
<1>3. CASE Finish
  BY <1>3, FinishInv
<1>4. CASE Fail
  BY <1>4, GiveUp DEF Fail
<1>5. CASE EndTx
  BY <1>5, EndTxInv
<1>6. CASE Clear
  BY <1>6, ClearInv
<1>7. ASSUME NEW o \in ops, ApplyOp(o) PROVE Inv'
  BY <1>7, ApplyOpInv
<1>8. ASSUME NEW a \in Acc, NEW c \in Coin,
             Query(a, c) \/ HostDeposit(a, c) \/ HostWithdraw(a, c)
      PROVE  Inv'
  BY <1>8, QueryInv, HostDepositInv, HostWithdrawInv
<1>9. CASE UNCHANGED vars
  BY <1>9, StutterInv
<1> QED BY <1>1, <1>2, <1>3, <1>4, <1>5, <1>6, <1>7, <1>8, <1>9 DEF Next

LEMMA Invariance == Spec => []Inv
<1> QED BY InitInv, NextInv, PTL DEF Spec

\* Storage and bank together always hold exactly the coins that the host brought in.
THEOREM CoinsConserved == Spec => []Conserved
<1>1. Inv => Conserved
  BY DEF Inv
<1> QED BY <1>1, Invariance, PTL

\* When only additions are left, the reserve has enough for each of them: it holds what
\* is inside Move, and nothing there is negative.
LEMMA ReserveSuffices ==
    ASSUME Inv, NEW o \in ops, \A q \in ops : q.op = "add"
    PROVE  o.n <= reserve
<1>1. PICK c0 \in Coin : o.path = PathOf[c0]
  BY DEF Inv, OpsOK
<1> DEFINE k0 == <<o.acc, c0>>
<1>2. k0 \in Key /\ AccountOf(k0) = <<o.acc, o.path>> /\ o.acc \in Acc
  BY <1>1 DEF Inv, TypeOK, Op, Key, AccountOf
<1>3. \A q \in ops : q.n \in Int /\ q.n >= 0 /\ Signed(q) = q.n
  BY Sentinels DEF Inv, TypeOK, Op, Amt, Signed
<1>4. ASSUME NEW x PROVE Due(x) \in Int /\ Due(x) >= 0
  <2>1. CASE \A q \in ops : <<q.acc, q.path>> # x
    BY <2>1, DueNone
  <2>2. CASE \E q \in ops : <<q.acc, q.path>> = x
    <3>1. PICK q \in ops : <<q.acc, q.path>> = x
      BY <2>2
    <3>2. Due(x) = Signed(q)
      BY <3>1, DueOne DEF Inv, OpsOK
    <3> QED BY <1>3, <3>2
  <2> QED BY <2>1, <2>2
<1>5. Due(AccountOf(k0)) = o.n
  BY <1>2, <1>3, DueOne DEF Inv, OpsOK
<1>6. \A k \in Key : Value(stored[k]) \in Int /\ Value(stored[k]) >= 0
  BY ValueType DEF Inv, TypeOK
<1>7. Inside \in [Key -> Int] /\ \A k \in Key : Inside[k] >= 0
  BY <1>4, <1>6 DEF Inside
<1>8. o.n <= Inside[k0] /\ Inside[k0] \in Int
  <2> HIDE DEF k0
  <2> QED BY <1>2, <1>3, <1>5, <1>6 DEF Inside
<1>9. ASSUME NEW c \in Coin PROVE Row(Inside, c) \in Int /\ Row(Inside, c) >= 0
  BY <1>7, RowType, RowBounds
<1>10. Inside[k0] <= Row(Inside, c0)
  BY <1>2, <1>7, RowBounds
<1> DEFINE f == [c \in Coin |-> Row(Inside, c) + pot[c]]
<1>11. \A c \in Coin : pot[c] \in Int /\ pot[c] >= 0
  BY Sentinels DEF Inv, TypeOK, Amt
<1>12. f \in [Coin -> Int] /\ (\A c \in Coin : f[c] >= 0) /\ Row(Inside, c0) <= f[c0]
  BY <1>9, <1>11
<1>13. SumFunction(f) = reserve /\ reserve \in Int
  BY DEF Inv, Backed, TypeOK
<1> HIDE DEF f, k0
<1>14. f[c0] <= SumFunction(f) /\ f[c0] \in Int
  BY <1>12, SumBounds, FiniteSystem
<1> QED BY <1>3, <1>8, <1>9, <1>10, <1>12, <1>13, <1>14

\* The bank can do every operation that update_balance hands it, and so no balance ever
\* leaves u64.
THEOREM BankSuffices == Spec => []BankNeverShort
<1>1. Inv => BankNeverShort
  <2> SUFFICES ASSUME Inv, phase = "applying", NEW o \in ops, Ready(o)
               PROVE  TypeOK /\ Accepts(o)
    BY DEF BankNeverShort, Inv
  <2>1. TypeOK
    BY DEF Inv
  <2>2. CASE o.op = "sub"
    <3>1. bank[<<o.acc, o.path>>] # Nil /\ o.n <= bank[<<o.acc, o.path>>]
      BY <2>2 DEF Inv, OpsOK
    <3>2. bank[<<o.acc, o.path>>] \in Amt
      BY <3>1 DEF Inv, TypeOK, Op
    <3> QED BY <2>1, <2>2, <3>1, <3>2, ValueType DEF Accepts
  <2>3. CASE o.op = "add"
    <3>1. \A q \in ops : q.op = "add"
      BY <2>3 DEF Ready
    <3> QED BY <2>1, <2>3, <3>1, ReserveSuffices DEF Accepts
  <2>4. o.op \in {"sub", "add"}
    BY DEF Inv, TypeOK, Op
  <2> QED BY <2>2, <2>3, <2>4
<1> QED BY <1>1, Invariance, PTL

-----------------------------------------------------------------------------
(* What a transaction leaves behind.                                       *)

\* The bridge of a coin is answered alike before and after it was looked up.
LEMMA SameBalance ==
    ASSUME Inv, UNCHANGED <<store, host, ops>>, NEW k \in Key,
           GetBridge(k[2])' = GetBridge(k[2])
    PROVE  Balance(k)' = Balance(k)
<1>1. \A x : Due(x)' = Due(x)
  BY DEF Due
<1>2. GetResource(k[1], k[2], GetBridge(k[2]))' = GetResource(k[1], k[2], GetBridge(k[2]))
  BY DEF GetResource, store, host
<1>3. Due(<<k[1], GetBridge(k[2])>>)' = Due(<<k[1], GetBridge(k[2])>>)
  BY <1>1
<1> QED BY <1>2, <1>3 DEF Balance, host

\* A step inside a transaction that does not commit it leaves what the next transaction
\* would read.
LEMMA NoTraceStep ==
    ASSUME Inv, Next, phase = "running", phase' # "applying", NEW k \in Key
    PROVE  Balance(k)' = Balance(k)
<1>1. k[2] \in Coin
  BY KeyParts
<1>2. ASSUME UNCHANGED <<store, host, mapper, ops>> PROVE Balance(k)' = Balance(k)
  BY <1>2, SameBalance DEF GetBridge, store
<1>3. ASSUME NEW c \in Coin, UNCHANGED <<store, host, ops>>, mapper' = Remember(c)
      PROVE  Balance(k)' = Balance(k)
  <2>1. UNCHANGED <<store, host, ops>> /\ mapper' = [mapper EXCEPT ![c] = GetBridge(c)]
    BY <1>3 DEF Remember
  <2>2. GetBridge(k[2])' = GetBridge(k[2])
    <3>1. mapper \in [Coin -> Path \cup {Nil, Unknown}]
      BY DEF Inv, TypeOK
    <3>2. GetBridge(c) # Unknown
      BY GetBridgeIs, Sentinels, PathsDistinct
    <3>3. CASE k[2] = c
      BY <1>1, <2>1, <3>1, <3>2, <3>3 DEF GetBridge
    <3>4. CASE k[2] # c
      <4>1. mapper'[k[2]] = mapper[k[2]] /\ native' = native
        BY <1>1, <2>1, <3>1, <3>4 DEF store
      <4> QED BY <4>1 DEF GetBridge
    <3> QED BY <3>3, <3>4
  <2> QED BY <2>1, <2>2, SameBalance
<1>4. CASE Program
  BY <1>2, <1>3, <1>4 DEF Program, InMove, Load, Withdraw, Deposit, Create, Destroy, PutAway,
                          TakeOut, Register, LoadCurrencyInfo
<1>5. CASE Finish \/ Fail
  BY <1>2, <1>5 DEF Finish, Fail
<1>6. ~(EndTx \/ Clear \/ (\E d \in BOOLEAN : Begin(d)) \/ (\E o \in ops : ApplyOp(o)))
  BY DEF EndTx, Clear, Begin, ApplyOp
<1>7. ~(\E a \in Acc, c \in Coin : Query(a, c) \/ HostDeposit(a, c) \/ HostWithdraw(a, c))
  BY DEF Query, HostDeposit, HostWithdraw
<1> QED BY <1>4, <1>5, <1>6, <1>7 DEF Next

\* A failed or dry transaction leaves no trace in the balances.
THEOREM FailuresLeaveNoTrace == Spec => NoTrace
<1>1. Inv /\ [Next]_vars =>
        [phase = "running" /\ phase' # "applying" => \A k \in Key : Balance(k)' = Balance(k)]_vars
  BY NoTraceStep
<1> QED BY <1>1, Invariance, PTL DEF Spec, NoTrace

\* A commit gives every account the balance that the program last saw.
LEMMA CommitStep ==
    ASSUME Inv, Next, phase = "running", phase' = "applying", NEW k \in Key, k[2] \notin reg
    PROVE  Balance(k)' = IF base[k] = Unknown THEN Balance(k) ELSE Value(cur[k])
<1> DEFINE c == k[2]
           x == AccountOf(k)
           p == GetBridge(c)
<1>1. Finish /\ ~dry
  BY DEF Next, Program, Load, LoadCurrencyInfo, InMove, Withdraw, Deposit, Create, Destroy, PutAway, TakeOut,
         Register, Begin, Finish, Fail, EndTx, Clear, ApplyOp, Query, HostDeposit, HostWithdraw
<1>2. /\ stored' = StoreEffects /\ ops' = BalanceOps /\ native' = native \cup reg
      /\ UNCHANGED <<host, mapper>>
  BY <1>1 DEF Finish
<1>3. c \in Coin /\ x = <<k[1], PathOf[c]>> /\ x \in Acc \X Path /\ k = <<k[1], c>>
  BY KeyParts DEF AccountOf
<1>4. GetBridge(c)' = p /\ p \in {Nil, PathOf[c]} /\ PathOf[c] # Nil
  BY <1>2, <1>3, GetBridgeIs, Sentinels, PathsDistinct DEF GetBridge
<1>5. \A y : Due(y) = 0
  BY DueNone DEF Inv, Quiet
<1>6. /\ Value(stored[k]) \in Int /\ Value(bank[x]) \in Int /\ Value(cur[k]) \in Int
      /\ Value(base[k]) \in Int
  BY <1>3, ValueType DEF Inv, TypeOK
<1>7. Balance(k) = IF p # Nil /\ bank[x] # Nil THEN Value(bank[x]) ELSE Value(stored[k])
  <2>1. Balance(k) = Value(GetResource(k[1], c, p)) + (IF p # Nil /\ bank[<<k[1], p>>] # Nil THEN 0 ELSE 0)
    BY <1>5 DEF Balance
  <2>2. p # Nil => <<k[1], p>> = x
    BY <1>3, <1>4
  <2>3. GetResource(k[1], c, p) = IF p # Nil /\ bank[x] # Nil THEN bank[x] ELSE stored[k]
    BY <1>3, <2>2 DEF GetResource
  <2> HIDE DEF p, x, c
  <2> QED BY <1>6, <2>1, <2>3
<1>8. Balance(k)' = IF p # Nil /\ bank[x] # Nil THEN Value(bank[x]) + Due(x)' ELSE Value(stored'[k]) + 0
  <2>1. Balance(k)' = Value(GetResource(k[1], c, GetBridge(c))')
                      + (IF p # Nil /\ bank'[<<k[1], p>>] # Nil THEN Due(<<k[1], GetBridge(c)>>)' ELSE 0)
    BY <1>4 DEF Balance
  <2>2. p # Nil => <<k[1], p>> = x
    BY <1>3, <1>4
  <2>3. p # Nil => Due(<<k[1], GetBridge(c)>>)' = Due(x)'
    BY <1>3, <1>4 DEF AccountOf
  <2>4. GetResource(k[1], c, GetBridge(c))' = IF p # Nil /\ bank[x] # Nil THEN bank[x] ELSE stored'[k]
    BY <1>2, <1>3, <1>4, <2>2 DEF GetResource, host
  <2> HIDE DEF p, x, c
  <2> QED BY <1>2, <2>1, <2>2, <2>3, <2>4 DEF host
<1>9. Drawn[k] = IF base[k] = Unknown THEN 0 ELSE Value(cur[k]) - Value(base[k])
  BY DEF Drawn
<1>10. CASE initial[x] # Nil
  <2>1. mapper[c] = PathOf[c] /\ base[k] = bank[x] /\ bank[x] \in Amt
    BY <1>10, BridgedIs
  <2>2. p = PathOf[c] /\ base[k] # Unknown /\ bank[x] # Nil
    BY <1>3, <2>1, GetBridgeIs, Sentinels, PathsDistinct DEF Amt
  <2>3. Due(x)' = Drawn[k]
    BY <1>2, <1>10, CommitPoint
  <2> QED BY <1>4, <1>6, <1>8, <1>9, <2>1, <2>2, <2>3
<1>11. CASE initial[x] = Nil
  <2>1. Due(x)' = 0 /\ Value(stored'[k]) = Value(stored[k]) + Drawn[k]
    BY <1>2, <1>11, CommitPoint
  <2>2. CASE base[k] = Unknown
    BY <1>6, <1>7, <1>8, <1>9, <2>1, <2>2
  <2>3. CASE base[k] # Unknown
    <3>1. base[k] = stored[k] /\ (mapper[c] = Nil \/ bank[x] = Nil)
      BY <1>11, <2>3, BridgedIs
    <3>2. mapper[c] # Unknown
      BY <2>3 DEF Inv, Viewed
    <3>3. p = mapper[c]
      BY <1>3, <3>2, GetBridgeIs
    <3> QED BY <1>6, <1>8, <1>9, <2>1, <2>3, <3>1, <3>3
  <2> QED BY <2>2, <2>3
<1> QED BY <1>10, <1>11

\* A committed transaction leaves the balances that the program saw.
THEOREM CommitsKeepBalances == Spec => CommitKeepsBalances
<1>1. Inv /\ [Next]_vars =>
        [phase' = "applying" /\ phase = "running" =>
           \A k \in Key : k[2] \notin reg =>
             Balance(k)' = IF base[k] = Unknown THEN Balance(k) ELSE Value(cur[k])]_vars
  BY CommitStep
<1> QED BY <1>1, Invariance, PTL DEF Spec, CommitKeepsBalances
=============================================================================
