------------------------- MODULE TxPipelineProofs -------------------------
(***************************************************************************)
(* The bill of every transaction is right, for every schedule of charges,  *)
(* every scaling factor and every word size.                               *)
(***************************************************************************)
EXTENDS TxPipeline, TLAPS

\* A limit within GAS_AMOUNT_MAX_VALUE converts to internal units without wrapping.
LEMMA NoWrap ==
    ASSUME NEW u \in 0..MaxGas
    PROVE  /\ ToInternal(u) = u * Scale
           /\ u * Scale \in 0..(Word - 1)
<1> DEFINE q == (Word - 1) \div Scale
<1>1. Word \in Nat /\ Word - 1 \in Nat /\ Scale \in Nat /\ Scale > 0 /\ u \in Nat
  BY GasAssumption, SMT DEF MaxGas
<1>2. q \in Nat /\ q * Scale <= Word - 1
  BY <1>1, SMT
<1>3. u <= q
  BY SMT DEF MaxGas
<1> HIDE DEF q
<1>4. u * Scale <= q * Scale
  BY <1>1, <1>2, <1>3, SMT
<1>5. u * Scale \in Nat /\ u * Scale < Word
  BY <1>1, <1>2, <1>4, SMT
<1>6. (u * Scale) % Word = u * Scale
  BY <1>1, <1>5, SMT
<1> QED
  BY <1>1, <1>5, <1>6, SMT DEF ToInternal

\* Converting what is left to external units and subtracting it from the limit rounds
\* the difference up.
LEMMA RoundUp ==
    ASSUME NEW u \in Nat, NEW d \in Nat, d <= u * Scale
    PROVE  LET e == u - ToExternal(u * Scale - d) IN
           /\ e \in 0..u
           /\ d <= e * Scale /\ e * Scale < d + Scale
<1> DEFINE i == u * Scale - d
           q == i \div Scale
<1>1. Scale \in Nat /\ Scale > 0 /\ u * Scale \in Nat
  BY GasAssumption, SMT
<1>2. i \in Nat /\ i <= u * Scale
  BY <1>1, SMT
<1>3. q \in Nat /\ q * Scale <= i /\ i < (q + 1) * Scale
  <2> HIDE DEF i
  <2> QED BY <1>1, <1>2, SMT
<1>4. i = u * Scale - d
  OBVIOUS
<1> HIDE DEF q, i
<1>5. q <= u
  <2>1. CASE q > u
    <3>1. (u + 1) * Scale <= q * Scale
      BY <1>1, <1>3, <2>1, SMT
    <3>2. (u + 1) * Scale = u * Scale + Scale
      BY <1>1, SMT
    <3> QED BY <1>1, <1>2, <1>3, <3>1, <3>2, SMT
  <2> QED BY <1>3, <2>1, SMT
<1>6. (u - q) * Scale = u * Scale - q * Scale /\ (q + 1) * Scale = q * Scale + Scale
  BY <1>1, <1>3, SMT
<1>7. u - q \in 0..u
  BY <1>3, <1>5, SMT
<1>8. d <= (u - q) * Scale /\ (u - q) * Scale < d + Scale
  BY <1>1, <1>2, <1>3, <1>4, <1>6, <1>7, SMT
<1> QED
  BY <1>4, <1>7, <1>8 DEF ToExternal, q, i

\* A u64 is a natural number.
LEMMA WrapsToNat == ASSUME NEW n \in Nat PROVE n % Word \in Nat
<1>1. Word \in Nat /\ Word > 0
  BY GasAssumption, SMT
<1> QED BY <1>1, SMT

\* Every charge of the pipeline is a natural number.
LEMMA ChargesNat ==
    /\ \A cost \in Costs, size \in Sizes : InstrCost(cost, size) \in Nat
    /\ \A n \in 0..MaxModules : IntrinsicCost(n) \in Nat
    /\ \A n \in 1..MaxAccounts : WriteCharge(n) \in Nat
<1>1. ASSUME NEW cost \in Costs, NEW size \in Sizes PROVE InstrCost(cost, size) \in Nat
  <2>1. cost \in Nat /\ Max2(1, size) \in Nat
    BY GasAssumption, SMT DEF Max2
  <2>2. cost * Max2(1, size) \in Nat
    BY <2>1, SMT
  <2> QED BY <2>2, WrapsToNat DEF InstrCost
<1>2. ASSUME NEW n \in 0..MaxModules PROVE IntrinsicCost(n) \in Nat
  <2>1. CASE n > Cutoff
    <3>1. n - Cutoff \in Nat /\ PerByte \in Nat /\ MinFee \in Nat
      BY GasAssumption, <2>1, SMT
    <3>2. PerByte * (n - Cutoff) \in Nat
      BY <3>1, SMT
    <3>3. MinFee + PerByte * (n - Cutoff) \in Nat
      BY <3>1, <3>2, SMT
    <3> QED BY <2>1, <3>3, WrapsToNat DEF IntrinsicCost
  <2>2. CASE ~(n > Cutoff)
    BY GasAssumption, <2>2, WrapsToNat DEF IntrinsicCost
  <2> QED BY <2>1, <2>2
<1>3. ASSUME NEW n \in 1..MaxAccounts PROVE WriteCharge(n) \in Nat
  <2>1. n * WriteCost \in Nat
    BY GasAssumption, SMT
  <2> QED BY <2>1, WrapsToNat DEF WriteCharge
<1> QED BY <1>1, <1>2, <1>3

\* The inductive invariant: Bill speaks of finished transactions only, MeterExact carries it
\* through the running one.
Inv == TypeOK /\ MeterExact /\ Bill /\ EffectsPaid

\* A charge of n >= 0 keeps the meter exact and the gas left a u64.
LEMMA ChargeStep ==
    ASSUME TypeOK, MeterExact, stage # "idle", result # "OUT_OF_GAS",
           NEW n \in Nat, NEW err \in {"ok", "error"}, Charge(n, err)
    PROVE  /\ left' \in 0..(Word - 1) /\ demand' \in Nat
           /\ result' \in {err, "OUT_OF_GAS"}
           /\ result' # "OUT_OF_GAS" <=> Covers(left, n)
           /\ IF result' = "OUT_OF_GAS" THEN left' = 0 /\ demand' > limit * Scale
              ELSE left' = limit * Scale - demand'
<1>1. left \in Nat /\ left <= Word - 1 /\ demand \in Nat /\ left = limit * Scale - demand
  BY SMT DEF TypeOK, MeterExact
<1>2. limit * Scale \in Int
  BY GasAssumption, SMT DEF TypeOK, MaxGas
<1>3. CASE Covers(left, n)
  BY <1>1, <1>2, <1>3, GasAssumption, SMT DEF Charge, Covers, Deduct
<1>4. CASE ~Covers(left, n)
  BY <1>1, <1>2, <1>4, GasAssumption, SMT DEF Charge, Covers, Deduct
<1> QED BY <1>3, <1>4

\* Every step of the pipeline, whatever it charges and however it ends, keeps the meter
\* exact and the bill right.
THEOREM InvStep == Inv /\ [Next]_vars => Inv'
<1> SUFFICES ASSUME Inv, [Next]_vars PROVE Inv'
  OBVIOUS
<1> USE DEF Inv
<1>1. ASSUME NEW kind \in {"script", "intrinsic"}, NEW max \in 0..MaxGas, NEW d \in BOOLEAN,
             Begin(kind, max, d)
      PROVE  Inv'
  <2>1. left' = max * Scale /\ max * Scale \in 0..(Word - 1)
    BY <1>1, NoWrap DEF Begin
  <2>2. max * Scale - 0 = max * Scale
    BY <2>1, GasAssumption, SMT
  <2>3. TypeOK'
    BY <1>1, <2>1, GasAssumption, SMT DEF Begin, TypeOK, out, Stages
  <2>4. MeterExact'
    BY <1>1, <2>1, <2>2 DEF Begin, MeterExact
  <2>5. stage' # "idle"
    BY <1>1 DEF Begin
  <2> QED BY <2>3, <2>4, <2>5 DEF Bill, EffectsPaid
<1>2. ASSUME NEW cost \in Costs, NEW size \in Sizes, Instr(cost, size) PROVE Inv'
  <2> DEFINE n == InstrCost(cost, size)
  <2>1. n \in Nat
    BY ChargesNat
  <2>2. stage = "script" /\ Charge(n, "ok") /\ stage' = (IF Covers(left, n) THEN "script" ELSE "finish")
    BY <1>2 DEF Instr
  <2>3. result # "OUT_OF_GAS"
    BY <2>2 DEF MeterExact
  <2> HIDE DEF n
  <2>4. /\ left' \in 0..(Word - 1) /\ demand' \in Nat
        /\ result' \in {"ok", "OUT_OF_GAS"}
        /\ result' # "OUT_OF_GAS" <=> Covers(left, n)
        /\ IF result' = "OUT_OF_GAS" THEN left' = 0 /\ demand' > limit * Scale
           ELSE left' = limit * Scale - demand'
    BY <2>1, <2>2, <2>3, ChargeStep
  <2>6. TypeOK'
    BY <1>2, <2>2, <2>4 DEF Instr, TypeOK, pipe, out, Stages
  <2>7. MeterExact'
    BY <1>2, <2>2, <2>4 DEF Instr, MeterExact, pipe
  <2> QED BY <2>2, <2>6, <2>7 DEF Bill, EffectsPaid
<1>3. CASE ScriptFails
  <2>1. result # "OUT_OF_GAS"
    BY <1>3 DEF ScriptFails, MeterExact
  <2> QED BY <1>3, <2>1 DEF ScriptFails, TypeOK, MeterExact, Bill, EffectsPaid, pipe, out, Stages
<1>4. CASE ScriptReturns
  <2>1. result # "OUT_OF_GAS"
    BY <1>4 DEF ScriptReturns, MeterExact
  <2> QED BY <1>4, <2>1 DEF ScriptReturns, TypeOK, MeterExact, Bill, EffectsPaid, pipe, out, Stages
<1>5. ASSUME NEW m \in 0..MaxModules, Intrinsic(m) PROVE Inv'
  <2> DEFINE n == IntrinsicCost(m)
  <2>1. n \in Nat
    BY ChargesNat
  <2>2. stage = "intrinsic" /\ Charge(n, "ok") /\ stage' = (IF Covers(left, n) THEN "publish" ELSE "finish")
    BY <1>5 DEF Intrinsic
  <2>3. result # "OUT_OF_GAS"
    BY <2>2 DEF MeterExact
  <2> HIDE DEF n
  <2>4. /\ left' \in 0..(Word - 1) /\ demand' \in Nat
        /\ result' \in {"ok", "OUT_OF_GAS"}
        /\ result' # "OUT_OF_GAS" <=> Covers(left, n)
        /\ IF result' = "OUT_OF_GAS" THEN left' = 0 /\ demand' > limit * Scale
           ELSE left' = limit * Scale - demand'
    BY <2>1, <2>2, <2>3, ChargeStep
  <2>6. TypeOK'
    BY <1>5, <2>2, <2>4 DEF Intrinsic, TypeOK, pipe, out, Stages
  <2>7. MeterExact'
    BY <1>5, <2>2, <2>4 DEF Intrinsic, MeterExact, pipe
  <2> QED BY <2>2, <2>6, <2>7 DEF Bill, EffectsPaid
<1>6. ASSUME NEW r \in {"ok", "error"}, Publish(r) PROVE Inv'
  <2>1. result # "OUT_OF_GAS"
    BY <1>6 DEF Publish, MeterExact
  <2> QED BY <1>6, <2>1 DEF Publish, TypeOK, MeterExact, Bill, EffectsPaid, pipe, out, Stages
<1>7. ASSUME NEW m \in 1..MaxAccounts, ChargeWrite(m) PROVE Inv'
  <2> DEFINE n == WriteCharge(m)
  <2>1. n \in Nat
    BY ChargesNat
  <2>2. stage = "write" /\ Charge(n, result) /\ stage' = "finish"
    BY <1>7 DEF ChargeWrite
  <2>3. result # "OUT_OF_GAS" /\ result \in {"ok", "error"}
    BY <2>2 DEF MeterExact, TypeOK
  <2> HIDE DEF n
  <2>4. /\ left' \in 0..(Word - 1) /\ demand' \in Nat
        /\ result' \in {result, "OUT_OF_GAS"}
        /\ IF result' = "OUT_OF_GAS" THEN left' = 0 /\ demand' > limit * Scale
           ELSE left' = limit * Scale - demand'
    BY <2>1, <2>2, <2>3, ChargeStep
  <2>6. TypeOK'
    BY <1>7, <2>2, <2>3, <2>4 DEF ChargeWrite, TypeOK, pipe, out, Stages
  <2>7. MeterExact'
    BY <1>7, <2>2, <2>4 DEF ChargeWrite, MeterExact, pipe
  <2> QED BY <2>2, <2>6, <2>7 DEF Bill, EffectsPaid
<1>8. CASE HandleVmResult
  <2>1. used' = limit - ToExternal(left) /\ stage = "finish" /\ stage' = "idle"
        /\ limit' = limit /\ demand' = demand
    BY <1>8 DEF HandleVmResult, pipe
  <2>2. limit \in Nat /\ demand \in Nat /\ left \in Nat
    BY GasAssumption, SMT DEF TypeOK, MaxGas
  <2>3. CASE result = "OUT_OF_GAS"
    <3>1. left = 0 /\ demand > limit * Scale
      BY <2>1, <2>3 DEF MeterExact
    <3>2. ToExternal(left) = 0
      BY <3>1, GasAssumption, SMT DEF ToExternal
    <3>3. used' = limit /\ used' \in 0..limit
      BY <2>1, <2>2, <3>2, SMT
    <3>4. Bill'
      BY <1>8, <2>1, <2>3, <3>1, <3>3 DEF Bill, HandleVmResult
    <3>5. EffectsPaid'
      BY <1>8, <2>3 DEF EffectsPaid, HandleVmResult, Applies
    <3>6. TypeOK'
      BY <1>8, <2>3, <2>2, <3>3, SMT DEF TypeOK, HandleVmResult, pipe, Stages, Applies
    <3> QED BY <2>1, <3>4, <3>5, <3>6 DEF MeterExact
  <2>4. CASE result # "OUT_OF_GAS"
    <3>1. left = limit * Scale - demand
      BY <2>1, <2>4 DEF MeterExact
    <3>2. limit * Scale \in Int
      BY <2>2, GasAssumption, SMT
    <3>3. demand <= limit * Scale
      BY <2>2, <3>1, <3>2, SMT
    <3>4. /\ used' \in 0..limit
          /\ demand <= used' * Scale /\ used' * Scale < demand + Scale
      BY <2>1, <2>2, <3>1, <3>3, RoundUp
    <3>5. status' = (IF result = "ok" THEN "EXECUTED" ELSE result) /\ status' # "OUT_OF_GAS"
      BY <1>8, <2>4 DEF HandleVmResult
    <3>6. Bill'
      BY <2>1, <3>4, <3>5 DEF Bill
    <3>7. EffectsPaid'
      BY <1>8, <2>1, <3>3, <3>5 DEF EffectsPaid, HandleVmResult, Applies, pipe
    <3>8. used' \in Int
      BY <2>2, <3>4, SMT
    <3>9. TypeOK'
      BY <1>8, <3>8, <3>5 DEF TypeOK, HandleVmResult, pipe, Stages, Applies
    <3> QED BY <2>1, <3>6, <3>7, <3>9 DEF MeterExact
  <2> QED BY <2>3, <2>4
<1>9. CASE UNCHANGED vars
  BY <1>9 DEF vars, pipe, out, TypeOK, MeterExact, Bill, EffectsPaid
<1> QED
  BY <1>1, <1>2, <1>3, <1>4, <1>5, <1>6, <1>7, <1>8, <1>9 DEF Next, Continue

\* Every transaction is billed its exact demand rounded up, at most its limit, and only
\* paid transactions take effect (handle_vm_result).
THEOREM BillCorrect == Spec => [](TypeOK /\ Bill /\ EffectsPaid)
<1>1. Init => Inv
  <2> SUFFICES ASSUME Init PROVE Inv
    OBVIOUS
  <2>1. 0 * Scale = 0 /\ 0 < 0 + Scale /\ 0 \in 0..(Word - 1) /\ 0 \in 0..MaxGas
        /\ 0 \in Nat /\ 0 \in Int
    BY GasAssumption, SMT DEF MaxGas
  <2>2. TypeOK
    BY <2>1, Zenon DEF Init, TypeOK, Stages
  <2>3. Bill
    BY <2>1, GasAssumption, SMT DEF Init, Bill
  <2> QED BY <2>2, <2>3 DEF Init, Inv, MeterExact, EffectsPaid
<1> QED
  BY <1>1, InvStep, PTL DEF Spec, Inv

\* No effect of a dry run, of a failed transaction or of one that asked for more gas than
\* its limit ever reaches storage (handle_vm_result, charge_global_write_gas_usage).
THEOREM EffectsArePaid == Spec => []EffectsPaid
BY BillCorrect, PTL
=============================================================================
