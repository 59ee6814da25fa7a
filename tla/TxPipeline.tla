---------------------------- MODULE TxPipeline ----------------------------
(***************************************************************************)
(* Gas metering along the transaction pipeline: GasStatus                  *)
(* (move-vm/types/src/gas_schedule.rs), the unit conversion of             *)
(* move-core/types/src/gas_schedule.rs and what mvm/src/mvm.rs does with a *)
(* transaction's result.  Gas is counted in internal units; the host sees  *)
(* external ones, Scale times as large.                                    *)
(***************************************************************************)
EXTENDS Integers, FiniteSets

CONSTANTS Scale,         \* gas_unit_scaling_factor
          Word,          \* 2^64
          Costs,         \* instruction costs: cost_table.instruction_cost(op).total()
          Sizes,         \* abstract memory sizes handed to charge_instr_with_size
          MinFee,        \* min_transaction_gas_units
          Cutoff,        \* large_transaction_cutoff
          PerByte,       \* intrinsic_gas_per_byte
          WriteCost,     \* global_memory_per_byte_write_cost * default_account_size
          MaxModules,    \* bound: modules in a bundle
          MaxAccounts    \* bound: accounts a transaction mutates

ASSUME GasAssumption ==
    /\ Scale \in Nat \ {0} /\ Word \in Nat /\ Word > Scale
    /\ Costs \subseteq Nat \ {0} /\ Sizes \subseteq Nat
    /\ MinFee \in Nat /\ Cutoff \in Nat /\ PerByte \in Nat /\ WriteCost \in Nat
    /\ MaxModules \in Nat /\ MaxAccounts \in Nat

VARIABLES limit,     \* Gas::max_gas_amount, external units
          left,      \* GasStatus::gas_left, internal units
          stage,     \* what the pipeline does next
          dry,       \* dry_run
          pc,        \* which of the two instructions of a loop the script is at
          result,    \* "ok" or the error the pipeline carries
          demand,    \* ghost: the charges asked for, internal units
          used,      \* VmResult::gas_used of the last transaction
          status,    \* VmResult::status_code of the last transaction
          effects,   \* the last transaction's change set was applied
          statusEv   \* the last transaction emitted a VMStatus event

pipe == <<limit, dry>>
out  == <<used, status, effects, statusEv>>
vars == <<pipe, pc, out, left, stage, result, demand>>

Stages == {"idle", "script", "intrinsic", "publish", "write", "finish"}

\* GAS_AMOUNT_MAX_VALUE: Gas::new stays below it, Gas::infinite is equal to it.
MaxGas == (Word - 1) \div Scale

Max2(a, b) == IF a > b THEN a ELSE b

-----------------------------------------------------------------------------
(* GasStatus.                                                              *)

\* GasConstants::to_internal_units, on u64.
ToInternal(u) == (u * Scale) % Word

\* Mutant: rounds the remaining gas up.
ToExternalUp(i) == (i + Scale - 1) \div Scale

\* GasConstants::to_external_units.
ToExternal(i) == i \div Scale

\* GasStatus::deduct_gas: the gas left, zero when there was too little.
Deduct(g, amount) == IF g >= amount THEN g - amount ELSE 0

Covers(g, amount) == g >= amount

\* Mutant: an operand of size zero is free.
InstrCostBySize(cost, size) == (cost * size) % Word

\* charge_instr_with_size: a size of zero is charged as one.  GasAlgebra::mul and ::add
\* are not checked: a charge is a u64, here and below.
InstrCost(cost, size) == (cost * Max2(1, size)) % Word

\* calculate_intrinsic_gas.
IntrinsicCost(n) == (IF n > Cutoff THEN MinFee + PerByte * (n - Cutoff) ELSE MinFee) % Word

-----------------------------------------------------------------------------
(* One charge: the meter, the ghost and the result it leaves.              *)

Charge(amount, err) ==
    /\ left' = Deduct(left, amount)
    /\ demand' = demand + amount
    /\ result' = IF Covers(left, amount) THEN err ELSE "OUT_OF_GAS"

Begin(kind, max, d) ==
    /\ stage = "idle"
    /\ limit' = max /\ dry' = d /\ pc' = 0
    /\ left' = ToInternal(max)
    /\ stage' = kind /\ result' = "ok" /\ demand' = 0
    /\ UNCHANGED out

\* An instruction of the script, or of a script function.
Instr(cost, size) ==
    /\ stage = "script"
    /\ Charge(InstrCost(cost, size), "ok")
    /\ stage' = IF Covers(left, InstrCost(cost, size)) THEN "script" ELSE "finish"
    /\ pc' = 1 - pc
    /\ UNCHANGED <<pipe, out>>

\* The script aborts, or fails to load, link or verify.
ScriptFails ==
    /\ stage = "script"
    /\ result' = "error" /\ stage' = "finish"
    /\ UNCHANGED <<pipe, pc, out, left, demand>>

\* The script returns: the accounts it changed are charged for next.
ScriptReturns ==
    /\ stage = "script"
    /\ stage' = "write"
    /\ UNCHANGED <<pipe, pc, out, left, result, demand>>

\* _publish_module: the intrinsic charge, on the number of modules.
Intrinsic(n) ==
    /\ stage = "intrinsic"
    /\ Charge(IntrinsicCost(n), "ok")
    /\ stage' = IF Covers(left, IntrinsicCost(n)) THEN "publish" ELSE "finish"
    /\ UNCHANGED <<pipe, pc, out>>

\* publish_module_bundle succeeds or not: the write charge follows either way.
Publish(r) ==
    /\ stage = "publish"
    /\ result' = r /\ stage' = "write"
    /\ UNCHANGED <<pipe, pc, out, left, demand>>

WriteCharge(n) == (n * WriteCost) % Word

\* charge_global_write_gas_usage: running out of gas here hides an earlier error.
ChargeWrite(n) ==
    /\ stage = "write"
    /\ Charge(WriteCharge(n), result)
    /\ stage' = "finish"
    /\ UNCHANGED <<pipe, pc, out>>

\* Mutant: the effects of a dry run are applied.
AppliesAlways == result = "ok"

\* Only an executed transaction that is not a dry run takes effect.
Applies == result = "ok" /\ ~dry

\* handle_vm_result: a failure is reported by an event, a dry run by nothing but the result.
HandleVmResult ==
    /\ stage = "finish"
    /\ used' = limit - ToExternal(left)
    /\ status' = IF result = "ok" THEN "EXECUTED" ELSE result
    /\ effects' = Applies
    /\ statusEv' = (result # "ok" /\ ~dry)
    /\ stage' = "idle"
    /\ UNCHANGED <<pipe, pc, left, result, demand>>

Init ==
    /\ limit = 0 /\ left = 0 /\ stage = "idle" /\ dry = FALSE /\ result = "ok"
    /\ demand = 0 /\ pc = 0
    /\ used = 0 /\ status = "EXECUTED" /\ effects = FALSE /\ statusEv = FALSE

Continue ==
    \/ \E cost \in Costs, size \in Sizes : Instr(cost, size)
    \/ ScriptFails \/ ScriptReturns
    \/ \E n \in 0..MaxModules : Intrinsic(n)
    \/ \E r \in {"ok", "error"} : Publish(r)
    \/ \E n \in 1..MaxAccounts : ChargeWrite(n)
    \/ HandleVmResult

Next ==
    \/ \E kind \in {"script", "intrinsic"}, max \in 0..MaxGas, d \in BOOLEAN : Begin(kind, max, d)
    \/ Continue

Spec == Init /\ [][Next]_vars

\* A transaction runs on one thread, which takes its next step whatever that is.  Nothing
\* says that a script ever returns or fails: it may loop.
FairSpec == Spec /\ WF_vars(Continue)

-----------------------------------------------------------------------------
(* Properties.                                                             *)

\* Type invariant: the gas left is a u64 and never more than the limit allows.
TypeOK ==
    /\ limit \in 0..MaxGas /\ left \in 0..(Word - 1)
    /\ stage \in Stages /\ dry \in BOOLEAN
    /\ result \in {"ok", "error", "OUT_OF_GAS"}
    /\ demand \in Nat /\ pc \in {0, 1}
    /\ used \in Int /\ status \in {"EXECUTED", "error", "OUT_OF_GAS"}
    /\ effects \in BOOLEAN /\ statusEv \in BOOLEAN

\* The bill of a transaction, however it ended: never above its limit, the exact demand
\* (the sum of the charges, each a u64) rounded up to the next external unit, or the whole
\* limit when the demand exceeded it (deduct_gas, to_external_units, handle_vm_result).
Bill ==
    stage = "idle" =>
        /\ used \in 0..limit
        /\ IF status = "OUT_OF_GAS"
           THEN used = limit /\ demand > limit * Scale
           ELSE demand <= used * Scale /\ used * Scale < demand + Scale

\* Nothing takes effect that was not paid for: neither a dry run nor a transaction that
\* asked for more than its limit, in whichever charge that happened (handle_vm_result,
\* charge_global_write_gas_usage).
EffectsPaid ==
    stage = "idle" /\ effects => ~dry /\ status = "EXECUTED" /\ demand <= limit * Scale

\* Every transaction ends, a script that loops too: each instruction costs something, an
\* operand of size zero included, so the gas runs out (charge_instr_with_size).  It takes a
\* cost table with no product that wraps around to zero.
TransactionsEnd == stage # "idle" ~> stage = "idle"

\* The meter is exact until it runs dry: the inductive core of Bill and EffectsPaid.
MeterExact ==
    stage # "idle" =>
        IF result = "OUT_OF_GAS"
        THEN stage = "finish" /\ left = 0 /\ demand > limit * Scale
        ELSE left = limit * Scale - demand
=============================================================================
