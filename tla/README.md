# A TLA+ model of sp-move-vm

sp-move-vm embeds the Move virtual machine in a host chain (a Substrate pallet): the
host hands over a script or a bundle of modules, the VM verifies and runs it against
the host's storage and its native balances, and returns a status, a bill and the
effects.  This directory models the parts of it that decide whether that is correct,
checks them with TLC on small instances and proves some of it with TLAPS for every
instance.

`PROJECT.json` is the index: which module and definition models which lines of the
source, which run checks which property, and a mutant of the modelled code for every
property that makes TLC report it.  Mutants are definitions that only `PROJECT.json`
refers to; in the modules they stand directly before the definition they vary.

## The system

A transaction goes through these parts, in this order.

| part | source | state | operations |
|---|---|---|---|
| entry points | `mvm/src/mvm.rs` | the VM with its caches, the coin bridge | publish_module, publish_module_package, execute_script, get_resource, clear |
| coin bridge | `mvm/src/io/balance.rs`, `session.rs` | native_mapper; the balances read in this session | get_bridge, get_balance, finish, update_balance |
| gas meter | `move-vm/types/src/gas_schedule.rs` | gas_left | charge_instr, charge_instr_with_size, charge_intrinsic_gas, deduct_gas |
| code loader | `move-vm/runtime/src/loader.rs`, `runtime.rs` | code cache, type cache, script cache | publish_module_bundle, verify_module_for_publication, load_module, load_script, load_function, type_to_type_tag, type_to_type_layout |
| per module verifier | `bytecode-verifier/src/*.rs`, `check_bounds.rs` | none | bounds, duplication, signatures, consistency of instructions, constants, friends, abilities of fields, recursive structs, instantiation loops, entry point signatures |
| linker | `bytecode-verifier/src/dependencies.rs` | none | comparison of a unit's imports with the modules that define them |
| per function verifier | `code_unit_verifier.rs` and its passes | the worklist and invariant map of an analysis | control flow, stack usage, types, locals, references, acquires |
| interpreter | `move-vm/runtime/src/interpreter.rs`, `values_impl.rs` | operand stack, call stack, frames, reference counted values | one per instruction |
| data cache | `move-vm/runtime/src/data_cache.rs`, `values_impl.rs` | a slot per address and type, status flags, events | load_resource, borrow, move_to, move_from, into_effects, num_mutated_accounts |
| binary format and BCS | `move-binary-format`, `bcs` | none | serialize, deserialize, bounds, compatibility |
| natives | `move-stdlib/src/natives` | none | vector, signer, hash, BCS, event |
| genesis | `mvm/src/genesis.rs` | a fork of the storage | init_storage |

They interact by calls: the entry points own a session, the session calls loader and
interpreter, the interpreter calls the data cache, which calls back through the coin
bridge into the host's storage and bank.  At the end the session turns into a change
set; the bridge takes the native balances out of it and turns them into operations on
the bank, and the host applies change set, events and operations one after another.

The library is single threaded (its cells are not synchronised and it runs inside a
chain's runtime), so nothing here is hard because of threads.  What is hard:

* **sharing**: values are `Rc<RefCell<..>>`; a reference into a resource outlives
  moves of the value that holds it, and a write through it must still reach the
  change set;
* **state that outlives a transaction**: the code cache and native_mapper are kept
  when a transaction fails or is a dry run, and are read instead of storage later;
* **steps that fail half way**: a bundle is verified module by module, a charge comes
  after the effect it charges for, and effects are applied in several parts;
* **static promises**: the interpreter does not repeat what the verifier checked;
* **integers at their limits**: gas is scaled, truncated and subtracted on u64.

The `hazards` of `PROJECT.json` list these at the line where they bite, with the
properties that would catch them.

### What makes each part correct

* data cache: a session commits exactly the view its program had, or nothing; no
  write is lost; no two owners of one container;
* coin bridge: coins are neither made nor lost whatever was cached before; the bank
  never refuses an operation; a failed or dry transaction leaves no trace;
* gas meter: the bill is the demand, rounded up, and at most the limit; nothing takes
  effect that was not paid for; every transaction ends;
* loader: stored modules link and have no cycles, the cache agrees with storage,
  what is stored can be loaded; an index into the tables of loaded code means what the
  handle it was made from names, a cached tag or layout is the declared one, and
  functions run with type arguments that they allow;
* per function verifier with interpreter: accepted code meets no internal error,
  the stack is typed as computed, resources are neither copied nor lost, no reference
  is used after its place was moved or changed, and the analyses end in a fixed point;
* per module verifier: whatever a later pass or the loader looks up exists, types are
  closed and have finite layouts and instances, abilities hold for every instance of
  what was checked once;
* linker: an importer and the module it imports mean the same by every name;
* entry points: a signer that reaches a script is a sender of the transaction;
* binary format and BCS: what was written is read back, what loads can be written
  again, no bytes make the reader panic, and a value has one encoding.

## Modules

### TxStore, DataCache, DataCacheProofs, MCDataCache

`TxStore` is the abstract transactional store: a view of the resources, initially the
stored ones, changed one resource at a time, committed as a whole or dropped.

`DataCache` models `TransactionDataCache` and the `GlobalValue`, `Container`,
`ContainerRef` and `Locals` code it works with.  A resource has an immediate field and
a nested struct, the smallest shape in which references to an outer container, to a
container in it and to an immediate all occur.  `heap` holds the allocated containers,
`dirty` the shared status flags, `slot` the five states of a slot (not loaded and the
four variants of GlobalValueImpl), `refs` and `locals` what the program holds.  The
program is not assumed to be verified: it may apply every operation to every value of
the right shape, and the run time checks (reference counts) are what is relied on.
Reference counting is modelled by collecting what is no longer held at the end of each
action.  The corresponding actions are named after the instructions and functions they
model; errors drop the session.

`DataCache!Refines` says that `DataCache` implements `TxStore` under the mapping `View`
(the cache while running, storage with the change set applied once finished).

### CoinBridge, CoinBridgeProofs, MCCoinBridge

`MasterOfCoin` and its session inside the pipeline.  Balances of bridged coins are read
from the bank and recorded; `Finish` is `MasterOfCoinSession::finish` with the
application of the rest of the change set, `ApplyOp` is one bank operation in the order
`ops.sort()` gives.  native_mapper (`mapper`) survives transactions, including the
answer that there is no bridge.  Reading a coin's CurrencyInfo looks its bridge up too
(`LoadCurrencyInfo`); the total value that get_resource writes into the bytes it returns,
and the unwrap on the way, are left out, since no balance depends on them.  The Move program may move, create and drop balances
and put coins into other resources; the one thing assumed of it is that it does not
make or destroy coins, which the Move type system promises (Token has neither copy nor
drop).  The bank and its reserve are external and modelled from how balance.rs uses
them; so is the host that deposits and withdraws between transactions.

### TxPipeline, TxPipelineProofs

Gas through both kinds of transaction, in internal units on a word of a chosen size,
with the conversion from and to external units, the intrinsic charge of a publication,
the write charge, and `HandleVmResult`.  `demand` is a ghost that adds up what was
asked for.  A script is a loop of two instructions that may end, fail or go on; `pc`
says where it is, so that an instruction is a step even if it costs nothing.

### CodeLoader, CodeLoaderProofs, MCCodeLoader

Publication of a bundle and loading of a module.  The recursive exploration of
`load_and_verify_dependencies` and `load_and_verify_friends` is a stack of frames and
takes one step per dependency, so that a failure happens after any of them; what was
cached by then stays cached.  A module is what linking sees of it: name, dependencies,
friends, whether the bytecode verifier accepts it, who may call the function its
importers use.  `RelationsOk` is `cyclic_dependencies::verify_module` with the bundle's
deferred friends.

### RuntimeTypes, MCRuntimeTypes

What the loader makes of a module or script once it is verified.  `loader` has the two
global lists, of structs and of functions, the tables of each loaded module and script,
whose handles became indices into the lists, and the cached tags and layouts; `stack`
has the functions that are being run, with their type arguments.  A runtime type is a
signature token whose struct handle is a global index.  `AddModule` and `NewModule` are
the two halves of ModuleCache::insert, `LoadScript` and `LoadFunction` the entry points,
`ApplySubst` the instantiation of a type with its depth limit.  Loading is one step,
since the loader is left alone until it is over and a failure half way is a result like
another: `AndThen` is the early return, and what was loaded before it stays.  The
instructions of a function that use the tables (calls, generic calls, accesses to
global storage) run in any order and any number of times.  The properties say with
names what the tables say with indices.  Stored modules are fixed here, verified and
linked (`UnitsVerify` of the instance): how they get there is CodeLoader's subject.

### Bytecode, ControlFlow, ControlFlowProofs, MCControlFlow

`Bytecode` has instructions, their successors and the control flow graph.
`ControlFlow` is the pass control_flow.rs as an operator on code units; its only state
is the code unit, which grows by one instruction per step, so that TLC enumerates all
of them up to a length.

### Program, CodeVerifier, CodeVerifierProofs, Interpreter, ReferenceInstructions, VerifiedRun, ExecutionProofs, VerifiedExec

`Program` holds what verifier and interpreter share: types, signatures, instruction
effects.  `CodeVerifier` is `verify_common`.  Control flow, stack usage, type safety
and the acquires list are pure and one step; locals safety and reference safety run
the worklist of absint.rs, one basic block per step (`AnalyzeBlock`).  The reference pass
keeps one stack for all blocks: an error in a block may leave values on it, and the next
block then panics in `checked_verify!` instead of returning the error.  Either way the
module is not accepted, and the model refuses it at the same block (`Panics`).  `VerifierSpec` is
the verifier by itself, which the proofs are about.  `Interpreter`
has frames, both stacks with their limits, one action per modelled instruction with
all its run time checks and the status each fails with; `ReferenceInstructions` adds
the instructions that make and use references, on locals, on the global storage of one
account and on vectors.  A value carries the type it was made with, which the run time
cannot see except through its representation (`Rep`).  Integers have no value, so
additions may overflow, comparisons may go either way and an index may be any; gas may
run out at any instruction.

A reference is a place: a root (a local of a frame, a position of the operand stack, a
stored resource, a signer) and a path of fields and elements.  In the code it is a counted
pointer, which stays usable and follows its container wherever that is moved; so does the
place (`Displaced`).  A ghost, the mark, says that what was there is moved away or
overwritten ("dangling") or, for an immutable reference, has changed ("stale").

Counting is modelled as well: `Counts` is the container whose Rc a reference holds (that
of the value, or the one around it for an indexed reference), and a container is still
referred to (`StillReferred`) if a reference on the stack or in a local counts it.  The
code refuses to move such a container out of a local or the global storage, or to take it
apart: swap_loc (MoveLoc, StLoc), MoveFrom, and take_unique_ownership in Unpack,
VecUnpack and the assignment of WriteRef.  The code fails with
UNKNOWN_INVARIANT_VIOLATION_ERROR in all of these; the model gives them a status of their
own, MOVING_REFERRED_CONTAINER, because they are the one check that verified code can
fail.  NoFailedCheck leaves this status out, and `OwnershipAsAnalysed` says how far it can
happen: only if the reference is in a local that the analysis takes for empty, because it
forgot it at a join.

Using a marked
reference ends the execution with a status of its own, which `NoDeadReference` excludes,
so that the property says what reference safety promises and the run time does not
check.  What comes from outside, arguments and stored resources, is well built
(`ArgumentOf`, `Inputs`): the VM deserializes it with the layout of its type.

`VerifiedRun` puts the verifier before the interpreter and states what acceptance
promises: `NoFailedCheck`, `NoDeadReference` and `StackAsTyped`.  `VerifiedExec` adds a
count of the resources that were made and the properties that compare a run with the
analyses.  These use RECURSIVE operators, so the proofs are about VerifiedRun; a step of
VerifiedExec is a step of VerifiedRun and of the count.

The instructions modelled are all but the generic forms, the arithmetic and boolean
operators with the typing and shape of Add, And and Lt, and Neq.

### BorrowGraph, ReferenceSafety

`BorrowGraph` is the crate borrow-graph: a function from reference ids to mutability
and a set of edges, strong or weak, with their paths.  `Factor`, `Release`, `Unmatched`,
`JoinGraphs` and `RemapRefs` are its operations, `RemapRefs` with the renaming one id
after the other as in the code.  The assertion of new_ref and the unwrap in
unmatched_edges, where the code would panic, are `Assert`, so that TLC reports a program
that makes one fail.  `ReferenceSafety` is the abstract state of the pass and
one operator per instruction, canonicalisation at the end of a block and the join.

### FileFormat, BinarySerializer, BinaryReader, BinaryTables, BinaryFormat

`FileFormat` has the tables of a compiled module and script as records of sequences,
signature tokens and opcodes; the modules on the binary format, BCS and the per module
passes share it.  `BinarySerializer` writes a unit, `BinaryReader` and `BinaryTables`
read its parts, with the limits of each integer, the stack of partly built types and
what differs between the versions.  A reader returns a value and the cursor behind it
or a status; `Then` is the early return.  `BinaryFormat` is the life of a unit as bytes,
one action per table header and per table.  The magic and the version are one byte
each; a byte has `GroupBits` + 1 bits, which leaves every limit (groups of a ULEB128
number, counts, indices, offsets) reachable with numbers TLC can enumerate.

### Bcs, BcsCodec

`Bcs` is the writer and the reader of bcs/src for every shape a Rust type can ask of the
format, with the count of containers left, and the two layouts constants are read with.
`BcsCodec` writes a value, may damage its bytes, and reads them.

### ModuleView, BoundsPass, ShapePasses, LoopPasses, Linking, ModuleVerifier

`ModuleView` is what the passes look a unit up with (binary_views.rs, access.rs and the
classes of instructions by the table they point to).  `BoundsPass` is check_bounds.rs;
`ShapePasses` has duplication, signatures, instruction consistency, friends, abilities
of fields and the signature of entry points; `LoopPasses` recursive structs and
instantiation loops, whose toposort and strongly connected components are a closure of
the graph; `Linking` is dependencies.rs.  `ModuleVerifier` sends a unit through the
passes in the order of verify_module and verify_script, one per step, links it against a
library of modules, builds the arguments of an entry point from senders and bytes, and
calls it.  The properties state what each pass is for with definitions
of their own: they substitute closed types for type parameters, unfold layouts and
follow calls a bounded number of times (`Fuel`), and compare names instead of indices.

## Runs

Run one with `tlc -config <cfg> <module>`; each takes less than four minutes on two workers.

| run | instance | shows |
|---|---|---|
| data_cache | two accounts, several sessions, storage errors, up to two references and five cells | SlotMatchesStorage, NoLostUpdate, SingleOwner, WriteGasCoversChanges, Refines |
| bridge | two accounts and one coin or one account and two coins with their own paths, amounts up to 2 | Conserved, BankNeverShort, CommitKeepsBalances, NoTrace |
| gas_bill | scale 3 on a word of 32, all limits up to the largest, scripts that loop | Bill, EffectsPaid, TransactionsEnd |
| loader_publish | four modules, bundles of up to three | StoreSound, CacheSound, StoredLoads |
| runtime_types | four modules with structs of the same name, a chain of imports and a friend, two scripts, seven lists of type arguments, one nested as deep as a type may be | IndexesMeanNames, TypeCacheSound, FramesSatisfyConstraints |
| control_flow | all code units of up to five branches and returns | LoopsStructured, NeverUnwrapsEmpty |
| verified_code | all functions of four statements over two resource locals with all branches; two functions that call each other and themselves; four of 15 instructions or idioms with a branch back and two endings; functions of five statements that borrow a struct, its fields, a stored resource or the elements of a vector, and read, write, move, swap, publish or hand on what is borrowed, with branches and a call; functions of four statements that take structs out of a vector while references to them are held or forgotten, and take them apart, write them elsewhere or hand them on; stack limits 3 and 2, vectors of up to 3 | NoFailedCheck, NoDeadReference, RunAsAnalysed, RefsAsAnalysed, ResourcesConserved, AnalysisProgresses |
| binary_format | a module for each opcode, token, ability set and count, one with every table, a script, binaries of versions 1 to 3; each damaged in any one byte, cut, extended or loaded as the other kind | RoundTrip, LoadedIsWritable, ReaderStaysInside, OldVersionsStayOld |
| bcs | values of every shape up to and beyond the limits, their bytes damaged in one place, and all byte strings of up to four bytes | WrittenReadsBack, ReadIsCanonical |
| module_passes | eight families of units: structs, functions that call each other, one instruction, a full module with one index changed, constants, scripts, script functions, imports | LookupsSound, AbilitiesSurvive, TypesAreFinite, ConstantsLoad, SignersAreSenders, ImportsAgree, CallsAreAllowed |
| loader_duplicate_ids | bundles that repeat an id | violation of StoreLinks |
| instantiation_loops | two generic functions that call each other or themselves and a native one, defined first or last | violation of InstancesAreFinite |

Some of these are conjunctions, whose parts are stated and explained one by one in
their module:

| invariant | parts |
|---|---|
| BankNeverShort | TypeOK, and no operation the bank would refuse |
| StoreSound | StoreLinks (stored modules link), StoreRelations (no cycles among dependencies and friends) |
| CacheSound | TypeOK, CacheCoherent (the code cache agrees with storage), CacheLinkedDown (dependencies of what is cached are cached) |
| LoopsStructured | LoopsNested, LoopsEnteredAtHead, LoopsLeftAtEnd |
| RunAsAnalysed | TypeOK, StackAsTyped (the stack of all frames has the types computed for it), AbstractionCovers (locals hold what the fixed point says), LocalsExact (the analysis refuses exactly the functions with an unsafe path) |
| RefsAsAnalysed | GraphsWellFormed (check_invariant of the borrow graph), FixedPointReached, AliasesCovered (the borrow graph knows every alias), OwnershipAsAnalysed (a container that is still referred to is moved only if a join made the analysis forget the reference) |
| ReaderStaysInside | NoPanic, TablesPartition |
| ReadIsCanonical | OneEncoding, DepthBounded |
| LookupsSound | LookupsStayInside, NamesTellHandlesApart, TypesAreClosed, FriendsAreOthers |
| AbilitiesSurvive | AbilitiesSound (every instance of a struct), ConstraintsSurviveCalls (every instance of a function) |
| TypesAreFinite | LayoutsAreFinite, and InstancesAreFinite for modules that define their native functions last (`NativesLast`) |
| ImportsAgree | LinkedTypesAgree, ImportsOnlyRestrict |

`TypeOK` and `CleanTracked` of DataCache and `TypeOK` of TxPipeline are parts of the proved inductive
invariants; what they are for shows in NoLostUpdate and Bill.

The bounds are the smallest at which the interesting cases occur.  Five cells let a
nested struct survive its resource while another one is packed; `Narrow` of MCDataCache
lets two references and a loose value be held at once where one account is in use, and
one of them where both are: what a reference does to another one does not involve a
second account, and the proofs do without the restriction.  Amounts up to 2 let a
balance shrink, grow and vanish in one transaction and leave the reserve short if the
order of the operations were wrong; `Narrow` of MCCoinBridge keeps two accounts and two coins from
being used at once, since no step of the bridge relates one account's balance of a coin
with another account's of another.  A word of 32 and a scale of 3 put the largest
limit at the edge of the word.  A loop nested in a loop takes four jumps, and
splitting one takes five.  Four statements hold a loop with a branch in it, which is
what makes the worklist visit a block again with another precondition.  Programs of
four statements start with one that branches, borrows or pushes: the others are the
programs of three.  In the codecs a length takes up to three groups, a token nests one
deeper than the limit and every count meets its maximum.  In runtime_types a type may
nest three deep and a value five, so that the deepest type of the instance, a struct
over three modules with a vector in it, is one level too deep unless a part of it is
cached, and generic calls reach both the limit on types and that on frames.  Both lists
of type arguments that a function accepts and lists that it must refuse occur, with the
fault at the top of a type and inside it.  The mutants confirm that each property can
fail within its bounds.

Codecs, passes and accepted programs come to an end, so binary_format, bcs and
module_passes do not check for deadlock.

### The runs that end in a violation

Each states what a comment says of the code and shows an execution that contradicts it.

`loader_duplicate_ids` (StoreLinks): the check for two modules of one id in a bundle is
commented out, so a module can be stored that links against a version which the same
bundle replaced.

`instantiation_loops` (InstancesAreFinite): the pass numbers callers after leaving the
native functions out (instantiation_loops.rs:232-239) and callees among all functions
(:80-85), so the edges of its graph do not meet when a native function comes first.  A
generic function that calls itself with a vector of its type parameter is then accepted,
and has instances without end, which the pass is there to rule out (:10-12).

### Fairness and liveness

The program is a library on one thread, without timers or queues, so the only fairness
the code justifies is that the thread takes its next step once a transaction has begun:
`FairSpec` of `TxPipeline` is `WF_vars(Continue)`, with no fairness for the single
alternatives, so a script need not return or fail.  `TransactionsEnd` follows from the
gas alone: every instruction has a positive cost (gas_schedule.rs of mvm) and a size of
zero is charged as one.  The code multiplies costs and sizes on u64 without a check, as the
model does (`% Word`), so this needs a table in which no product wraps around to zero.  The loops of the verifier end for another reason, a natural
number that every round decreases (`AnalysisProgresses`), which needs no fairness;
`FixedPointReached` says that they do not end too early.

## Observations

What the modelling met in the code and the passing runs leave aside.  The model has
these behaviours unless it says otherwise.

* A bundle's later modules count as friends that have none (loader.rs:716): a bundle can
  be published whose earlier module does not load afterwards, where runtime.rs:185-188
  promises that it does.  loader_publish has only modules whose friends depend on them.
  Without that StoredLoads does not hold either: what a refused publication loaded stays
  in the code cache without its friends, while the loader takes the closure of a cached
  module for loaded (loader.rs:1034).
* The operands of VecPack are not compared with its element type by the type checker
  (type_safety.rs:724; file_format.rs:1499 says they are of that type).  At run time
  vectors of integers and booleans find out, vectors of structs do not.  The programs of
  the runs pack integers, and the theorems about executions assume that the operands have
  the type (`PacksTyped`).
* VecImmBorrow accepts a mutable reference (type_safety.rs:747) and asks reference
  safety only for what an immutable one needs (abstract_state.rs:481).  The programs
  freeze first.
* A vector instruction in a generic function does not instantiate its element type
  (interpreter.rs:1088) and fails with an invariant violation on a type parameter.
  Frames of Interpreter have no type arguments, RuntimeTypes only keeps the types of
  the vector instructions, and the theorems about executions assume that there are no type
  parameters (`NoTypeParameters`).
* The cache of layouts does not know the depth a layout was computed at (loader.rs:2090):
  a layout deeper than VALUE_DEPTH_MAX is refused by an empty cache and answered when a
  part of it was asked for before.  TypeCacheSound shows that what is answered is right;
  when it is refused depends on the transactions since the last clear.
* Layouts of results and the types of a script's parameters are computed from the types
  as declared (runtime.rs:349, loader.rs:478), so a function that returns a type
  parameter, or a script with a parameter of one, cannot be run, whatever its type
  arguments.
* make_coin_tag inverts native_mapper (balance.rs:100): of two coins registered with one
  path it finds either.  The two coins of the run bridge have paths of their own, which
  the host's registration is expected to ensure.
* The verifier forgets a reference that only one branch left in a local, the run time
  counts it: moving what it refers to, or taking it apart, fails with an invariant violation
  although the code was verified (swap_loc, values_impl.rs:923-929; take_unique_ownership,
  :259-267, from :681, :1118 and :1745-1765).  An example: borrow the last struct of a vector
  on one of two branches, then VecPopBack and Unpack.  This is MOVING_REFERRED_CONTAINER,
  which NoFailedCheck leaves out and OwnershipAsAnalysed confines to this cause.
* remap_refs renames one id after the other (graph.rs:336), which merges references if a
  new name is the old name of one that is renamed later.  GraphsWellFormed holds for the
  renamings that the programs of verified_code lead to.
* TypesAreFinite claims that instances are finite only where the native functions come
  last: see the run instantiation_loops.  The families of module_passes have them first too.
* VecPack and VecUnpack have a u64 count, of which VecPack takes the low 16 bits
  (interpreter.rs:1085), and the verifier the whole; the model narrows it as the code does
  (`U16`), and the counts of the programs are small.
* The verifier reads a constant with MoveValue, the interpreter with Value
  (constant.rs:46, values_impl.rs:2618).  The two visitors ask the same of BCS for each
  layout, so both are `FromBytes` here, and ConstantsLoad compares the types and bytes that
  the verifier lets through with what the loader's layout can be made of and read from.  A
  difference between the two visitors themselves would not show.
* TYPE_PARAMETER_INDEX_MAX is 65536, one more than a u16 (file_format_common.rs:72): an
  index of exactly that value fails with an invariant violation instead of MALFORMED.
* A STRUCT_INST token with no type arguments takes the token after it as one
  (deserializer.rs:896).
* Bytes after the last part of a unit are ignored, where a comment on check_tables says
  that tables cover the whole blob (deserializer.rs:359).
* The bounds pass does not compare the type parameters in a script's parameters with the
  script's own; script_signature rejects them, but after the passes on code.
* check_type_instantiation looks at the outermost type of an argument only; the types
  within are checked with the signature they stand in.
* The check of a module's compatibility with the version it replaces is commented out
  (runtime.rs:119).
* BCS writes a variant without data without entering a container and reads it with one
  (ser.rs:229, de.rs:426): a value one deeper than the limit can be written and not read.

## Proofs

The `*Proofs` modules are checked by TLAPS; `SumTheorems` has the facts about sums over
finite sets that they share.  Each theorem is for all values of the constants under the
assumptions named with it.

* **DataCache** (`TypeCorrect`, `OwnershipCorrect`, `SlotsCorrect`, `UpdatesKept`,
  `WritesAreCharged`, `CacheRefinesStore`), for all sets of types, values, cells and
  flags and all bounds.  The inductive invariant `IInv` is the conjunction of type
  correctness, `HeapShape` (nothing held was freed), `Ownership` (containers form a
  forest), `CleanIsTracked` (a resource that counts as clean is the stored one, and every
  reference into it carries its flag) and `SlotMatchesStorage`.  NoLostUpdate alone is
  not inductive: it says nothing of references that will be written through later,
  which is what `CleanIsTracked` is about, and that in turn needs `Ownership`, because
  a write through a reference must not reach a second resource.  All parts but the
  slots are stated on explicit arguments (`Good(sl, h, d, rf, lo)`), so that one lemma
  per building block (load, borrow, write, pack, unpack, move, collect) serves all
  actions.  For the refinement every action is shown to be a step or a stutter of
  `TxStore` under `View`.  WriteGasCoversChanges follows from the same invariant: an
  address whose slots differ from storage has a slot that is written or marked.
  Assumed: the sentinels are distinct from data; for the number of accounts, that there
  are finitely many addresses (`FinitelyManyAddresses`: they have a fixed length).
* **CoinBridge** (`CoinsConserved`, `BankSuffices`, `FailuresLeaveNoTrace`,
  `CommitsKeepBalances`), for any finite number of accounts and coins (`FiniteSystem`)
  and any limit on amounts but zero.  The invariant `Inv` adds to Conserved what ties the
  ledgers together: a loaded balance is the one that bank or storage still holds and
  `initial` has exactly those of the bank (`Viewed`), the program only moves coins around
  (`ProgramConserves`, a sum over balances, purse and other resources), each pending
  operation is the only one of its account and within what the bank has (`OpsOK`), and
  the reserve backs what is inside Move, pending operations included (`Backed`).
  BankNeverShort is then arithmetic: what is added to an account comes out of the
  reserve, so no balance leaves its word.
* **TxPipeline** (`BillCorrect`, `EffectsArePaid` and the step lemma `InvStep`), for all
  cost tables, scales and word sizes with `Word > Scale > 0`.  Charges are those of the
  code, products modulo the word, and the demand is their sum.  The inductive core is
  `MeterExact`: the gas left is the scaled limit minus the demand until the meter runs
  dry and zero from then on, and the stage tells whether an error is pending.
* **CodeLoader** (`CacheCorrect`, `StoreCorrect`, `LoadsSucceed`), for any finite set of
  ids (`FinitelyManyIds`).  CacheCorrect needs nothing else: its invariant `CacheInv` says
  of each frame of the exploration that what it is done with resolves (`FramesOK`), that
  no module has two frames and that nothing of the bundle is stored yet.  The other two
  have hypotheses that the code does not check, and do not hold without them:
  `DistinctIds`, no bundle repeats an id (loader_duplicate_ids shows what happens
  otherwise), and `FriendsRelated`, of a module and its friend one depends on the other.
  Without the second a bundle of A, with dependency C and friend B, and B, with friend C,
  passes when C is stored: B's friends are skipped while A is checked, and afterwards C
  is both below and among the friends of A.  Absence of cycles is a statement about
  closures; the invariant `StoreInv` has a certificate instead, a set of modules closed
  under dependencies without the module in question (`Grounded`), which a step extends by
  one module.  `LoadInv` has the same for the exploration: each frame is reached from the
  one below (`Chained`), what was met is cached or on the stack, and a cached module
  whose friends were not met does not depend on the target (`OldIsAway`).
* **ControlFlow** (`LoopsAreStructured`, `WalkIsSafe`), for code units of any length over
  any instructions whose offsets are natural numbers (`OffsetsAssumption`).  There is no
  inductive invariant but the type; the work is about the operators.  The stack of open
  loops lists exactly the loops around the instruction, innermost on top, up to the first
  bad continue (`OpenIsAround`), and the depth count is their number (`DepthIsCount`).
  Hence a loop that begins in another ends in it (`Nest`), and the check of depths, which
  compares numbers only, compares sets of loops: those around the source of a jump
  that is no break are among those around its target (`SameLoops`).
* **CodeVerifier** (`LocalsAnalysisEnds`, `VariantStaysNatural`, `LocalsFixedPoint`,
  `AcceptedCodeUsesLocalsSafely`, `LocalsAnalysisIsExact`): the locals pass, for all
  modules with any number of functions and code of any length that is within bounds
  (`SignatureTable`, `ProgramsAssumption`: what deserializer and bounds checker have
  established).  The theorems are about `VerifierSpec`, the verifier by itself, and hold
  of VerifiedExec as well, whose other actions leave the verifier's variables alone.  The
  invariant `LInv` says of each block the analysis has met that it is scheduled, in error,
  or passed on to all its successors (`Settled`); FixedPointReached says so only at the
  end.  A join that changes an entry schedules it and pays for that with at least one
  local that becomes MaybeAvailable (`VariantPays`), hence every round decreases the
  variant.  Soundness follows one path at a time: each point of a path lies in a block
  whose run covers the locals that hold a value (`Explained`).  For exactness `TInv` has
  a path behind every doubt (`Witnessed`): a local that is not Unavailable has a path on
  which it holds a value, one that is not Available a path on which it does not.  That
  needs no path for two locals at once, because every check looks at one local.
  `VerdictExact` is LocalsExact of the run verified_code for paths of any length.
  The worklist of the reference pass is not covered: that its joins grow is a property of
  the borrow graphs.
* **Stack usage and type safety** (`AcceptedCodeKeepsTheStack`), for the
  same modules: on every path through a function of an accepted module the operands of each
  instruction are on the part of the stack that belongs to the call and have the types the
  instruction needs, and a return leaves with exactly the declared results.  The type checker
  does not follow paths: it walks the blocks once in the order of the code and carries one
  stack from each to the next, also where no edge leads.  The proof is that in balanced code
  this comes to the same.  The stack of the walk has the height that the stack usage
  pass computed (`HeightsMatch`), which is zero wherever a block ends or begins, so the stack
  before an instruction is the same whichever edge a path arrives by (`PathStays`).  Of the
  constants it uses that types, signatures and the pool are tables within bounds
  (`TypeTable`, `SignatureTable`, `ProgramsAssumption`).
* **Execution of verified code** (`VerifiedCodePassesTheChecks`,
  `VerifiedCodeRunsAsTyped`, `VerifiedCodeKeepsTheStack` in ExecutionProofs): type
  soundness. While an accepted program runs, none of the run time checks fails that the
  verifier is there to make superfluous (NoFailedCheck of the run verified_code): pops, casts
  of operands, indices, elements and the signer's address, the representation of what is
  written through a reference, the layout of vectors, use of locals, the end of the code.
  The check that a container is not referred to any more is not among them; and
  the stack, the locals, the global storage and what live references refer to have the
  types that were computed or declared (`RunsAsTyped`); the whole stack is the one that
  StackAsTyped, a part of RunAsAnalysed, puts together from the
  frames. This is for all types, signatures, programs, arguments, stored resources and
  limits that satisfy `TypeTable`, `SignatureTable`, `ProgramsAssumption` and
  `InterpreterConstants` (what comes from outside is well built and of the declared
  type), and rests on AcceptedCodeUsesLocalsSafely and AcceptedCodeKeepsTheStack. Two
  hypotheses are really needed, see the observations: `NoTypeParameters`, without which
  a vector instruction fails an internal check, and `PacksTyped`, without which a vector
  holds values of another type and reading one fails later.

  NoFailedCheck is far from inductive.  The invariant `ExecInv` says that the
  program is one of the given ones, that what the verifier has passed so far is checked
  (`CheckedInv`), and of a program that runs (`RunOK`):
  - `ShapeOK`: the operand stack is made of one part per frame (`IsLayout`), each
    with the types of the static stack at the frame's instruction, without the arguments of the
    call for a frame that waits, since a return is only right if the caller's part is
    still what it was; every frame is at a point that a path of its function reaches with
    exactly the locals filled that hold a value (`Reached`), so that what is known of paths
    holds of it;
  - `GlobalOK`: a resource has the type it is stored under;
  - `RefsOK`: a live reference leads through existing fields and elements (`IsTrail`) to
    a value of the type it refers to (`GoodRef`), and into no frame above the one that
    holds it.  A write through one reference must not break the trail of another, so a
    write is shown to leave typed values (`Rewrites`) and to mark whatever it cuts off.

  There is one lemma per instruction (`...OK`), each from a few lemmas about how an
  instruction goes on: on the stack alone, with one local, with one place, with a call or
  a return.  That no dangling or stale reference is used (NoDeadReference) is the soundness
  of reference safety and stays with the run verified_code.

Induction in these proofs is by smallest counterexample (`LeastNatural`,
`SmallestCounterexample`): the induction theorems of the library take an operator for a
parameter, which the provers cannot instantiate.  A function that is defined by recursion
or by a fold is a CHOOSE to the provers, and a lemma shows first that it exists
(`OpenTableExists`, `RunTableExists`, `TypeTableExists`, `SumTableExists`).

Only model-checked: TransactionsEnd (liveness under fairness is out of the provers'
reach, as is ENABLED); StoreLinks on its own; of the verified programs AbstractionCovers,
ResourcesConserved, AliasesCovered, GraphsWellFormed, the fixed point of the reference
pass, OwnershipAsAnalysed and NoDeadReference, which need the soundness of the reference
pass or count through nested values with a RECURSIVE operator; and BinaryFormat, BcsCodec, ModuleVerifier and RuntimeTypes, which read types,
tokens and values with RECURSIVE operators, with which the provers cannot be used.

## Not modelled, and the plan

1. Proofs about the reference pass of CodeVerifier and about BorrowGraph: Release and Factor
   keep what CheckInvariant says, every alias of a run is an edge of the graph, hence no
   dangling or stale reference is used.
2. The composition of CodeLoader with RuntimeTypes: publications between the loads, and
   tables built while a bundle is being verified; generic forms in CodeVerifier and
   Interpreter.
3. Natives (vector, signer, event), the event buffer, genesis with its storage fork.

Left out for good: hashing and signatures (arithmetic out of a model checker's reach),
formatting of keys and of the ABI, wording of errors and logging (no state).
