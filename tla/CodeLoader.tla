---------------------------- MODULE CodeLoader ----------------------------
(***************************************************************************)
(* Publication of module bundles and loading of modules into the code      *)
(* cache (move-vm/runtime/src/runtime.rs, move-vm/runtime/src/loader.rs,   *)
(* bytecode-verifier/src/cyclic_dependencies.rs).                          *)
(*                                                                         *)
(* The recursive exploration of the loader is a stack of frames, one step  *)
(* per dependency; what it has put into the code cache stays there when it *)
(* fails.  A compiled module is what linking tells apart: its name, its    *)
(* dependencies, its friends, whether the bytecode verifier accepts it and *)
(* who may call the function that its importers use.                       *)
(***************************************************************************)
EXTENDS Naturals, Sequences, FiniteSets

CONSTANTS Id,        \* module ids
          Module,    \* the compiled modules that can be submitted
          Bundles,   \* the bundles that can be submitted
          None       \* no module

ASSUME ModulesTyped ==
    /\ Module \subseteq [id : Id, deps : SUBSET Id, friends : SUBSET Id, ok : BOOLEAN,
                         vis : {"public", "friend", "none"}]
    /\ None \notin Module
    /\ Bundles \subseteq Seq(Module)

ASSUME FinitelyManyIds == IsFiniteSet(Id)

VARIABLES store,      \* storage: the published modules
          cache,      \* ModuleCache
          job,        \* "idle", "begin", "explore" or "publish"
          bundle,     \* the bundle being published; empty while loading
          pos,        \* the module of the bundle under verification
          verified,   \* bundle_verified
          target,     \* the module the closure is built for
          stack,      \* load_and_verify_dependencies frames
          visited,    \* modules met while exploring dependencies
          frontier,   \* friends_discovered
          failed      \* ghost: stored modules whose loading failed

work == <<bundle, pos, verified, target, stack, visited, frontier>>
vars == <<store, cache, job, work, failed>>

Top == stack[Len(stack)]
Pop == SubSeq(stack, 1, Len(stack) - 1)
Frame(m, isNew) == [mod |-> m, todo |-> m.deps, new |-> isNew]

\* bundle_unverified.
Unverified == {bundle[i].id : i \in 1..Len(bundle)} \ {bundle[i].id : i \in 1..pos}

\* bundle_verified first, then the code cache.
Resolve(d) == IF verified[d] # None THEN verified[d] ELSE cache[d]

\* dependencies::verify_module for one import: the function is declared and may be called.
Links(m, d) == d.vis = "public" \/ (d.vis = "friend" /\ m.id \in d.friends)

-----------------------------------------------------------------------------
(* cyclic_dependencies::verify_module.                                     *)

\* collect_all_with_cycle_detection: everything reachable from start.
Reach(start, next) ==
    {x \in Id : \A S \in SUBSET Id :
        start \subseteq S /\ (\A y \in S : next[y] \subseteq S) => x \in S}

DepsIn(lookup) == [d \in Id |-> IF lookup[d] = None THEN {} ELSE lookup[d].deps]
FriendsIn(lookup, skip) ==
    [d \in Id |-> IF d \in skip \/ lookup[d] = None THEN {} ELSE lookup[d].friends]

\* No cycle through m, every module met is known, and no friend is a dependency.
NoCycle(m, lookup, skip) ==
    LET deps    == Reach(m.deps, DepsIn(lookup))
        friends == Reach(m.friends, FriendsIn(lookup, skip))
    IN  /\ m.id \notin deps \cup friends
        /\ \A d \in deps : lookup[d] # None
        /\ \A f \in friends \ skip : lookup[f] # None
        /\ deps \cap friends = {}

\* What the check resolves module ids with: bundle_verified, then the code cache.
Known == [i \in Id |-> Resolve(i)]

\* Mutant: friends are not looked at.
RelationsOkDeps(m) == NoCycle([m EXCEPT !.friends = {}], Known, Unverified)

\* verify_module_cyclic_relations: the friends of modules later in the bundle are left to
\* the check of those modules.
RelationsOk(m) == NoCycle(m, Known, Unverified)

-----------------------------------------------------------------------------
(* Jobs.                                                                   *)

\* publish_module_bundle up to the verification: no module of the bundle exists yet.
Exists(b) == \E i \in 1..Len(b) : store[b[i].id] # None

SubmitBundle(b) ==
    /\ job = "idle"
    /\ b # <<>> /\ ~Exists(b)           \* else DUPLICATE_MODULE_NAME, nothing changes
    /\ bundle' = b /\ pos' = 1 /\ job' = "begin"
    /\ verified' = [i \in Id |-> None]
    /\ UNCHANGED <<store, cache, target, stack, visited, frontier, failed>>

\* verify_module_for_publication: the module's own checks, then its closure.
BeginModule ==
    /\ job = "begin" /\ bundle[pos].ok
    /\ target' = bundle[pos] /\ job' = "explore"
    /\ stack' = <<Frame(bundle[pos], TRUE)>>
    /\ visited' = {bundle[pos].id}
    /\ frontier' = bundle[pos].friends
    /\ UNCHANGED <<store, cache, bundle, pos, verified, failed>>

\* load_module of a module that is not cached (for a script, a function or a type).
Load(i) ==
    /\ job = "idle" /\ cache[i] = None /\ store[i] # None
    /\ bundle' = <<>> /\ pos' = 0 /\ verified' = [j \in Id |-> None]
    /\ target' = store[i] /\ job' = "explore"
    /\ stack' = <<Frame(store[i], FALSE)>>
    /\ visited' = {i} /\ frontier' = store[i].friends
    /\ UNCHANGED <<store, cache, failed>>

Idle == /\ job' = "idle" /\ bundle' = <<>> /\ pos' = 0
        /\ verified' = [i \in Id |-> None] /\ target' = None
        /\ stack' = <<>> /\ visited' = {} /\ frontier' = {}

\* An error of any check ends the job; the code cache keeps what it got.
FailJob ==
    /\ Idle
    /\ failed' = IF bundle = <<>> THEN failed \cup {target.id} ELSE failed
    /\ UNCHANGED <<store, cache>>

\* The bytecode verifier or check_natives refuses the module.
RejectModule == job = "begin" /\ ~bundle[pos].ok /\ FailJob

Exploring == job = "explore" /\ stack # <<>>

\* load_and_verify_dependencies: the next dependency is known, or loaded, or an error.
Dependency(d) ==
    /\ Exploring /\ d \in Top.todo
    /\ IF Resolve(d) # None
       THEN /\ stack' = [stack EXCEPT ![Len(stack)].todo = @ \ {d}]
            /\ UNCHANGED <<store, cache, job, bundle, pos, verified, target, visited, frontier, failed>>
       ELSE IF d \in visited \/ store[d] = None
       THEN FailJob                      \* CYCLIC_MODULE_DEPENDENCY, LINKER_ERROR
       ELSE /\ stack' = Append(stack, Frame(store[d], FALSE))
            /\ visited' = visited \cup {d}
            /\ frontier' = frontier \cup store[d].friends
            /\ UNCHANGED <<store, cache, job, bundle, pos, verified, target, failed>>

\* Mutant: a module under publication is cached as soon as it links.
CacheLinkedAll(m, isNew) == [cache EXCEPT ![m.id] = m]

\* ModuleCache::insert of a stored module; a new one is only verified.
CacheLinked(m, isNew) == IF isNew THEN cache ELSE [cache EXCEPT ![m.id] = m]

LinkOk(m) == \A d \in m.deps : Links(m, Resolve(d))

\* All dependencies are there: the linking check, then the cache.
Link ==
    /\ Exploring /\ Top.todo = {}
    /\ IF LinkOk(Top.mod)
       THEN /\ cache' = CacheLinked(Top.mod, Top.new)
            /\ stack' = Pop
            /\ UNCHANGED <<store, job, bundle, pos, verified, target, visited, frontier, failed>>
       ELSE FailJob

\* Mutant: friends are loaded when they are called, not before.
NewFriendsNone == {}

\* The friends that load_and_verify_friends still has to load.
NewFriends ==
    {f \in frontier : cache[f] = None /\ verified[f] = None /\ f \notin Unverified}

\* load_and_verify_friends: a friend is loaded with its own dependencies and friends.
Friend(f) ==
    /\ job = "explore" /\ stack = <<>> /\ f \in NewFriends
    /\ IF store[f] = None
       THEN FailJob
       ELSE /\ stack' = <<Frame(store[f], FALSE)>>
            /\ visited' = {f}
            /\ frontier' = frontier \cup store[f].friends
            /\ UNCHANGED <<store, cache, job, bundle, pos, verified, target, failed>>

More == pos < Len(bundle)

\* The closure is loaded: verify_module_cyclic_relations, then the next module of the
\* bundle, or the end of the load.
Cycles ==
    /\ job = "explore" /\ stack = <<>> /\ NewFriends = {}
    /\ IF ~RelationsOk(target)
       THEN FailJob
       ELSE IF bundle = <<>>
       THEN Idle /\ UNCHANGED <<store, cache, failed>>
       ELSE /\ verified' = [verified EXCEPT ![target.id] = target]
            /\ IF More THEN pos' = pos + 1 /\ job' = "begin"
                       ELSE job' = "publish" /\ UNCHANGED pos
            /\ UNCHANGED <<store, cache, bundle, target, stack, visited, frontier, failed>>

\* All modules verified: they go to the data cache and, when the transaction is
\* executed, to storage.  Of two modules with the same id the later one wins.
Publish ==
    /\ job = "publish"
    /\ store' = [i \in Id |-> IF verified[i] # None THEN verified[i] ELSE store[i]]
    /\ Idle /\ UNCHANGED <<cache, failed>>

\* A dry run, or no gas left for the write charge.
Discard == job = "publish" /\ Idle /\ UNCHANGED <<store, cache, failed>>

\* Vm::clear, or a new MoveVM.
Clear ==
    /\ job = "idle"
    /\ cache' = [i \in Id |-> None]
    /\ UNCHANGED <<store, job, work, failed>>

Init ==
    /\ store = [i \in Id |-> None] /\ cache = [i \in Id |-> None]
    /\ job = "idle" /\ bundle = <<>> /\ pos = 0
    /\ verified = [i \in Id |-> None] /\ target = None
    /\ stack = <<>> /\ visited = {} /\ frontier = {} /\ failed = {}

Next ==
    \/ \E b \in Bundles : SubmitBundle(b)
    \/ \E i \in Id : Load(i) \/ Dependency(i) \/ Friend(i)
    \/ BeginModule \/ RejectModule \/ Link \/ Cycles \/ Publish \/ Discard \/ Clear

Spec == Init /\ [][Next]_vars

-----------------------------------------------------------------------------
(* Properties.                                                             *)

Frames == [mod : Module, todo : SUBSET Id, new : BOOLEAN]

\* Type invariant: the tables hold modules, the bundle is read within its bounds and the
\* exploration never has more frames than there are modules.
TypeOK ==
    /\ store \in [Id -> Module \cup {None}] /\ cache \in [Id -> Module \cup {None}]
    /\ job \in {"idle", "begin", "explore", "publish"}
    /\ bundle \in Seq(Module) /\ pos \in 0..Len(bundle)
    /\ verified \in [Id -> Module \cup {None}] /\ target \in Module \cup {None}
    /\ stack \in Seq(Frames) /\ Len(stack) <= Cardinality(Id) + 1
    /\ visited \subseteq Id /\ frontier \subseteq Id /\ failed \subseteq Id

\* Every stored module links: its dependencies are stored and declare what it calls
\* (runtime.rs, Claim 1).
StoreLinks ==
    \A i \in Id : store[i] # None =>
        \A d \in store[i].deps : store[d] # None /\ Links(store[i], store[d])

\* Every stored module passes the cyclic relation check against storage (runtime.rs,
\* Claim 2).
StoreRelations ==
    \A i \in Id : store[i] # None => NoCycle(store[i], store, {})

\* Storage is sound: whatever bundles of distinct modules were published, in whatever order
\* their modules came, stored modules link and their relations have no cycle (runtime.rs,
\* Claims 1, 2).  It takes friends of which one depends on the other.
StoreSound == StoreLinks /\ StoreRelations

\* The code cache never differs from storage, and never holds what was not committed:
\* a publication that is verified and then dropped leaves no trace.
CacheCoherent == \A i \in Id : cache[i] # None => cache[i] = store[i]

\* What is cached is linked: at every moment, also after a failed job, the dependencies
\* of a cached module are cached (Module::new resolves its handles in the cache).
CacheLinkedDown ==
    \A i \in Id : cache[i] # None =>
        \A d \in cache[i].deps : cache[d] # None /\ Links(cache[i], cache[d])

\* The code cache is sound at every moment, also between the steps of a job and after one
\* that failed: within its bounds, equal to storage where it holds anything, and linked.
CacheSound == TypeOK /\ CacheCoherent /\ CacheLinkedDown

\* A published module can be loaded, whatever was loaded, published, refused or dropped
\* before (expect_no_verification_errors is never reached).  This too takes bundles of
\* distinct modules, and friends of which one depends on the other.
StoredLoads == failed = {}
=============================================================================
