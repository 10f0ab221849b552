---------------------------- MODULE Interpreter ----------------------------
(***************************************************************************)
(* The step interpreter of the engine (src/src/engine.rs: execute and the  *)
(* functions it calls): an ordered list of steps runs over a map of named  *)
(* bindings.  Merge fragments are COMPOSED into lazy regions that execute  *)
(* at the next pipeline breaker and not once per reader; materialized      *)
(* relations spill to disk when their sum passes a budget; a binding       *)
(* leaves the map with its last reader.                                    *)
(*                                                                         *)
(* One query is modelled: its bindings are local to one thread.  What a    *)
(* relation holds is abstracted to its CONTENT, the set of steps whose     *)
(* results went into it, and to its size in budget units.  A binding is    *)
(* named by the position of the step that writes it, so names are unique.  *)
(***************************************************************************)
EXTENDS Integers, Sequences, FiniteSets, FiniteSetsExt, Functions

CONSTANTS
    Plans,       \* the plans that may be submitted
    Sizes,       \* the sizes a relation may have
    Budget,      \* RESIDENT_BINDINGS_BUDGET
    SpillInput   \* REGION_SPILL_JOIN_INPUT_BYTES

LazyOps  == {"compose"}
EagerOps == {"guard", "dedup"}
MergeOps == LazyOps \union EagerOps
Ops      == MergeOps \union {"scan", "collect", "inject", "ship", "return"}

(* A plan is a sequence of steps; step i writes binding i (a ship and a    *)
(* return write none).  "scan" reads a source, "collect" computes distinct *)
(* keys, "inject" is a probe scan narrowed by one or more key bindings.    *)
(* A merge is told apart by what run_fragment does with it: "compose" is   *)
(* any fragment left lazy, whose result is taken to be a function of its   *)
(* inputs; "guard" is the single-row guard; "dedup" a projection with      *)
(* duplicate output names.                                                 *)
IsPlan(p) ==
    /\ p \in Seq([op : Ops, ins : Seq(Nat)])
    /\ \A i \in 1..Len(p) : \A k \in 1..Len(p[i].ins) : p[i].ins[k] \in 1..Len(p)
    /\ \A i \in 1..Len(p) :
          /\ p[i].op \in {"collect", "ship", "return", "guard"} => Len(p[i].ins) = 1
          /\ p[i].op = "scan" => p[i].ins = <<>>

(* What the planner promises of its plans: every read is of an earlier     *)
(* step that wrote the kind of binding the reader needs, and the plan ends *)
(* with its only return.                                                   *)
RelationOps == MergeOps \union {"scan", "inject"}
WellFormed(p) ==
    /\ \A i \in 1..Len(p) : \A k \in 1..Len(p[i].ins) :
          /\ p[i].ins[k] < i
          /\ p[p[i].ins[k]].op \in (IF p[i].op = "inject" THEN {"collect"} ELSE RelationOps)
    /\ \A i \in 1..Len(p) : p[i].op = "return" <=> i = Len(p)
    /\ p # <<>>

ASSUME PlansAssumption      == \A p \in Plans : IsPlan(p)
ASSUME SizesAssumption      == Sizes \subseteq Nat /\ Sizes # {}
ASSUME BudgetAssumption     == Budget \in Nat
ASSUME SpillInputAssumption == SpillInput \in Nat

VARIABLES
    plan,        \* the plan of the query
    pc,          \* the current step
    arg,         \* how many inputs of the current merge are registered
    region,      \* what those inputs amount to
    bindings,    \* binding name -> binding
    remaining,   \* binding name -> reads not yet noted
    exec,        \* the region execution in flight
    status,      \* "running", "returned" or "failed"
    error,       \* why it failed
    result,      \* what it returned
    size,        \* history: the size a relation had when it was stored
    completed    \* history: fragment -> the bindings its region was executed for

vars == <<plan, pc, arg, region, bindings, remaining, exec, status, error,
          result, size, completed>>

---------------------------------------------------------------------------
(* Regions and bindings *)

(* A region: its priced input volume, its content, the fragments composed  *)
(* into it and the stored relations it reads (in memory, or from a file).  *)
EmptyRegion == [bytes |-> 0, content |-> {}, steps |-> {}, leaves |-> <<>>]
Leaf(b, ram) == [rel |-> b, ram |-> ram]
\* MUTANT of LeafRegion: a spilled input is not priced.
LeafRegionUnpriced(b, ram) ==
    [bytes |-> IF ram THEN bindings[b].region.bytes ELSE 0,
     content |-> bindings[b].region.content, steps |-> {}, leaves |-> <<Leaf(b, ram)>>]
LeafRegion(b, ram) ==
    [bytes |-> bindings[b].region.bytes, content |-> bindings[b].region.content,
     steps |-> {}, leaves |-> <<Leaf(b, ram)>>]
\* MUTANT of Plus: a second input replaces what the first contributed.
PlusReplaces(r, s) ==
    [bytes |-> r.bytes + s.bytes, content |-> s.content,
     steps |-> r.steps \union s.steps, leaves |-> r.leaves \o s.leaves]
Plus(r, s) ==
    [bytes |-> r.bytes + s.bytes, content |-> r.content \union s.content,
     steps |-> r.steps \union s.steps, leaves |-> r.leaves \o s.leaves]

(* The enum Binding.  A stored relation keeps its size and content in the  *)
(* region field, with nothing composed in it.                              *)
Forms == {"none", "materialized", "keys", "lazy", "spilled"}
Bind(form, r) == [form |-> form, region |-> r]
Unbound == Bind("none", EmptyRegion)
Stored(bytes, content) ==
    [bytes |-> bytes, content |-> content, steps |-> {}, leaves |-> <<>>]

Lazy(b)     == bindings[b].form = "lazy"
Relation(b) == bindings[b].form \in {"materialized", "spilled"}
Resident    == {b \in DOMAIN bindings : bindings[b].form = "materialized"}
Held(S)     == MapThenSumSet(LAMBDA b : bindings[b].region.bytes, S)

---------------------------------------------------------------------------
(* Use counts *)

(* Every read of a plan is the k-th input of its i-th step.                *)
Positions(p) == UNION {{i} \X (1..Len(p[i].ins)) : i \in 1..Len(p)}
Reads(p, b) == {r \in Positions(p) : p[r[1]].ins[r[2]] = b}
\* MUTANT of UseCounts: the reads of injected scans are not counted.
UseCountsNoKeys(p) == [b \in 1..Len(p) |->
    Cardinality({r \in Reads(p, b) : p[r[1]].op # "inject"})]
UseCounts(p) == [b \in 1..Len(p) |-> Cardinality(Reads(p, b))]
Uses(b) == remaining[b]
\* MUTANT of SaturatingSub: a read is noted twice, and wraps.
DoubleSub(m, n) == m - 2 * n
SaturatingSub(m, n) == IF n > m THEN 0 ELSE m - n
NoteUse(b) == remaining' = [remaining EXCEPT ![b] = SaturatingSub(@, 1)]
\* MUTANT of LastReader: off by one.
LastReaderOffByOne(b) == Uses(b) <= 2
LastReader(b) == Uses(b) <= 1

---------------------------------------------------------------------------
(* Storing a relation *)

(* The sets of resident bindings spill_for_headroom may move to disk: it   *)
(* takes them largest first (ties in map order) and stops at the first fit. *)
\* MUTANT of Fits: makes no room for what is about to be stored.
FitsWithoutIncoming(S, incoming) == Held(Resident \ S) <= Budget
Fits(S, incoming) == Held(Resident \ S) + incoming <= Budget
Evictions(incoming) ==
    {E \in SUBSET Resident :
        /\ \A e \in E, b \in Resident \ E :
              bindings[b].region.bytes <= bindings[e].region.bytes
        /\ E = Resident \/ Fits(E, incoming)
        /\ E # {} => \E last \in E :
              /\ \A e \in E : bindings[last].region.bytes <= bindings[e].region.bytes
              /\ ~Fits(E \ {last}, incoming)}

\* MUTANT of StoredForm: an over-budget region is left lazy.
StoredFormLazy(bytes) == IF bytes > Budget THEN "lazy" ELSE "materialized"
StoredForm(bytes) == IF bytes > Budget THEN "spilled" ELSE "materialized"

StoreRelation(b, bytes, content) ==
    /\ \E E \in Evictions(bytes) :
          bindings' = [n \in DOMAIN bindings |->
              IF n = b THEN Bind(StoredForm(bytes), Stored(bytes, content))
              ELSE IF n \in E THEN [bindings[n] EXCEPT !.form = "spilled"]
              ELSE bindings[n]]
    /\ size' = [size EXCEPT ![b] = bytes]

---------------------------------------------------------------------------
(* Control *)

Running == status = "running" /\ pc <= Len(plan)
Step    == plan[pc]
Idle    == Running /\ exec.mode = "idle"
NoExec  == [mode |-> "idle", rel |-> 0, spillable |-> FALSE,
            region |-> EmptyRegion]

Advance == pc' = pc + 1 /\ arg' = 0 /\ region' = EmptyRegion

(* Every error leaves execute, which drops the map and everything in it.   *)
Fail(e) ==
    /\ status' = "failed" /\ error' = e
    /\ bindings' = [n \in DOMAIN bindings |-> Unbound]
    /\ region' = EmptyRegion /\ exec' = NoExec
    /\ UNCHANGED <<plan, pc, arg, remaining, result, size, completed>>

(* The input a step reads now, if it has one left to read.                 *)
HasInput == arg < Len(Step.ins)
Input    == Step.ins[arg + 1]

(* The error of a step that finds something other than a relation.         *)
MissingRelation(b) ==
    Fail(IF bindings[b].form = "none" THEN "unknown_binding" ELSE "not_a_relation")

---------------------------------------------------------------------------
(* force_materialized *)

SpillableFromStart(r) == r.bytes > SpillInput

\* MUTANT of ForceMaterialized: the lazy binding stays in the map while it executes.
ForceMaterializedInPlace(b) ==
    /\ Lazy(b)
    /\ exec' = [mode |-> "force", rel |-> b, region |-> bindings[b].region,
                spillable |-> SpillableFromStart(bindings[b].region)]
    /\ UNCHANGED <<plan, pc, arg, region, bindings, remaining, status, error, result, size,
                   completed>>

(* Takes the lazy plan out of the map and starts it, with sort-merge joins *)
(* when its measured input says hash builds cannot fit.                    *)
ForceMaterialized(b) ==
    /\ Lazy(b)
    /\ bindings' = [bindings EXCEPT ![b] = Unbound]
    /\ exec' = [mode |-> "force", rel |-> b, region |-> bindings[b].region,
                spillable |-> SpillableFromStart(bindings[b].region)]
    /\ UNCHANGED <<plan, pc, arg, region, remaining, status, error, result, size,
                   completed>>

(* The history of every fragment of the region in flight: one more of its  *)
(* executions read its input to the end, for the binding exec.rel.         *)
NoteCompleted ==
    completed' = [f \in DOMAIN completed |->
        IF f \in exec.region.steps THEN Append(completed[f], exec.rel) ELSE completed[f]]

ForceCompletes ==
    /\ Running /\ exec.mode = "force"
    /\ \E bytes \in Sizes : StoreRelation(exec.rel, bytes, exec.region.content)
    /\ NoteCompleted
    /\ exec' = NoExec
    /\ UNCHANGED <<plan, pc, arg, region, remaining, status, error, result>>

(* An operator exhausted the memory pool: one retry with spillable joins.  *)
RetryAllowed == ~exec.spillable
OperatorExhausted ==
    /\ Running /\ exec.mode = "force"
    /\ \/ /\ RetryAllowed
          /\ exec' = [exec EXCEPT !.spillable = TRUE]
          /\ UNCHANGED <<plan, pc, arg, region, bindings, remaining, status, error,
                         result, size, completed>>
       \/ ~RetryAllowed /\ Fail("exhausted")

---------------------------------------------------------------------------
(* The steps *)

SourceScan ==
    /\ Idle /\ Step.op = "scan"
    /\ \E bytes \in Sizes : StoreRelation(pc, bytes, {pc})
    /\ Advance
    /\ UNCHANGED <<plan, remaining, exec, status, error, result, completed>>

(* CollectDistinct, Ship and Return force their input; a merge does so     *)
(* only when the input has another reader.                                 *)
ForceInput ==
    /\ Idle /\ HasInput
    /\ \/ Step.op \in {"collect", "ship", "return"}
       \/ Step.op \in MergeOps /\ ~LastReader(Input)
    /\ ForceMaterialized(Input)

CollectDistinct ==
    /\ Idle /\ Step.op = "collect" /\ ~Lazy(Input)
    /\ \/ /\ Relation(Input)
          /\ bindings' = [bindings EXCEPT ![pc] =
                 Bind("keys", Stored(0, bindings[Input].region.content \union {pc}))]
          /\ NoteUse(Input)
          /\ Advance
          /\ UNCHANGED <<plan, exec, status, error, result, size, completed>>
       \/ ~Relation(Input) /\ MissingRelation(Input)

(* Reads every key binding, scans, notes each read, stores the relation.   *)
InjectedScan ==
    LET keys == {Step.ins[k] : k \in 1..Len(Step.ins)}
        NotKeys == {b \in keys : bindings[b].form # "keys"}
        Occurrences(b) == Cardinality({r \in Reads(plan, b) : r[1] = pc})
    IN /\ Idle /\ Step.op = "inject"
       /\ \/ /\ NotKeys = {}
             /\ \E bytes \in Sizes : StoreRelation(pc, bytes,
                    {pc} \union UNION {bindings[b].region.content : b \in keys})
             /\ remaining' = [b \in DOMAIN remaining |->
                    SaturatingSub(remaining[b], Occurrences(b))]
             /\ Advance
             /\ UNCHANGED <<plan, exec, status, error, result, completed>>
          \/ NotKeys # {} /\ Fail("not_keys")

(* Ship takes the relation from memory: materialized() has no arm for a    *)
(* spilled one.                                                            *)
Shippable(b) == bindings[b].form = "materialized"
Ship ==
    /\ Idle /\ Step.op = "ship" /\ ~Lazy(Input)
    /\ \/ /\ Shippable(Input)
          /\ NoteUse(Input)
          /\ Advance
          /\ UNCHANGED <<plan, bindings, exec, status, error, result, size, completed>>
       \/ ~Shippable(Input) /\ MissingRelation(Input)

---------------------------------------------------------------------------
(* Merge: register_input for each input in turn, then run_fragment.        *)

Registered(r) == region' = Plus(region, r) /\ arg' = arg + 1
\* MUTANTS of Release: every reader takes; no reader takes.
ReleaseAlways(b) == bindings' = [bindings EXCEPT ![b] = Unbound]
ReleaseNever(b) == bindings' = bindings
Release(b) == bindings' = IF LastReader(b) THEN [bindings EXCEPT ![b] = Unbound]
                                           ELSE bindings

\* MUTANT of RegisterView: every reader composes its own copy of the plan.
RegisterViewPerReader ==
    /\ Idle /\ Step.op \in MergeOps /\ HasInput
    /\ Lazy(Input)
    /\ Registered(bindings[Input].region)
    /\ NoteUse(Input)
    /\ Release(Input)
    /\ UNCHANGED <<plan, pc, exec, status, error, result, size, completed>>

(* A lazy binding with no other reader: its plan is composed into the view. *)
RegisterView ==
    /\ Idle /\ Step.op \in MergeOps /\ HasInput
    /\ LastReader(Input) /\ Lazy(Input)
    /\ Registered(bindings[Input].region)
    /\ NoteUse(Input)
    /\ bindings' = [bindings EXCEPT ![Input] = Unbound]
    /\ UNCHANGED <<plan, pc, exec, status, error, result, size, completed>>

RegisterSpilled ==
    /\ Idle /\ Step.op \in MergeOps /\ HasInput
    /\ bindings[Input].form = "spilled"
    /\ Registered(LeafRegion(Input, FALSE))
    /\ NoteUse(Input)
    /\ Release(Input)
    /\ UNCHANGED <<plan, pc, exec, status, error, result, size, completed>>

RegisterMemTable ==
    /\ Idle /\ Step.op \in MergeOps /\ HasInput
    /\ bindings[Input].form = "materialized"
    /\ Registered(LeafRegion(Input, TRUE))
    /\ NoteUse(Input)
    /\ Release(Input)
    /\ UNCHANGED <<plan, pc, exec, status, error, result, size, completed>>

RegisterFails ==
    /\ Idle /\ Step.op \in MergeOps /\ HasInput
    /\ bindings[Input].form \in {"none", "keys"}
    /\ MissingRelation(Input)

Composed == Plus(region, [EmptyRegion EXCEPT !.content = {pc}, !.steps = {pc}])

RunLazyFragment ==
    /\ Idle /\ Step.op \in LazyOps /\ ~HasInput
    /\ bindings' = [bindings EXCEPT ![pc] = Bind("lazy", Composed)]
    /\ Advance
    /\ UNCHANGED <<plan, remaining, exec, status, error, result, size, completed>>

(* A guard and a duplicate-name projection execute in their merge step, on *)
(* the plain context: no sort-merge joins, no retry.                       *)
BeginEagerFragment ==
    /\ Idle /\ Step.op \in EagerOps /\ ~HasInput
    /\ exec' = [mode |-> IF Step.op = "guard" THEN "probe" ELSE "dedup",
                rel |-> pc, region |-> Composed, spillable |-> FALSE]
    /\ UNCHANGED <<plan, pc, arg, region, bindings, remaining, status, error, result,
                   size, completed>>

(* The guard runs its region twice.  This is the first execution, which    *)
(* counts the violations among the rows of in_0; EagerCompletes is the     *)
(* second, which collects the rows and is taken to see the same ones.  A   *)
(* count that finds a violation may stop early, and the query ends there.  *)
GuardProbe ==
    /\ Running /\ exec.mode = "probe"
    /\ \/ /\ exec' = [exec EXCEPT !.mode = "guard"]
          /\ NoteCompleted
          /\ UNCHANGED <<plan, pc, arg, region, bindings, remaining, status, error,
                         result, size>>
       \/ Fail("cardinality")

EagerCompletes ==
    /\ Running /\ exec.mode \in {"guard", "dedup"}
    /\ \E bytes \in Sizes : StoreRelation(pc, bytes, exec.region.content)
    /\ NoteCompleted
    /\ exec' = NoExec
    /\ Advance
    /\ UNCHANGED <<plan, remaining, status, error, result>>

EagerExhausted ==
    /\ Running /\ exec.mode \in {"probe", "guard", "dedup"}
    /\ Fail("exhausted")

---------------------------------------------------------------------------
(* Return, and the other ends of a query *)

Return ==
    /\ Idle /\ Step.op = "return" /\ ~Lazy(Input)
    /\ \/ /\ Relation(Input)
          /\ status' = "returned" /\ result' = bindings[Input].region.content
          /\ bindings' = [n \in DOMAIN bindings |-> Unbound]
          /\ UNCHANGED <<plan, pc, arg, region, remaining, exec, error, size, completed>>
       \/ ~Relation(Input) /\ MissingRelation(Input)

NoReturn ==
    /\ status = "running" /\ pc > Len(plan)
    /\ Fail("no_return")

(* A source, a fragment's planning, the disk or the result accumulation    *)
(* may fail at any step.                                                   *)
ExternalFailure == Running /\ Fail("external")

---------------------------------------------------------------------------

Init ==
    /\ plan \in Plans
    /\ pc = 1 /\ arg = 0 /\ region = EmptyRegion
    /\ bindings = [b \in 1..Len(plan) |-> Unbound]
    /\ remaining = UseCounts(plan)
    /\ exec = NoExec
    /\ status = "running" /\ error = "none" /\ result = {}
    /\ size = [b \in 1..Len(plan) |-> 0]
    /\ completed = [f \in 1..Len(plan) |-> <<>>]

Next ==
    \/ SourceScan
    \/ ForceInput
    \/ ForceCompletes
    \/ OperatorExhausted
    \/ CollectDistinct
    \/ InjectedScan
    \/ Ship
    \/ RegisterView
    \/ RegisterSpilled
    \/ RegisterMemTable
    \/ RegisterFails
    \/ RunLazyFragment
    \/ BeginEagerFragment
    \/ GuardProbe
    \/ EagerCompletes
    \/ EagerExhausted
    \/ Return
    \/ NoReturn
    \/ ExternalFailure

(* One thread runs the query to its end and nothing else schedules it, so  *)
(* it keeps taking steps as long as it has one; every call it makes out of *)
(* the engine is taken to return.                                          *)
Spec == Init /\ [][Next]_vars /\ WF_vars(Next)

---------------------------------------------------------------------------
(* Properties *)

RegionType == [bytes : Nat, content : SUBSET Nat, steps : SUBSET Nat,
               leaves : Seq([rel : Nat, ram : BOOLEAN])]
InternalErrors == {"unknown_binding", "not_a_relation", "not_keys", "no_return"}
Errors == InternalErrors \union {"none", "external", "exhausted", "cardinality"}

(* The state is well typed, and only the forms the enum Binding allows occur. *)
TypeOK ==
    /\ IsPlan(plan)
    /\ pc \in 1..(Len(plan) + 1)
    /\ arg \in Nat
    /\ region \in RegionType
    /\ bindings \in [1..Len(plan) -> [form : Forms, region : RegionType]]
    /\ remaining \in [1..Len(plan) -> Nat]
    /\ exec \in [mode : {"idle", "force", "probe", "guard", "dedup"}, rel : Nat,
                 spillable : BOOLEAN, region : RegionType]
    /\ status \in {"running", "returned", "failed"}
    /\ error \in Errors
    /\ result \in SUBSET Nat
    /\ size \in [1..Len(plan) -> Nat]
    /\ completed \in [1..Len(plan) -> Seq(Nat)]

(* The reads of b the rest of the plan still makes.                        *)
FutureReads(b) == {r \in Reads(plan, b) : r[1] > pc \/ (r[1] = pc /\ r[2] > arg)}

(* The use counts are exact: what remaining says of a binding is the number *)
(* of reads the plan still makes of it, at every step and between the      *)
(* inputs of a merge.  Everything that decides take-or-clone rests on it.  *)
UseCountsExact ==
    status = "running" =>
        \A b \in DOMAIN remaining : remaining[b] = Cardinality(FutureReads(b))

Writes(i) == plan[i].op \notin {"ship", "return"}

(* No binding is released early: one that a step wrote and a later step    *)
(* reads is in the map, or is being executed to be put back.               *)
NoEarlyRelease ==
    status = "running" =>
        \A b \in 1..(pc - 1) :
            Writes(b) /\ FutureReads(b) # {} =>
                bindings[b].form # "none" \/ (exec.mode = "force" /\ exec.rel = b)

(* A binding whose last reader is a merge is gone once that merge has      *)
(* registered it: memory is released where the last reader takes it.       *)
ReleasedByLastMerge ==
    status = "running" =>
        \A b \in DOMAIN bindings :
            (FutureReads(b) = {} /\ bindings[b].form # "none") =>
                \A r \in Reads(plan, b) :
                    plan[r[1]].op \in MergeOps =>
                        \E q \in Reads(plan, b) :
                            q[1] > r[1] /\ plan[q[1]].op \notin MergeOps

(* A fragment is not executed once per reader of its result ("a            *)
(* multi-consumer must not re-execute its plan once per reader",           *)
(* engine.rs:859-860): the executions that ran it to completion are all    *)
(* for one binding, and they are one, or the two of a guard, which counts  *)
(* its input and then collects it (engine.rs:1007, 1013).                  *)
FragmentRunsForOneBinding ==
    \A f \in DOMAIN completed :
        \/ Len(completed[f]) <= 1
        \/ \E g \in DOMAIN plan : plan[g].op = "guard" /\ completed[f] = <<g, g>>

(* A fragment that has been composed and not yet run is in exactly one     *)
(* place: one lazy binding, the region being registered, or the region in  *)
(* flight.  (What an eager step has in flight is the region it has just    *)
(* registered.)  None is dropped before it ran, and none is composed twice. *)
Lazies == {b \in DOMAIN bindings : Lazy(b)}
Unrun(f) == f < pc /\ plan[f].op \in LazyOps /\ completed[f] = <<>>
ComposedInOnePlace ==
    /\ \A a, b \in Lazies :
          a # b => bindings[a].region.steps \intersect bindings[b].region.steps = {}
    /\ \A b \in Lazies : bindings[b].region.steps \intersect region.steps = {}
    /\ \A b \in Lazies : bindings[b].region.steps \intersect exec.region.steps = {}
    /\ exec.mode = "force" => region.steps \intersect exec.region.steps = {}
    /\ status = "running" => \A f \in DOMAIN completed :
          Unrun(f) => \/ \E b \in Lazies : f \in bindings[b].region.steps
                      \/ f \in region.steps \union exec.region.steps

(* The materialized bindings never hold more than the budget together.     *)
ResidentWithinBudget == Held(Resident) <= Budget

(* A region is priced at the measured size of every stored relation that   *)
(* feeds it, through any number of lazy inputs and spills on the way.      *)
Priced(r) == r.bytes = MapThenSumSet(LAMBDA k : size[r.leaves[k].rel], DOMAIN r.leaves)
PricedByItsLeaves ==
    Priced(region) /\ Priced(exec.region) /\ \A b \in Lazies : Priced(bindings[b].region)

(* Lazy regions, spilling and early release are invisible: the query       *)
(* returns what evaluating every step eagerly and keeping every binding    *)
(* would, or it fails.                                                     *)
Eager == INSTANCE EagerPlan WITH
    plan <- plan, pc <- pc, status <- status, result <- result
ImplementsEagerPlan == Eager!Spec

(* A well-formed plan never finds a binding missing or in a form its       *)
(* reader cannot read, except at a ship.                                   *)
ReadableExceptByShip ==
    WellFormed(plan) /\ error \in InternalErrors => Step.op = "ship"

(* "Spilled bindings stay fully readable (every consumer streams the file),*)
(* so evicting an already-stored relation is always safe" (engine.rs:200). *)
SpilledBindingsReadable == WellFormed(plan) => error \notin InternalErrors

(* Every query ends: it returns or it fails.                               *)
Terminates == <>(status # "running")

===========================================================================
