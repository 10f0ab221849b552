------------------------ MODULE Interpreter_proofs ------------------------
(***************************************************************************)
(* Proofs about Interpreter for every set of plans, every budget and every *)
(* size of relation.                                                       *)
(***************************************************************************)
EXTENDS Interpreter, TLAPS, FiniteSetTheorems, SequenceTheorems

BindingType == [form : Forms, region : RegionType]

(* Where the interpreter is inside a step: how many inputs it has          *)
(* registered, and which step an execution in flight belongs to.           *)
ControlOK ==
    /\ status = "running" /\ pc <= Len(plan) =>
          arg <= Len(Step.ins) /\ (Step.op \notin MergeOps => arg = 0)
    /\ exec.mode # "idle" => status = "running" /\ pc <= Len(plan)
    /\ exec.mode = "force" => exec.rel \in 1..Len(plan)
    /\ exec.mode \in {"probe", "guard", "dedup"} =>
          exec.rel = pc /\ Step.op \in EagerOps /\ ~HasInput

TypeInv == TypeOK /\ ControlOK

---------------------------------------------------------------------------
(* Lemmas about the operators *)

LEMMA PlanFacts ==
    ASSUME NEW p, IsPlan(p)
    PROVE  /\ Len(p) \in Nat
           /\ \A i \in 1..Len(p) : /\ p[i].op \in Ops
                                  /\ p[i].ins \in Seq(Nat)
                                  /\ Len(p[i].ins) \in Nat
                                  /\ \A k \in 1..Len(p[i].ins) : p[i].ins[k] \in 1..Len(p)
<1>1. p \in Seq([op : Ops, ins : Seq(Nat)])
    BY DEF IsPlan
<1>2. Len(p) \in Nat /\ \A i \in 1..Len(p) : p[i] \in [op : Ops, ins : Seq(Nat)]
    BY <1>1, ElementOfSeq, LenProperties
<1>3. \A i \in 1..Len(p) : p[i].op \in Ops /\ p[i].ins \in Seq(Nat)
    BY <1>2
<1>4. \A i \in 1..Len(p) : Len(p[i].ins) \in Nat
    BY <1>3, LenProperties
<1> QED BY <1>2, <1>3, <1>4 DEF IsPlan

(* The reads of a plan are finitely many, and each is an input of a step.  *)
LEMMA PositionsFinite ==
    ASSUME NEW p, IsPlan(p)
    PROVE  IsFiniteSet(Positions(p))
<1> DEFINE rows == [i \in 1..Len(p) |-> {i} \X (1..Len(p[i].ins))]
           R == {{i} \X (1..Len(p[i].ins)) : i \in 1..Len(p)}
<1>1. Len(p) \in Nat /\ \A i \in 1..Len(p) : Len(p[i].ins) \in Nat
    BY PlanFacts
<1>2. IsFiniteSet(1..Len(p))
    BY <1>1, FS_Interval
<1>3. rows \in Surjection(1..Len(p), R)
    BY DEF Surjection
<1>4. IsFiniteSet(R)
    BY <1>2, <1>3, FS_Surjection
<1>5. \A T \in R : IsFiniteSet(T)
    <2>1. SUFFICES ASSUME NEW i \in 1..Len(p)
                   PROVE  IsFiniteSet({i} \X (1..Len(p[i].ins)))
        OBVIOUS
    <2>2. IsFiniteSet(1..Len(p[i].ins))
        <3> DEFINE n == Len(p[i].ins)
        <3>1. n \in Nat
            BY <1>1
        <3> HIDE DEF n
        <3>2. IsFiniteSet(1..n)
            BY <3>1, FS_Interval
        <3> QED BY <3>2 DEF n
    <2>3. IsFiniteSet({i})
        BY FS_Singleton
    <2> QED BY <2>2, <2>3, FS_Product
<1> QED BY <1>4, <1>5, FS_UNION DEF Positions

LEMMA ReadsFinite ==
    ASSUME NEW p, IsPlan(p), NEW b
    PROVE  /\ IsFiniteSet(Reads(p, b))
           /\ \A r \in Reads(p, b) : r[1] \in 1..Len(p) /\ r[2] \in 1..Len(p[r[1]].ins)
                                     /\ r = <<r[1], r[2]>> /\ p[r[1]].ins[r[2]] = b
           /\ \A i \in 1..Len(p) : \A k \in 1..Len(p[i].ins) :
                 p[i].ins[k] = b => <<i, k>> \in Reads(p, b)
<1>1. Reads(p, b) \subseteq Positions(p)
    BY DEF Reads
<1>2. IsFiniteSet(Reads(p, b))
    BY <1>1, PositionsFinite, FS_Subset
<1>3. \A r \in Positions(p) : r[1] \in 1..Len(p) /\ r[2] \in 1..Len(p[r[1]].ins)
                              /\ r = <<r[1], r[2]>>
    BY DEF Positions
<1>4. \A i \in 1..Len(p) : \A k \in 1..Len(p[i].ins) : <<i, k>> \in Positions(p)
    BY DEF Positions
<1> QED BY <1>2, <1>3, <1>4 DEF Reads

(* Adding two regions gives a region.                                      *)
LEMMA PlusType ==
    ASSUME NEW r \in RegionType, NEW s \in RegionType
    PROVE  Plus(r, s) \in RegionType
<1>1. r.leaves \o s.leaves \in Seq([rel : Nat, ram : BOOLEAN])
    BY ConcatProperties DEF RegionType
<1> QED BY <1>1 DEF Plus, RegionType

LEMMA EmptyRegionType == EmptyRegion \in RegionType
BY EmptySeq DEF EmptyRegion, RegionType

LEMMA LeafRegionType ==
    ASSUME TypeOK, NEW b \in 1..Len(plan), NEW ram \in BOOLEAN
    PROVE  LeafRegion(b, ram) \in RegionType
<1>1. bindings[b].region \in RegionType
    BY DEF TypeOK
<1>2. Len(plan) \in Nat
    BY DEF TypeOK, IsPlan
<1>3. <<Leaf(b, ram)>> \in Seq([rel : Nat, ram : BOOLEAN])
    BY <1>2 DEF Leaf
<1> QED BY <1>1, <1>3 DEF LeafRegion, RegionType

LEMMA ComposedType ==
    ASSUME TypeOK
    PROVE  Composed \in RegionType
<1>1. pc \in Nat
    BY PlanFacts DEF TypeOK
<1>2. [EmptyRegion EXCEPT !.content = {pc}, !.steps = {pc}] \in RegionType
    BY <1>1, EmptySeq DEF EmptyRegion, RegionType
<1> QED BY <1>2, PlusType DEF Composed, TypeOK

(* Storing a relation binds it, and changes another binding at most by     *)
(* moving a resident relation to disk.                                     *)
LEMMA StoreRelationEffect ==
    ASSUME TypeOK, NEW b \in 1..Len(plan), NEW bytes \in Nat, NEW content \in SUBSET Nat,
           StoreRelation(b, bytes, content)
    PROVE  /\ bindings' \in [1..Len(plan) -> BindingType]
           /\ size' \in [1..Len(plan) -> Nat]
           /\ bindings'[b].form \in {"materialized", "spilled"}
           /\ bindings'[b].region.steps = {}
           /\ \A n \in 1..Len(plan) : n # b =>
                 /\ bindings'[n].region = bindings[n].region
                 /\ \/ bindings'[n].form = bindings[n].form
                    \/ bindings[n].form = "materialized" /\ bindings'[n].form = "spilled"
<1>1. Stored(bytes, content) \in RegionType
    BY EmptySeq DEF Stored, RegionType
<1>2. PICK E \in Evictions(bytes) :
        bindings' = [n \in DOMAIN bindings |->
              IF n = b THEN Bind(StoredForm(bytes), Stored(bytes, content))
              ELSE IF n \in E THEN [bindings[n] EXCEPT !.form = "spilled"]
              ELSE bindings[n]]
    BY DEF StoreRelation
<1>3. E \subseteq Resident
    BY DEF Evictions
<1>4. bindings \in [1..Len(plan) -> BindingType] /\ DOMAIN bindings = 1..Len(plan)
    BY DEF TypeOK, BindingType
<1>5. StoredForm(bytes) \in {"materialized", "spilled"}
    BY DEF StoredForm
<1>6. size' \in [1..Len(plan) -> Nat]
    BY DEF TypeOK, StoreRelation
<1>7. \A n \in 1..Len(plan) : n # b =>
         /\ bindings'[n] \in BindingType
         /\ bindings'[n].region = bindings[n].region
         /\ \/ bindings'[n].form = bindings[n].form
            \/ bindings[n].form = "materialized" /\ bindings'[n].form = "spilled"
    BY <1>2, <1>3, <1>4 DEF Resident, BindingType, Forms
<1>8. bindings'[b] = Bind(StoredForm(bytes), Stored(bytes, content))
    BY <1>2, <1>4
<1>9. bindings'[b] \in BindingType
    BY <1>1, <1>5, <1>8 DEF Bind, BindingType, Forms
<1>10. bindings' \in [1..Len(plan) -> BindingType]
    <2>1. DOMAIN bindings' = 1..Len(plan) /\ bindings' = [n \in 1..Len(plan) |-> bindings'[n]]
        BY <1>2, <1>4
    <2> QED BY <1>7, <1>9, <2>1
<1> QED BY <1>5, <1>6, <1>7, <1>8, <1>10 DEF Bind, Stored

(* A query that fails keeps the types, and has nothing in flight.          *)
LEMMA FailEffect ==
    ASSUME TypeOK, NEW e \in Errors, Fail(e)
    PROVE  TypeInv'
<1>1. Unbound \in BindingType /\ NoExec.region \in RegionType
    BY EmptyRegionType DEF Unbound, Bind, BindingType, Forms, NoExec
<1>2. DOMAIN bindings = 1..Len(plan)
    BY DEF TypeOK
<1>3. TypeOK'
    BY <1>1, <1>2, EmptyRegionType DEF Fail, TypeOK, BindingType, NoExec
<1>4. ControlOK'
    BY DEF Fail, ControlOK, NoExec
<1> QED BY <1>3, <1>4 DEF TypeInv

LEMMA MissingRelationEffect ==
    ASSUME TypeOK, NEW b, MissingRelation(b)
    PROVE  TypeInv'
BY FailEffect DEF MissingRelation, Errors, InternalErrors
---------------------------------------------------------------------------
(* Type correctness *)

(* The current step of a running plan, and the input it reads next.        *)
LEMMA StepFacts ==
    ASSUME TypeInv, Running
    PROVE  /\ pc \in 1..Len(plan) /\ pc + 1 \in 1..(Len(plan) + 1)
           /\ Step.op \in Ops /\ Len(Step.ins) \in Nat
           /\ arg \in Nat /\ arg <= Len(Step.ins)
           /\ \A k \in 1..Len(Step.ins) : Step.ins[k] \in 1..Len(plan)
           /\ HasInput => Input \in 1..Len(plan)
           /\ Step.op \in {"collect", "ship", "return"} =>
                 arg = 0 /\ Len(Step.ins) = 1 /\ HasInput
           /\ Step.op = "scan" => arg = 0 /\ Len(Step.ins) = 0
           /\ Step.op = "inject" => arg = 0
<1>1. IsPlan(plan) /\ Len(plan) \in Nat /\ arg \in Nat /\ pc \in 1..(Len(plan) + 1)
    BY PlanFacts DEF TypeInv, TypeOK
<1>2. pc \in 1..Len(plan) /\ pc + 1 \in 1..(Len(plan) + 1)
    BY <1>1 DEF Running
<1>3. /\ Step.op \in Ops /\ Len(Step.ins) \in Nat
      /\ \A k \in 1..Len(Step.ins) : Step.ins[k] \in 1..Len(plan)
    BY <1>1, <1>2, PlanFacts DEF Step
<1>4. arg <= Len(Step.ins) /\ (Step.op \notin MergeOps => arg = 0)
    BY DEF TypeInv, ControlOK, Running
<1>5. HasInput => Input \in 1..Len(plan)
    <2>1. HasInput => arg + 1 \in 1..Len(Step.ins)
        BY <1>1, <1>3 DEF HasInput
    <2> QED BY <1>3, <2>1 DEF Input
<1>6. /\ Step.op \in {"collect", "ship", "return"} => Len(Step.ins) = 1
      /\ Step.op = "scan" => Step.ins = <<>>
    BY <1>1, <1>2 DEF IsPlan, Step
<1>7. Step.op \in {"collect", "ship", "return", "scan", "inject"} => arg = 0
    BY <1>4 DEF MergeOps, LazyOps, EagerOps
<1>8. Step.op \in {"collect", "ship", "return"} => HasInput
    BY <1>6, <1>7 DEF HasInput
<1>9. Step.op = "scan" => Len(Step.ins) = 0
    BY <1>6
<1> QED BY <1>1, <1>2, <1>3, <1>4, <1>5, <1>6, <1>7, <1>8, <1>9

LEMMA AdvanceControl ==
    ASSUME TypeInv, Advance, plan' = plan, exec'.mode = "idle"
    PROVE  ControlOK'
<1>1. Len(plan) \in Nat /\ pc \in Nat /\ IsPlan(plan)
    BY PlanFacts DEF TypeInv, TypeOK
<1>2. pc' <= Len(plan) => Len(plan[pc'].ins) \in Nat
    <2>1. pc' <= Len(plan) => pc' \in 1..Len(plan)
        BY <1>1 DEF Advance
    <2> QED BY <1>1, <2>1, PlanFacts
<1> QED BY <1>2 DEF ControlOK, Advance, Step

LEMMA SourceScanType ==
    ASSUME TypeInv, SourceScan PROVE TypeInv'
<1>1. PICK bytes \in Sizes : StoreRelation(pc, bytes, {pc})
    BY DEF SourceScan
<1>2. pc \in 1..Len(plan) /\ pc + 1 \in 1..(Len(plan) + 1)
    BY StepFacts DEF SourceScan, Idle
<1>3. bytes \in Nat /\ {pc} \in SUBSET Nat
    BY <1>2, SizesAssumption
<1>4. bindings' \in [1..Len(plan) -> BindingType] /\ size' \in [1..Len(plan) -> Nat]
    BY <1>1, <1>2, <1>3, StoreRelationEffect DEF TypeInv
<1>5. TypeOK'
    BY <1>2, <1>4, EmptyRegionType DEF SourceScan, Advance, TypeInv, TypeOK, BindingType
<1>6. ControlOK'
    BY AdvanceControl DEF SourceScan, Idle
<1> QED BY <1>5, <1>6 DEF TypeInv

LEMMA ForceInputType ==
    ASSUME TypeInv, ForceInput PROVE TypeInv'
<1>1. Running /\ HasInput /\ ForceMaterialized(Input)
    BY DEF ForceInput, Idle
<1>2. Input \in 1..Len(plan) /\ pc <= Len(plan)
    BY <1>1, StepFacts DEF Running
<1>3. bindings' \in [1..Len(plan) -> BindingType]
    BY <1>1, <1>2, EmptyRegionType
       DEF ForceMaterialized, TypeInv, TypeOK, Unbound, Bind, BindingType, Forms
<1>4. bindings[Input].region \in RegionType /\ Input \in Nat
    <2>1. Len(plan) \in Nat
        BY PlanFacts DEF TypeInv, TypeOK
    <2>2. Input \in Nat
        BY <1>2, <2>1
    <2>3. bindings[Input].region \in RegionType
        BY <1>2 DEF TypeInv, TypeOK
    <2> QED BY <2>2, <2>3
<1>5. exec' \in [mode : {"idle", "force", "probe", "guard", "dedup"}, rel : Nat,
                 spillable : BOOLEAN, region : RegionType]
    BY <1>1, <1>4 DEF ForceMaterialized, SpillableFromStart
<1>6. TypeOK'
    BY <1>1, <1>3, <1>5 DEF ForceMaterialized, TypeInv, TypeOK, BindingType
<1>7. ControlOK'
    BY <1>1, <1>2 DEF ForceMaterialized, TypeInv, ControlOK, Running, Step
<1> QED BY <1>6, <1>7 DEF TypeInv

LEMMA NoteCompletedType ==
    ASSUME TypeOK, NoteCompleted
    PROVE  completed' \in [1..Len(plan) -> Seq(Nat)]
<1>1. exec.rel \in Nat /\ completed \in [1..Len(plan) -> Seq(Nat)]
    BY DEF TypeOK
<1>2. \A f \in 1..Len(plan) : Append(completed[f], exec.rel) \in Seq(Nat)
    BY <1>1
<1> QED BY <1>1, <1>2 DEF NoteCompleted

LEMMA NoExecType ==
    NoExec \in [mode : {"idle", "force", "probe", "guard", "dedup"}, rel : Nat,
                spillable : BOOLEAN, region : RegionType]
BY EmptyRegionType DEF NoExec

LEMMA ForceCompletesType ==
    ASSUME TypeInv, ForceCompletes PROVE TypeInv'
<1>1. PICK bytes \in Sizes : StoreRelation(exec.rel, bytes, exec.region.content)
    BY DEF ForceCompletes
<1>2. exec.rel \in 1..Len(plan) /\ bytes \in Nat /\ exec.region.content \in SUBSET Nat
    BY SizesAssumption DEF ForceCompletes, TypeInv, TypeOK, ControlOK, RegionType
<1>3. bindings' \in [1..Len(plan) -> BindingType] /\ size' \in [1..Len(plan) -> Nat]
    BY <1>1, <1>2, StoreRelationEffect DEF TypeInv
<1>4. completed' \in [1..Len(plan) -> Seq(Nat)]
    BY NoteCompletedType DEF ForceCompletes, TypeInv
<1>5. TypeOK'
    BY <1>3, <1>4, NoExecType DEF ForceCompletes, TypeInv, TypeOK, BindingType
<1>6. ControlOK'
    BY DEF ForceCompletes, TypeInv, ControlOK, NoExec, Step
<1> QED BY <1>5, <1>6 DEF TypeInv

LEMMA OperatorExhaustedType ==
    ASSUME TypeInv, OperatorExhausted PROVE TypeInv'
<1>1. CASE RetryAllowed /\ exec' = [exec EXCEPT !.spillable = TRUE]
           /\ UNCHANGED <<plan, pc, arg, region, bindings, remaining, status, error,
                          result, size, completed>>
    <2>1. TypeOK'
        BY <1>1 DEF TypeInv, TypeOK
    <2>2. ControlOK'
        BY <1>1 DEF TypeInv, TypeOK, ControlOK, Step, HasInput
    <2> QED BY <2>1, <2>2 DEF TypeInv
<1>2. CASE Fail("exhausted")
    BY <1>2, FailEffect DEF TypeInv, Errors
<1> QED BY <1>1, <1>2 DEF OperatorExhausted

LEMMA NoteUseType ==
    ASSUME TypeOK, NEW b \in 1..Len(plan), NoteUse(b)
    PROVE  remaining' \in [1..Len(plan) -> Nat]
<1>1. remaining \in [1..Len(plan) -> Nat]
    BY DEF TypeOK
<1>2. SaturatingSub(remaining[b], 1) \in Nat
    BY <1>1 DEF SaturatingSub
<1> QED BY <1>1, <1>2 DEF NoteUse

LEMMA CollectDistinctType ==
    ASSUME TypeInv, CollectDistinct PROVE TypeInv'
<1>1. pc \in 1..Len(plan) /\ pc + 1 \in 1..(Len(plan) + 1) /\ Input \in 1..Len(plan)
    BY StepFacts DEF CollectDistinct, Idle
<1>2. CASE MissingRelation(Input)
    BY <1>2, MissingRelationEffect DEF TypeInv
<1>3. CASE Relation(Input)
    <2>0. bindings[Input].region.content \union {pc} \in SUBSET Nat
        <3>1. bindings[Input].region.content \in SUBSET Nat
            BY <1>1 DEF RegionType, TypeInv, TypeOK
        <3> QED BY <1>1, <3>1
    <2>1. Stored(0, bindings[Input].region.content \union {pc}) \in RegionType
        BY <2>0, EmptySeq DEF Stored, RegionType
    <2>11. /\ bindings' = [bindings EXCEPT ![pc] =
                 Bind("keys", Stored(0, bindings[Input].region.content \union {pc}))]
          /\ NoteUse(Input) /\ Advance
          /\ UNCHANGED <<plan, exec, status, error, result, size, completed>>
        BY <1>3 DEF CollectDistinct
    <2>12. Bind("keys", Stored(0, bindings[Input].region.content \union {pc})) \in BindingType
        BY <2>1 DEF Bind, BindingType, Forms
    <2>2. bindings' \in [1..Len(plan) -> BindingType]
        BY <1>1, <2>11, <2>12 DEF BindingType, TypeInv, TypeOK
    <2>3. remaining' \in [1..Len(plan) -> Nat]
        BY <1>1, <1>3, NoteUseType DEF CollectDistinct, TypeInv
    <2>4. TypeOK'
        BY <1>1, <2>11, <2>2, <2>3, EmptyRegionType DEF Advance, TypeInv, TypeOK, BindingType
    <2>5. ControlOK'
        BY <1>3, AdvanceControl DEF CollectDistinct, Idle
    <2> QED BY <2>4, <2>5 DEF TypeInv
<1> QED BY <1>2, <1>3 DEF CollectDistinct

(* The key bindings an injected scan reads, and its reads of each binding. *)
KeysRead == {Step.ins[k] : k \in 1..Len(Step.ins)}
ReadsNow(b) == {r \in Reads(plan, b) : r[1] = pc}

LEMMA ReadsNowFinite ==
    ASSUME TypeOK, NEW b
    PROVE  IsFiniteSet(ReadsNow(b)) /\ Cardinality(ReadsNow(b)) \in Nat
<1>1. ReadsNow(b) \subseteq Reads(plan, b) /\ IsFiniteSet(Reads(plan, b))
    BY ReadsFinite DEF ReadsNow, TypeOK
<1> QED BY <1>1, FS_Subset, FS_CardinalityType

LEMMA InjectedScanCases ==
    ASSUME TypeInv, InjectedScan
    PROVE  \/ TypeInv' /\ status' = "failed" /\ error' = "not_keys"
              /\ \E b \in KeysRead : bindings[b].form # "keys"
           \/ /\ \E bytes \in Nat, content \in SUBSET Nat : StoreRelation(pc, bytes, content)
              /\ remaining' = [b \in DOMAIN remaining |->
                     SaturatingSub(remaining[b], Cardinality(ReadsNow(b)))]
              /\ Advance
              /\ UNCHANGED <<plan, exec, status, error, result, completed>>
<1> DEFINE NotKeys == {b \in KeysRead : bindings[b].form # "keys"}
<1>1. CASE NotKeys # {} /\ Fail("not_keys")
    <2>1. TypeInv'
        BY <1>1, FailEffect DEF TypeInv, Errors, InternalErrors
    <2> QED BY <1>1, <2>1 DEF Fail
<1>2. CASE NotKeys = {} /\ InjectedScan
    <2>1. /\ \E bytes \in Sizes : StoreRelation(pc, bytes,
                 {pc} \union UNION {bindings[b].region.content : b \in KeysRead})
          /\ remaining' = [b \in DOMAIN remaining |->
                 SaturatingSub(remaining[b], Cardinality(ReadsNow(b)))]
          /\ Advance
          /\ UNCHANGED <<plan, exec, status, error, result, completed>>
        BY <1>2 DEF InjectedScan, KeysRead, ReadsNow
    <2>2. KeysRead \subseteq 1..Len(plan) /\ pc \in 1..Len(plan) /\ Len(plan) \in Nat
        <3>1. pc \in 1..Len(plan) /\ Step = plan[pc]
            BY StepFacts DEF InjectedScan, Idle, Step
        <3>2. IsPlan(plan) /\ Len(plan) \in Nat
            BY PlanFacts DEF TypeInv, TypeOK
        <3>3. \A k \in 1..Len(Step.ins) : Step.ins[k] \in 1..Len(plan)
            BY <3>1, <3>2 DEF IsPlan
        <3>4. KeysRead \subseteq 1..Len(plan)
            BY <3>3 DEF KeysRead
        <3> QED BY <3>1, <3>2, <3>4
    <2>3. {pc} \union UNION {bindings[b].region.content : b \in KeysRead} \in SUBSET Nat
        <3>1. \A b \in KeysRead : bindings[b].region.content \in SUBSET Nat
            BY <2>2 DEF TypeInv, TypeOK, RegionType
        <3>2. UNION {bindings[b].region.content : b \in KeysRead} \in SUBSET Nat
            BY <3>1
        <3> QED BY <2>2, <3>2
    <2> QED BY <2>1, <2>3, SizesAssumption
<1> QED BY <1>1, <1>2 DEF InjectedScan, KeysRead

LEMMA InjectedScanType ==
    ASSUME TypeInv, InjectedScan PROVE TypeInv'
<1>1. CASE TypeInv'
    BY <1>1
<1>2. CASE /\ \E bytes \in Nat, content \in SUBSET Nat : StoreRelation(pc, bytes, content)
           /\ remaining' = [b \in DOMAIN remaining |->
                  SaturatingSub(remaining[b], Cardinality(ReadsNow(b)))]
           /\ Advance
           /\ UNCHANGED <<plan, exec, status, error, result, completed>>
    <2>1. pc \in 1..Len(plan) /\ pc + 1 \in 1..(Len(plan) + 1)
        BY StepFacts DEF InjectedScan, Idle
    <2>2. bindings' \in [1..Len(plan) -> BindingType] /\ size' \in [1..Len(plan) -> Nat]
        BY <1>2, <2>1, StoreRelationEffect DEF TypeInv
    <2>3. remaining' \in [1..Len(plan) -> Nat]
        <3>1. \A b \in 1..Len(plan) :
                 SaturatingSub(remaining[b], Cardinality(ReadsNow(b))) \in Nat
            <4>1. remaining \in [1..Len(plan) -> Nat] /\ TypeOK
                BY DEF TypeInv, TypeOK
            <4>2. \A b \in 1..Len(plan) : Cardinality(ReadsNow(b)) \in Nat
                BY <4>1, ReadsNowFinite
            <4> QED BY <4>1, <4>2 DEF SaturatingSub
        <3>2. DOMAIN remaining = 1..Len(plan)
            BY DEF TypeInv, TypeOK
        <3> QED BY <1>2, <3>1, <3>2
    <2>4. TypeOK'
        BY <1>2, <2>1, <2>2, <2>3, EmptyRegionType DEF Advance, TypeInv, TypeOK, BindingType
    <2>5. ControlOK'
        BY <1>2, AdvanceControl DEF InjectedScan, Idle
    <2> QED BY <2>4, <2>5 DEF TypeInv
<1> QED BY <1>1, <1>2, InjectedScanCases

LEMMA ShipType ==
    ASSUME TypeInv, Ship PROVE TypeInv'
<1>1. pc + 1 \in 1..(Len(plan) + 1) /\ Input \in 1..Len(plan)
    BY StepFacts DEF Ship, Idle
<1>2. CASE MissingRelation(Input)
    BY <1>2, MissingRelationEffect DEF TypeInv
<1>3. CASE /\ NoteUse(Input) /\ Advance
           /\ UNCHANGED <<plan, bindings, exec, status, error, result, size, completed>>
    <2>1. remaining' \in [1..Len(plan) -> Nat]
        BY <1>1, <1>3, NoteUseType DEF TypeInv
    <2>2. TypeOK'
        BY <1>1, <1>3, <2>1, EmptyRegionType DEF Advance, TypeInv, TypeOK
    <2>3. ControlOK'
        BY <1>3, AdvanceControl DEF Ship, Idle
    <2> QED BY <2>2, <2>3 DEF TypeInv
<1> QED BY <1>2, <1>3 DEF Ship

(* Registering one merge input.                                            *)
LEMMA RegisterType ==
    ASSUME TypeInv, Idle, Step.op \in MergeOps, HasInput,
           NEW r \in RegionType, Registered(r), NoteUse(Input),
           bindings' = bindings \/ bindings' = [bindings EXCEPT ![Input] = Unbound],
           UNCHANGED <<plan, pc, exec, status, error, result, size, completed>>
    PROVE  TypeInv'
<1>1. Input \in 1..Len(plan) /\ arg \in Nat /\ Len(Step.ins) \in Nat /\ Running
    BY StepFacts DEF Idle
<1>2. Unbound \in BindingType
    BY EmptyRegionType DEF Unbound, Bind, BindingType, Forms
<1>3. bindings' \in [1..Len(plan) -> BindingType]
    BY <1>1, <1>2 DEF TypeInv, TypeOK, BindingType
<1>4. remaining' \in [1..Len(plan) -> Nat]
    BY <1>1, NoteUseType DEF TypeInv
<1>5. region' \in RegionType
    BY PlusType DEF Registered, TypeInv, TypeOK
<1>6. TypeOK'
    BY <1>1, <1>3, <1>4, <1>5 DEF Registered, TypeInv, TypeOK, BindingType
<1>7. Step' = Step
    BY DEF Step
<1>8. ControlOK'
    BY <1>1, <1>7 DEF TypeInv, ControlOK, Registered, HasInput, Idle
<1> QED BY <1>6, <1>8 DEF TypeInv

LEMMA RegisterViewType ==
    ASSUME TypeInv, RegisterView PROVE TypeInv'
<1>1. bindings[Input].region \in RegionType
    BY StepFacts DEF RegisterView, Idle, TypeInv, TypeOK
<1> QED BY <1>1, RegisterType DEF RegisterView

LEMMA RegisterSpilledType ==
    ASSUME TypeInv, RegisterSpilled PROVE TypeInv'
<1>1. LeafRegion(Input, FALSE) \in RegionType
    BY StepFacts, LeafRegionType DEF RegisterSpilled, Idle, TypeInv
<1> QED BY <1>1, RegisterType DEF RegisterSpilled, Release

LEMMA RegisterMemTableType ==
    ASSUME TypeInv, RegisterMemTable PROVE TypeInv'
<1>1. LeafRegion(Input, TRUE) \in RegionType
    BY StepFacts, LeafRegionType DEF RegisterMemTable, Idle, TypeInv
<1> QED BY <1>1, RegisterType DEF RegisterMemTable, Release

LEMMA RunLazyFragmentType ==
    ASSUME TypeInv, RunLazyFragment PROVE TypeInv'
<1>1. pc \in 1..Len(plan) /\ pc + 1 \in 1..(Len(plan) + 1)
    BY StepFacts DEF RunLazyFragment, Idle
<1>2. Bind("lazy", Composed) \in BindingType
    BY ComposedType DEF TypeInv, Bind, BindingType, Forms
<1>3. bindings' \in [1..Len(plan) -> BindingType]
    BY <1>1, <1>2 DEF RunLazyFragment, TypeInv, TypeOK, BindingType
<1>4. TypeOK'
    BY <1>1, <1>3, EmptyRegionType
       DEF RunLazyFragment, Advance, TypeInv, TypeOK, BindingType
<1>5. ControlOK'
    BY AdvanceControl DEF RunLazyFragment, Idle
<1> QED BY <1>4, <1>5 DEF TypeInv

LEMMA BeginEagerFragmentType ==
    ASSUME TypeInv, BeginEagerFragment PROVE TypeInv'
<1>1. Composed \in RegionType /\ pc \in Nat /\ Running
    BY ComposedType, PlanFacts DEF TypeInv, TypeOK, BeginEagerFragment, Idle
<1>2. exec' \in [mode : {"idle", "force", "probe", "guard", "dedup"}, rel : Nat,
                 spillable : BOOLEAN, region : RegionType]
    BY <1>1 DEF BeginEagerFragment
<1>3. TypeOK'
    BY <1>2 DEF BeginEagerFragment, TypeInv, TypeOK
<1>4. ControlOK'
    BY <1>1 DEF BeginEagerFragment, TypeInv, ControlOK, Running, Step, HasInput
<1> QED BY <1>3, <1>4 DEF TypeInv

LEMMA GuardProbeType ==
    ASSUME TypeInv, GuardProbe PROVE TypeInv'
<1>1. CASE Fail("cardinality")
    BY <1>1, FailEffect DEF TypeInv, Errors
<1>2. CASE /\ exec' = [exec EXCEPT !.mode = "guard"]
           /\ NoteCompleted
           /\ UNCHANGED <<plan, pc, arg, region, bindings, remaining, status, error,
                          result, size>>
    <2>1. TypeOK'
        BY <1>2, NoteCompletedType DEF TypeInv, TypeOK
    <2>2. ControlOK'
        BY <1>2 DEF GuardProbe, TypeInv, TypeOK, ControlOK, Running, Step, HasInput
    <2> QED BY <2>1, <2>2 DEF TypeInv
<1> QED BY <1>1, <1>2 DEF GuardProbe

LEMMA EagerCompletesType ==
    ASSUME TypeInv, EagerCompletes PROVE TypeInv'
<1>1. PICK bytes \in Sizes : StoreRelation(pc, bytes, exec.region.content)
    BY DEF EagerCompletes
<1>2. pc \in 1..Len(plan) /\ pc + 1 \in 1..(Len(plan) + 1) /\ bytes \in Nat
    BY StepFacts, SizesAssumption DEF EagerCompletes
<1>3. exec.region.content \in SUBSET Nat
    BY DEF TypeInv, TypeOK, RegionType
<1>4. bindings' \in [1..Len(plan) -> BindingType] /\ size' \in [1..Len(plan) -> Nat]
    BY <1>1, <1>2, <1>3, StoreRelationEffect DEF TypeInv
<1>5. completed' \in [1..Len(plan) -> Seq(Nat)]
    BY NoteCompletedType DEF EagerCompletes, TypeInv
<1>7. TypeOK'
    BY <1>2, <1>4, <1>5, NoExecType, EmptyRegionType
       DEF EagerCompletes, Advance, TypeInv, TypeOK, BindingType
<1>8. ControlOK'
    BY AdvanceControl DEF EagerCompletes, NoExec
<1> QED BY <1>7, <1>8 DEF TypeInv

LEMMA ReturnType ==
    ASSUME TypeInv, Return PROVE TypeInv'
<1>1. Input \in 1..Len(plan)
    BY StepFacts DEF Return, Idle
<1>2. CASE MissingRelation(Input)
    BY <1>2, MissingRelationEffect DEF TypeInv
<1>3. CASE /\ status' = "returned" /\ result' = bindings[Input].region.content
           /\ bindings' = [n \in DOMAIN bindings |-> Unbound]
           /\ UNCHANGED <<plan, pc, arg, region, remaining, exec, error, size, completed>>
    <2>1. Unbound \in BindingType
        BY EmptyRegionType DEF Unbound, Bind, BindingType, Forms
    <2>2. bindings[Input].region.content \in SUBSET Nat
        BY <1>1 DEF TypeInv, TypeOK, RegionType
    <2>3. TypeOK'
        BY <1>3, <2>1, <2>2 DEF TypeInv, TypeOK, BindingType
    <2>4. ControlOK'
        BY <1>3 DEF Return, Idle, TypeInv, ControlOK, Step
    <2> QED BY <2>3, <2>4 DEF TypeInv
<1> QED BY <1>2, <1>3 DEF Return

LEMMA TypeInvInit == Init => TypeInv
<1> SUFFICES ASSUME Init PROVE TypeInv
    OBVIOUS
<1>1. IsPlan(plan) /\ Len(plan) \in Nat
    BY PlansAssumption, PlanFacts DEF Init
<1>2. UseCounts(plan) \in [1..Len(plan) -> Nat]
    <2>1. \A b : Cardinality(Reads(plan, b)) \in Nat
        BY <1>1, ReadsFinite, FS_CardinalityType
    <2> QED BY <2>1 DEF UseCounts
<1>3. Unbound \in BindingType
    BY EmptyRegionType DEF Unbound, Bind, BindingType, Forms
<1>4. TypeOK
    BY <1>1, <1>2, <1>3, EmptyRegionType, NoExecType
       DEF Init, TypeOK, BindingType, Errors
<1>5. 1 <= Len(plan) => Len(Step.ins) \in Nat
    <2>1. 1 <= Len(plan) => 1 \in 1..Len(plan)
        BY <1>1
    <2> QED BY <1>1, <2>1, PlanFacts DEF Init, Step
<1>6. ControlOK
    BY <1>5 DEF Init, ControlOK, NoExec
<1> QED BY <1>4, <1>6 DEF TypeInv

LEMMA TypeInvStep == TypeInv /\ [Next]_vars => TypeInv'
<1> SUFFICES ASSUME TypeInv, [Next]_vars PROVE TypeInv'
    OBVIOUS
<1>1. CASE UNCHANGED vars
    BY <1>1 DEF vars, TypeInv, TypeOK, ControlOK, Step, HasInput
<1>2. CASE RegisterFails \/ NoReturn \/ ExternalFailure \/ EagerExhausted
    BY <1>2, FailEffect, MissingRelationEffect
       DEF RegisterFails, NoReturn, ExternalFailure, EagerExhausted, TypeInv, Errors,
           InternalErrors
<1> QED
    BY <1>1, <1>2, SourceScanType, ForceInputType, ForceCompletesType,
       OperatorExhaustedType, CollectDistinctType, InjectedScanType, ShipType,
       RegisterViewType, RegisterSpilledType, RegisterMemTableType, RunLazyFragmentType,
       BeginEagerFragmentType, GuardProbeType, EagerCompletesType, ReturnType
       DEF Next

(* Every state is well typed.                                              *)
THEOREM TypeCorrect == Spec => []TypeOK
<1>1. TypeInv => TypeOK
    BY DEF TypeInv
<1> QED BY TypeInvInit, TypeInvStep, <1>1, PTL DEF Spec
---------------------------------------------------------------------------
(* Use counts *)

LEMMA FutureReadsFinite ==
    ASSUME TypeOK, NEW b
    PROVE  IsFiniteSet(FutureReads(b)) /\ Cardinality(FutureReads(b)) \in Nat
<1>1. FutureReads(b) \subseteq Reads(plan, b) /\ IsFiniteSet(Reads(plan, b))
    BY ReadsFinite DEF FutureReads, TypeOK
<1> QED BY <1>1, FS_Subset, FS_CardinalityType

(* A step or a registration that reads one input removes that read from    *)
(* the future, and no other.                                               *)
ReadsOne ==
    /\ HasInput /\ plan' = plan
    /\ \/ pc' = pc /\ arg' = arg + 1
       \/ Advance /\ Len(Step.ins) = arg + 1

LEMMA ReadOne ==
    ASSUME TypeInv, Running, ReadsOne, NEW b
    PROVE  /\ FutureReads(b)' = FutureReads(b) \ {<<pc, arg + 1>>}
           /\ <<pc, arg + 1>> \in FutureReads(b) <=> b = Input
<1>1. /\ pc \in 1..Len(plan) /\ Len(Step.ins) \in Nat /\ arg \in Nat
      /\ arg + 1 \in 1..Len(Step.ins) /\ Len(plan) \in Nat /\ IsPlan(plan)
    BY StepFacts, PlanFacts DEF ReadsOne, HasInput, TypeInv, TypeOK
<1>2. \A r \in Reads(plan, b) :
         /\ r[1] \in 1..Len(plan) /\ r[2] \in 1..Len(plan[r[1]].ins)
         /\ r[2] \in Nat /\ r = <<r[1], r[2]>>
    <2> TAKE r \in Reads(plan, b)
    <2>1. r[1] \in 1..Len(plan) /\ r[2] \in 1..Len(plan[r[1]].ins) /\ r = <<r[1], r[2]>>
        BY <1>1, ReadsFinite
    <2>2. Len(plan[r[1]].ins) \in Nat
        BY <1>1, <2>1, PlanFacts
    <2> QED BY <2>1, <2>2
<1>3. \A r \in Reads(plan, b) : r[1] = pc => r[2] <= Len(Step.ins)
    BY <1>1, <1>2 DEF Step
<1>4. \A r \in Reads(plan, b) : r = <<pc, arg + 1>> <=> r[1] = pc /\ r[2] = arg + 1
    BY <1>2
<1>5. FutureReads(b)' = {r \in Reads(plan, b) : r[1] > pc' \/ (r[1] = pc' /\ r[2] > arg')}
    BY DEF FutureReads, ReadsOne
<1>6. \A r \in Reads(plan, b) :
         (r[1] > pc' \/ (r[1] = pc' /\ r[2] > arg')) <=>
         (r[1] > pc \/ (r[1] = pc /\ r[2] > arg)) /\ r # <<pc, arg + 1>>
    <2>1. CASE pc' = pc /\ arg' = arg + 1
        BY <1>1, <1>2, <1>4, <2>1
    <2>2. CASE pc' = pc + 1 /\ arg' = 0 /\ Len(Step.ins) = arg + 1
        BY <1>1, <1>2, <1>3, <1>4, <2>2
    <2> QED BY <2>1, <2>2 DEF ReadsOne, Advance
<1>7. FutureReads(b)' = FutureReads(b) \ {<<pc, arg + 1>>}
    BY <1>5, <1>6 DEF FutureReads
<1>8. <<pc, arg + 1>> \in Reads(plan, b) <=> b = Input
    <2>1. Input = plan[pc].ins[arg + 1] /\ arg + 1 \in 1..Len(plan[pc].ins)
        BY <1>1 DEF Input, Step
    <2>2. \A r \in Reads(plan, b) : plan[r[1]].ins[r[2]] = b
        BY DEF Reads
    <2>3. b = Input => <<pc, arg + 1>> \in Reads(plan, b)
        BY <1>1, <2>1, ReadsFinite
    <2> QED BY <2>1, <2>2, <2>3
<1>9. <<pc, arg + 1>> \in FutureReads(b) <=> b = Input
    BY <1>1, <1>8 DEF FutureReads
<1> QED BY <1>7, <1>9

(* A step with no input left to read leaves the future reads alone.        *)
LEMMA ReadNone ==
    ASSUME TypeInv, Running, ~HasInput, plan' = plan, Advance, NEW b
    PROVE  FutureReads(b)' = FutureReads(b)
<1>1. /\ pc \in 1..Len(plan) /\ Len(Step.ins) \in Nat /\ arg \in Nat
      /\ arg >= Len(Step.ins) /\ Len(plan) \in Nat /\ IsPlan(plan)
    BY StepFacts, PlanFacts DEF HasInput, TypeInv, TypeOK
<1>2. \A r \in Reads(plan, b) :
         r[1] \in Nat /\ r[2] \in Nat /\ r[2] > 0 /\ (r[1] = pc => r[2] <= Len(Step.ins))
    <2> TAKE r \in Reads(plan, b)
    <2>1. r[1] \in 1..Len(plan) /\ r[2] \in 1..Len(plan[r[1]].ins)
        BY <1>1, ReadsFinite
    <2>2. Len(plan[r[1]].ins) \in Nat
        BY <1>1, <2>1, PlanFacts
    <2> QED BY <1>1, <2>1, <2>2 DEF Step
<1>3. \A r \in Reads(plan, b) :
         (r[1] > pc + 1 \/ (r[1] = pc + 1 /\ r[2] > 0)) <=>
         (r[1] > pc \/ (r[1] = pc /\ r[2] > arg))
    BY <1>1, <1>2
<1> QED BY <1>3 DEF FutureReads, Advance

(* An injected scan removes all its reads at once.                         *)
LEMMA ReadAll ==
    ASSUME TypeInv, Running, arg = 0, plan' = plan, Advance, NEW b
    PROVE  /\ FutureReads(b)' = FutureReads(b) \ ReadsNow(b)
           /\ ReadsNow(b) \subseteq FutureReads(b)
<1>1. pc \in 1..Len(plan) /\ Len(plan) \in Nat /\ IsPlan(plan)
    BY StepFacts, PlanFacts DEF TypeInv, TypeOK
<1>2. \A r \in Reads(plan, b) : r[1] \in Nat /\ r[2] \in Nat /\ r[2] > 0
    <2> TAKE r \in Reads(plan, b)
    <2>1. r[1] \in 1..Len(plan) /\ r[2] \in 1..Len(plan[r[1]].ins)
        BY <1>1, ReadsFinite
    <2>2. Len(plan[r[1]].ins) \in Nat
        BY <1>1, <2>1, PlanFacts
    <2> QED BY <1>1, <2>1, <2>2
<1>3. \A r \in Reads(plan, b) :
         (r[1] > pc + 1 \/ (r[1] = pc + 1 /\ r[2] > 0)) <=>
         (r[1] > pc \/ (r[1] = pc /\ r[2] > arg)) /\ r[1] # pc
    BY <1>1, <1>2
<1>4. ReadsNow(b) \subseteq FutureReads(b)
    BY <1>2 DEF ReadsNow, FutureReads
<1> QED BY <1>3, <1>4 DEF FutureReads, ReadsNow, Advance

(* Noting the read just made keeps the counts exact.                       *)
LEMMA NoteUseKeepsCounts ==
    ASSUME TypeInv, Running, UseCountsExact, ReadsOne, NoteUse(Input)
    PROVE  UseCountsExact'
<1>1. Input \in 1..Len(plan) /\ DOMAIN remaining = 1..Len(plan)
    BY StepFacts DEF ReadsOne, TypeInv, TypeOK
<1>2. \A b \in 1..Len(plan) : remaining[b] = Cardinality(FutureReads(b))
    BY <1>1 DEF UseCountsExact, Running
<1>3. DOMAIN remaining' = 1..Len(plan)
    BY <1>1 DEF NoteUse
<1>4. SUFFICES ASSUME NEW b \in 1..Len(plan)
               PROVE  remaining'[b] = Cardinality(FutureReads(b)')
    BY <1>3, <1>4 DEF UseCountsExact
<1> DEFINE read == <<pc, arg + 1>>
<1>5. /\ FutureReads(b)' = FutureReads(b) \ {read} /\ (read \in FutureReads(b) <=> b = Input)
      /\ IsFiniteSet(FutureReads(b)) /\ Cardinality(FutureReads(b)) \in Nat
    BY ReadOne, FutureReadsFinite DEF TypeInv
<1>6. CASE b = Input
    <2>1. Cardinality(FutureReads(b)') = Cardinality(FutureReads(b)) - 1
        <3>1. ASSUME NEW S, NEW x \in S, IsFiniteSet(S)
              PROVE  Cardinality(S \ {x}) = Cardinality(S) - 1
            BY <3>1, FS_RemoveElement
        <3>2. read \in FutureReads(b) /\ IsFiniteSet(FutureReads(b))
            BY <1>5, <1>6
        <3> HIDE DEF read
        <3>3. Cardinality(FutureReads(b) \ {read}) = Cardinality(FutureReads(b)) - 1
            BY <3>1, <3>2
        <3> QED BY <1>5, <3>3
    <2>2. Cardinality(FutureReads(b)) # 0
        BY <1>5, <1>6, FS_EmptySet
    <2>3. remaining'[b] = SaturatingSub(remaining[b], 1)
        BY <1>1, <1>6 DEF NoteUse
    <2> QED BY <1>2, <1>5, <2>1, <2>2, <2>3 DEF SaturatingSub
<1>7. CASE b # Input
    <2>1. FutureReads(b)' = FutureReads(b)
        BY <1>5, <1>7
    <2> QED BY <1>1, <1>2, <1>7, <2>1 DEF NoteUse
<1> QED BY <1>6, <1>7

LEMMA UseCountsInit == Init => UseCountsExact
<1> SUFFICES ASSUME Init, NEW b \in DOMAIN remaining
             PROVE  remaining[b] = Cardinality(FutureReads(b))
    BY DEF UseCountsExact
<1>1. IsPlan(plan) /\ pc = 1 /\ arg = 0 /\ Len(plan) \in Nat
    BY PlansAssumption, PlanFacts DEF Init
<1>2. \A r \in Reads(plan, b) : r[1] \in Nat /\ r[1] >= 1 /\ r[2] \in Nat /\ r[2] > 0
    <2> TAKE r \in Reads(plan, b)
    <2>1. r[1] \in 1..Len(plan) /\ r[2] \in 1..Len(plan[r[1]].ins)
        BY <1>1, ReadsFinite
    <2>2. Len(plan[r[1]].ins) \in Nat
        BY <1>1, <2>1, PlanFacts
    <2> QED BY <1>1, <2>1, <2>2
<1>3. FutureReads(b) = Reads(plan, b)
    BY <1>1, <1>2 DEF FutureReads
<1> QED BY <1>3 DEF Init, UseCounts

LEMMA UseCountsStep == TypeInv /\ UseCountsExact /\ [Next]_vars => UseCountsExact'
<1> SUFFICES ASSUME TypeInv, UseCountsExact, [Next]_vars
             PROVE  UseCountsExact'
    OBVIOUS
<1>1. CASE status' # "running"
    BY <1>1 DEF UseCountsExact
<1>2. CASE UNCHANGED <<plan, pc, arg, remaining, status>>
    BY <1>2 DEF UseCountsExact, FutureReads
<1>3. CASE Running /\ ReadsOne /\ NoteUse(Input)
    BY <1>3, NoteUseKeepsCounts
<1>4. CASE Running /\ ~HasInput /\ Advance /\ UNCHANGED <<plan, remaining>>
    <2>1. status = "running"
        BY <1>4 DEF Running
    <2> QED BY <1>4, <2>1, ReadNone DEF UseCountsExact
<1>5. CASE InjectedScan /\ status' = "running"
    <2>1. /\ remaining' = [b \in DOMAIN remaining |->
                 SaturatingSub(remaining[b], Cardinality(ReadsNow(b)))]
          /\ Advance /\ plan' = plan /\ Running /\ arg = 0
        BY <1>5, InjectedScanCases, StepFacts DEF InjectedScan, Idle
    <2> SUFFICES ASSUME NEW b \in DOMAIN remaining
                 PROVE  SaturatingSub(remaining[b], Cardinality(ReadsNow(b)))
                        = Cardinality(FutureReads(b)')
        BY <2>1 DEF UseCountsExact
    <2>2. FutureReads(b)' = FutureReads(b) \ ReadsNow(b) /\ ReadsNow(b) \subseteq FutureReads(b)
        BY <2>1, ReadAll
    <2>3. /\ IsFiniteSet(FutureReads(b)) /\ Cardinality(FutureReads(b)) \in Nat
          /\ IsFiniteSet(ReadsNow(b)) /\ Cardinality(ReadsNow(b)) \in Nat
        BY FutureReadsFinite, ReadsNowFinite DEF TypeInv
    <2>4. FutureReads(b) \cap ReadsNow(b) = ReadsNow(b)
        BY <2>2
    <2>5. Cardinality(FutureReads(b)') = Cardinality(FutureReads(b)) - Cardinality(ReadsNow(b))
        BY <2>2, <2>3, <2>4, FS_Difference
    <2>6. Cardinality(ReadsNow(b)) <= Cardinality(FutureReads(b))
        BY <2>2, <2>3, FS_Subset
    <2>7. remaining[b] = Cardinality(FutureReads(b))
        BY <2>1 DEF UseCountsExact, Running
    <2> QED BY <2>3, <2>5, <2>6, <2>7 DEF SaturatingSub
<1>6. CASE SourceScan \/ RunLazyFragment \/ EagerCompletes
    <2>1. Running /\ Advance /\ UNCHANGED <<plan, remaining>>
        BY <1>6 DEF SourceScan, RunLazyFragment, EagerCompletes, Idle
    <2>2. ~HasInput
        BY <1>6, <2>1, StepFacts
           DEF SourceScan, RunLazyFragment, EagerCompletes, HasInput, TypeInv, ControlOK
    <2> QED BY <1>4, <2>1, <2>2
<1>7. CASE RegisterView \/ RegisterSpilled \/ RegisterMemTable
    <2>1. Running /\ ReadsOne /\ NoteUse(Input)
        BY <1>7 DEF RegisterView, RegisterSpilled, RegisterMemTable, Registered, ReadsOne, Idle
    <2> QED BY <1>3, <2>1
<1>8. CASE (CollectDistinct \/ Ship) /\ status' = "running"
    <2>1. Running /\ NoteUse(Input) /\ Advance /\ plan' = plan
        BY <1>8 DEF CollectDistinct, Ship, MissingRelation, Fail, Idle
    <2>2. HasInput /\ Len(Step.ins) = arg + 1
        <3>1. Step.op \in {"collect", "ship", "return"}
            BY <1>8 DEF CollectDistinct, Ship
        <3>2. arg = 0 /\ Len(Step.ins) = 1 /\ HasInput
            BY <2>1, <3>1, StepFacts
        <3> QED BY <3>2
    <2> QED BY <1>3, <2>1, <2>2 DEF ReadsOne
<1>9. CASE ForceInput \/ ForceCompletes \/ BeginEagerFragment
    BY <1>2, <1>9 DEF ForceInput, ForceMaterialized, ForceCompletes, BeginEagerFragment
<1>10. CASE OperatorExhausted \/ GuardProbe \/ EagerExhausted \/ RegisterFails \/ NoReturn
            \/ ExternalFailure \/ Return
    BY <1>1, <1>2, <1>10
       DEF OperatorExhausted, GuardProbe, EagerExhausted, RegisterFails, NoReturn,
           ExternalFailure, Return, MissingRelation, Fail
<1>11. CASE UNCHANGED vars
    BY <1>2, <1>11 DEF vars
<1>12. CASE (InjectedScan \/ CollectDistinct \/ Ship) /\ status' # "running"
    BY <1>1, <1>12
<1> QED
    BY <1>5, <1>6, <1>7, <1>8, <1>9, <1>10, <1>11, <1>12 DEF Next

(* The use counts are exact at every moment of every query.                *)
THEOREM UseCountsAreExact == Spec => []UseCountsExact
BY TypeInvInit, TypeInvStep, UseCountsInit, UseCountsStep, PTL DEF Spec
---------------------------------------------------------------------------
(* No early release *)

Present(b) == bindings[b].form # "none" \/ (exec.mode = "force" /\ exec.rel = b)

LEMMA NoEarlyReleaseFacts ==
    ASSUME TypeInv, NoEarlyRelease, status = "running", NEW b \in 1..(pc - 1),
           Writes(b), FutureReads(b) # {}
    PROVE  b \in 1..Len(plan) /\ Present(b)
<1>1. b \in 1..Len(plan)
    BY PlanFacts DEF TypeInv, TypeOK
<1> QED BY <1>1 DEF NoEarlyRelease, Present

(* The last reader of a binding, as the counts see it, is the last.        *)
LEMMA LastReaderIsLast ==
    ASSUME TypeInv, Running, UseCountsExact, ReadsOne, LastReader(Input),
           NEW b, b = Input
    PROVE  FutureReads(b)' = {}
<1>1. b \in 1..Len(plan) /\ DOMAIN remaining = 1..Len(plan)
    BY StepFacts DEF ReadsOne, TypeInv, TypeOK
<1> DEFINE read == <<pc, arg + 1>>
<1>2. FutureReads(b)' = FutureReads(b) \ {read} /\ read \in FutureReads(b)
    BY ReadOne
<1>3. IsFiniteSet(FutureReads(b)) /\ Cardinality(FutureReads(b)) \in Nat
    BY FutureReadsFinite DEF TypeInv
<1>4. Cardinality(FutureReads(b)) <= 1
    BY <1>1 DEF UseCountsExact, Running, LastReader, Uses
<1>5. /\ IsFiniteSet(FutureReads(b) \ {read})
      /\ Cardinality(FutureReads(b) \ {read}) = Cardinality(FutureReads(b)) - 1
    BY <1>2, <1>3, FS_RemoveElement
<1>6. Cardinality(FutureReads(b) \ {read}) \in Nat
    BY <1>5, FS_CardinalityType
<1>7. Cardinality(FutureReads(b) \ {read}) = 0
    BY <1>3, <1>4, <1>5, <1>6
<1> QED BY <1>2, <1>5, <1>7, FS_EmptySet

(* A step that ends with its result bound keeps every needed binding.      *)
LEMMA AdvanceKeeps ==
    ASSUME TypeInv, NoEarlyRelease, Running, Advance, plan' = plan,
           exec.mode # "force",
           \A b \in 1..Len(plan) : FutureReads(b)' \subseteq FutureReads(b),
           \A b \in 1..Len(plan) : b # pc /\ bindings[b].form # "none"
                                      => bindings'[b].form # "none",
           Writes(pc) => bindings'[pc].form # "none"
    PROVE  NoEarlyRelease'
<1>1. pc \in 1..Len(plan) /\ pc' = pc + 1 /\ Len(plan) \in Nat
    BY StepFacts, PlanFacts DEF Advance, TypeInv, TypeOK
<1> SUFFICES ASSUME NEW b \in 1..(pc' - 1), Writes(b), FutureReads(b)' # {}
             PROVE  bindings'[b].form # "none"
    BY DEF NoEarlyRelease, Writes
<1>2. b \in 1..Len(plan) /\ (b = pc \/ b \in 1..(pc - 1))
    BY <1>1
<1>3. CASE b = pc
    BY <1>3
<1>4. CASE b \in 1..(pc - 1)
    <2>1. FutureReads(b) # {}
        BY <1>2
    <2>2. Present(b)
        BY <1>4, <2>1, NoEarlyReleaseFacts DEF Running
    <2>3. b # pc
        BY <1>1, <1>4
    <2> QED BY <1>2, <2>2, <2>3 DEF Present
<1> QED BY <1>2, <1>3, <1>4

(* A step that stays where it is keeps every binding still to be read.     *)
LEMMA StayKeeps ==
    ASSUME TypeInv, NoEarlyRelease, status = "running", plan' = plan, pc' = pc,
           \A b \in 1..Len(plan) :
              Present(b) /\ FutureReads(b)' # {} => FutureReads(b) # {} /\ Present(b)',
           \A b \in 1..Len(plan) : FutureReads(b)' # {} => FutureReads(b) # {}
    PROVE  NoEarlyRelease'
<1> SUFFICES ASSUME NEW b \in 1..(pc - 1), Writes(b), FutureReads(b)' # {}
             PROVE  Present(b)'
    BY DEF NoEarlyRelease, Writes, Present
<1>1. b \in 1..Len(plan)
    BY PlanFacts DEF TypeInv, TypeOK
<1>2. FutureReads(b) # {}
    BY <1>1
<1>3. Present(b)
    BY <1>2, NoEarlyReleaseFacts
<1> QED BY <1>1, <1>3

LEMMA RegisterKeeps ==
    ASSUME TypeInv, UseCountsExact, NoEarlyRelease, Idle, ReadsOne, pc' = pc,
           exec' = exec,
           \/ bindings' = bindings
           \/ LastReader(Input) /\ bindings' = [bindings EXCEPT ![Input] = Unbound]
    PROVE  NoEarlyRelease'
<1>1. Running /\ Input \in 1..Len(plan) /\ plan' = plan /\ status = "running"
    BY StepFacts DEF Idle, ReadsOne, Running
<1>2. \A b \in 1..Len(plan) : FutureReads(b)' \subseteq FutureReads(b)
    BY <1>1, ReadOne
<1>3. \A b \in 1..Len(plan) : b = Input /\ LastReader(Input) => FutureReads(b)' = {}
    BY <1>1, LastReaderIsLast
<1>4. \A b \in 1..Len(plan) : bindings'[b] = bindings[b] \/ (b = Input /\ LastReader(Input))
    BY <1>1 DEF TypeInv, TypeOK
<1>5. \A b \in 1..Len(plan) : Present(b) /\ FutureReads(b)' # {} => Present(b)'
    BY <1>3, <1>4 DEF Present
<1> QED BY <1>1, <1>2, <1>5, StayKeeps

(* What the store of a step's result does to the other bindings.           *)
LEMMA StoreKeeps ==
    ASSUME TypeInv, NEW b \in 1..Len(plan), NEW bytes \in Nat, NEW content \in SUBSET Nat,
           StoreRelation(b, bytes, content)
    PROVE  /\ bindings'[b].form # "none"
           /\ \A n \in 1..Len(plan) : n # b /\ bindings[n].form # "none"
                                        => bindings'[n].form # "none"
BY StoreRelationEffect DEF TypeInv

LEMMA NoEarlyReleaseInit == Init => NoEarlyRelease
<1> SUFFICES ASSUME Init, NEW b \in 1..(pc - 1) PROVE FALSE
    BY DEF NoEarlyRelease
<1> QED BY DEF Init

LEMMA NoEarlyReleaseStep ==
    TypeInv /\ UseCountsExact /\ NoEarlyRelease /\ [Next]_vars => NoEarlyRelease'
<1> SUFFICES ASSUME TypeInv, UseCountsExact, NoEarlyRelease, [Next]_vars
             PROVE  NoEarlyRelease'
    OBVIOUS
<1>1. CASE status' # "running"
    BY <1>1 DEF NoEarlyRelease
<1>2. CASE SourceScan \/ EagerCompletes
    <2>1. Running /\ Advance /\ plan' = plan /\ exec.mode # "force"
        BY <1>2 DEF SourceScan, EagerCompletes, Idle
    <2>2. ~HasInput
        BY <1>2, <2>1, StepFacts DEF SourceScan, EagerCompletes, HasInput, TypeInv, ControlOK
    <2>3. pc \in 1..Len(plan) /\ {pc} \in SUBSET Nat /\ exec.region.content \in SUBSET Nat
        <3>1. pc \in 1..Len(plan)
            BY <2>1, StepFacts
        <3>2. pc \in Nat
            BY DEF TypeInv, TypeOK
        <3>3. exec.region \in RegionType
            BY DEF TypeInv, TypeOK
        <3> QED BY <3>1, <3>2, <3>3 DEF RegionType
    <2>4. \E bytes \in Nat, content \in SUBSET Nat : StoreRelation(pc, bytes, content)
        BY <1>2, <2>3, SizesAssumption DEF SourceScan, EagerCompletes
    <2>5. /\ bindings'[pc].form # "none"
          /\ \A b \in 1..Len(plan) : b # pc /\ bindings[b].form # "none"
                                      => bindings'[b].form # "none"
        BY <2>3, <2>4, StoreKeeps
    <2>6. \A b \in 1..Len(plan) : FutureReads(b)' \subseteq FutureReads(b)
        BY <2>1, <2>2, ReadNone
    <2> QED BY <2>1, <2>5, <2>6, AdvanceKeeps
<1>3. CASE InjectedScan /\ status' = "running"
    <2>1. /\ \E bytes \in Nat, content \in SUBSET Nat : StoreRelation(pc, bytes, content)
          /\ Advance /\ plan' = plan /\ Running /\ arg = 0 /\ exec.mode # "force"
        BY <1>3, InjectedScanCases, StepFacts DEF InjectedScan, Idle
    <2>2. pc \in 1..Len(plan)
        BY <2>1, StepFacts
    <2>3. /\ bindings'[pc].form # "none"
          /\ \A b \in 1..Len(plan) : b # pc /\ bindings[b].form # "none"
                                      => bindings'[b].form # "none"
        BY <2>1, <2>2, StoreKeeps
    <2>4. \A b \in 1..Len(plan) : FutureReads(b)' \subseteq FutureReads(b)
        BY <2>1, ReadAll
    <2> QED BY <2>1, <2>3, <2>4, AdvanceKeeps
<1>4. CASE RunLazyFragment
    <2>1. /\ Running /\ Advance /\ plan' = plan /\ ~HasInput /\ exec.mode # "force"
          /\ bindings' = [bindings EXCEPT ![pc] = Bind("lazy", Composed)]
        BY <1>4 DEF RunLazyFragment, Idle
    <2>2. bindings'[pc].form # "none"
        BY <2>1, StepFacts DEF TypeInv, TypeOK, Bind
    <2>3. \A b \in 1..Len(plan) : b # pc => bindings'[b] = bindings[b]
        BY <2>1 DEF TypeInv, TypeOK
    <2>4. \A b \in 1..Len(plan) : FutureReads(b)' \subseteq FutureReads(b)
        BY <2>1, ReadNone
    <2> QED BY <2>1, <2>2, <2>3, <2>4, AdvanceKeeps
<1>5. CASE (CollectDistinct \/ Ship) /\ status' = "running"
    <2>1. /\ Running /\ Advance /\ plan' = plan /\ exec.mode # "force"
          /\ Step.op \in {"collect", "ship", "return"}
        BY <1>5 DEF CollectDistinct, Ship, MissingRelation, Fail, Idle
    <2>2. arg = 0 /\ Len(Step.ins) = 1 /\ HasInput /\ pc \in 1..Len(plan)
        BY <2>1, StepFacts
    <2>3. \A b \in 1..Len(plan) : FutureReads(b)' \subseteq FutureReads(b)
        BY <2>1, <2>2, ReadOne DEF ReadsOne
    <2>4. \A b \in 1..Len(plan) : b # pc => bindings'[b] = bindings[b]
        BY <1>5 DEF CollectDistinct, Ship, MissingRelation, Fail, TypeInv, TypeOK
    <2>5. Writes(pc) => bindings'[pc].form # "none"
        BY <1>5, <2>2 DEF CollectDistinct, Ship, MissingRelation, Fail, TypeInv, TypeOK,
                          Bind, Writes, Step
    <2> QED BY <2>1, <2>3, <2>4, <2>5, AdvanceKeeps
<1>6. CASE RegisterView \/ RegisterSpilled \/ RegisterMemTable
    BY <1>6, RegisterKeeps
       DEF RegisterView, RegisterSpilled, RegisterMemTable, Registered, ReadsOne, Release
<1>7. CASE ForceInput
    <2>1. status = "running" /\ plan' = plan /\ pc' = pc /\ arg' = arg
        BY <1>7 DEF ForceInput, ForceMaterialized, Idle, Running
    <2>2. \A b \in 1..Len(plan) : FutureReads(b)' = FutureReads(b)
        BY <2>1 DEF FutureReads
    <2>3. \A b \in 1..Len(plan) : Present(b) => Present(b)'
        BY <1>7 DEF ForceInput, ForceMaterialized, Idle, Present, TypeInv, TypeOK
    <2> QED BY <2>1, <2>2, <2>3, StayKeeps
<1>8. CASE ForceCompletes
    <2>1. status = "running" /\ plan' = plan /\ pc' = pc /\ arg' = arg
        BY <1>8 DEF ForceCompletes, Running
    <2>2. \A b \in 1..Len(plan) : FutureReads(b)' = FutureReads(b)
        BY <2>1 DEF FutureReads
    <2>3. exec.rel \in 1..Len(plan) /\ exec.region.content \in SUBSET Nat
        BY <1>8 DEF ForceCompletes, TypeInv, TypeOK, ControlOK, RegionType
    <2>4. \E bytes \in Nat, content \in SUBSET Nat : StoreRelation(exec.rel, bytes, content)
        BY <1>8, <2>3, SizesAssumption DEF ForceCompletes
    <2>5. \A b \in 1..Len(plan) : Present(b) => Present(b)'
        BY <2>3, <2>4, StoreKeeps DEF Present
    <2> QED BY <2>1, <2>2, <2>5, StayKeeps
<1>9. CASE (OperatorExhausted \/ GuardProbe \/ BeginEagerFragment) /\ status' = "running"
    <2>1. status = "running" /\ plan' = plan /\ pc' = pc /\ arg' = arg /\ bindings' = bindings
        BY <1>9 DEF OperatorExhausted, GuardProbe, BeginEagerFragment, Fail, Idle, Running
    <2>2. \A b \in 1..Len(plan) : FutureReads(b)' = FutureReads(b)
        BY <2>1 DEF FutureReads
    <2>3. \A b \in 1..Len(plan) : Present(b) => Present(b)'
        BY <1>9, <2>1 DEF OperatorExhausted, GuardProbe, BeginEagerFragment, Fail, Idle,
                          Present, TypeInv, TypeOK
    <2> QED BY <2>1, <2>2, <2>3, StayKeeps
<1>10. CASE EagerExhausted \/ RegisterFails \/ NoReturn \/ ExternalFailure \/ Return
    BY <1>1, <1>10
       DEF EagerExhausted, RegisterFails, NoReturn, ExternalFailure, Return,
           MissingRelation, Fail
<1>11. CASE UNCHANGED vars
    BY <1>11 DEF vars, NoEarlyRelease, FutureReads, Writes
<1> QED
    BY <1>1, <1>2, <1>3, <1>4, <1>5, <1>6, <1>7, <1>8, <1>9, <1>10, <1>11 DEF Next

(* A binding that some later step reads is never gone: not by eviction,    *)
(* not by the merge that took it, not by a force.                          *)
THEOREM NoBindingReleasedEarly == Spec => []NoEarlyRelease
BY TypeInvInit, TypeInvStep, UseCountsInit, UseCountsStep,
   NoEarlyReleaseInit, NoEarlyReleaseStep, PTL DEF Spec
---------------------------------------------------------------------------
(* A well-formed plan finds every binding in a readable form *)

(* Keys are bound exactly where a plan collects them, and an internal      *)
(* error can only have come from a ship.                                   *)
KindsOK ==
    /\ \A b \in 1..Len(plan) :
          bindings[b].form # "none" => (bindings[b].form = "keys" <=> plan[b].op = "collect")
    /\ exec.mode = "force" => plan[exec.rel].op # "collect"
ReadableInv ==
    /\ status = "running" => error = "none"
    /\ WellFormed(plan) => /\ pc <= Len(plan)
                           /\ KindsOK
                           /\ error \in InternalErrors => Step.op = "ship"

LEMMA WellFormedFacts ==
    ASSUME TypeInv, Running, WellFormed(plan)
    PROVE  /\ Step.op # "return" => pc + 1 <= Len(plan)
           /\ \A k \in 1..Len(Step.ins) :
                 /\ Step.ins[k] \in 1..(pc - 1)
                 /\ plan[Step.ins[k]].op \in
                       (IF Step.op = "inject" THEN {"collect"} ELSE RelationOps)
<1>1. pc \in 1..Len(plan) /\ Len(plan) \in Nat
    BY StepFacts, PlanFacts DEF TypeInv, TypeOK
<1>2. Step.op # "return" => pc # Len(plan)
    BY <1>1 DEF WellFormed, Step
<1>3. \A k \in 1..Len(Step.ins) : Step.ins[k] \in 1..Len(plan)
    BY StepFacts
<1>4. \A k \in 1..Len(Step.ins) :
         /\ Step.ins[k] < pc
         /\ plan[Step.ins[k]].op \in
               (IF Step.op = "inject" THEN {"collect"} ELSE RelationOps)
    BY <1>1 DEF WellFormed, Step
<1> QED BY <1>1, <1>2, <1>3, <1>4

(* What an idle step of a well-formed plan finds under the name it reads.  *)
LEMMA InputIsBound ==
    ASSUME TypeInv, NoEarlyRelease, ReadableInv, Idle, WellFormed(plan),
           NEW k \in 1..Len(Step.ins), k > arg
    PROVE  /\ bindings[Step.ins[k]].form # "none"
           /\ bindings[Step.ins[k]].form = "keys" <=> Step.op = "inject"
<1> DEFINE b == Step.ins[k]
<1>1. Running /\ pc \in 1..Len(plan) /\ IsPlan(plan) /\ Len(plan) \in Nat
    BY StepFacts, PlanFacts DEF Idle, TypeInv, TypeOK
<1>2. b \in 1..(pc - 1) /\ plan[b].op \in (IF Step.op = "inject" THEN {"collect"} ELSE RelationOps)
    BY <1>1, WellFormedFacts
<1>3. Writes(b)
    BY <1>2 DEF Writes, RelationOps, MergeOps, LazyOps, EagerOps
<1>4. <<pc, k>> \in FutureReads(b)
    <2>1. <<pc, k>> \in Reads(plan, b)
        BY <1>1, ReadsFinite DEF Step
    <2> QED BY <1>1, <2>1 DEF FutureReads
<1>5. Present(b) /\ b \in 1..Len(plan)
    BY <1>1, <1>2, <1>3, <1>4, NoEarlyReleaseFacts DEF Running
<1>6. bindings[b].form # "none"
    BY <1>5 DEF Present, Idle
<1>7. bindings[b].form = "keys" <=> plan[b].op = "collect"
    BY <1>5, <1>6 DEF ReadableInv, KindsOK
<1>8. plan[b].op = "collect" <=> Step.op = "inject"
    BY <1>2 DEF RelationOps, MergeOps, LazyOps, EagerOps
<1> QED BY <1>6, <1>7, <1>8

LEMMA InputReadable ==
    ASSUME TypeInv, NoEarlyRelease, ReadableInv, Idle, WellFormed(plan), HasInput,
           Step.op # "inject"
    PROVE  bindings[Input].form \in {"materialized", "lazy", "spilled"}
<1>1. arg + 1 \in 1..Len(Step.ins) /\ arg + 1 > arg /\ Input \in 1..Len(plan)
    BY StepFacts DEF HasInput, Idle
<1>2. bindings[Input].form # "none" /\ bindings[Input].form # "keys"
    BY <1>1, InputIsBound DEF Input
<1>3. bindings[Input].form \in Forms
    BY <1>1 DEF TypeInv, TypeOK
<1> QED BY <1>2, <1>3 DEF Forms

(* A store keeps the kinds, wherever it puts its relation.                 *)
LEMMA StoreKinds ==
    ASSUME TypeInv, KindsOK, NEW b \in 1..Len(plan), plan[b].op # "collect",
           NEW bytes \in Nat, NEW content \in SUBSET Nat,
           StoreRelation(b, bytes, content)
    PROVE  \A n \in 1..Len(plan) : bindings'[n].form # "none" =>
              (bindings'[n].form = "keys" <=> plan[n].op = "collect")
<1>1. bindings'[b].form \in {"materialized", "spilled"}
    BY StoreRelationEffect DEF TypeInv
<1>2. \A n \in 1..Len(plan) : n # b =>
         \/ bindings'[n].form = bindings[n].form
         \/ bindings[n].form = "materialized" /\ bindings'[n].form = "spilled"
    BY StoreRelationEffect DEF TypeInv
<1> QED BY <1>1, <1>2 DEF KindsOK

LEMMA ReadableInit == Init => ReadableInv
<1> SUFFICES ASSUME Init, WellFormed(plan)
             PROVE  pc <= Len(plan) /\ KindsOK /\ error \notin InternalErrors
    BY DEF ReadableInv, Init
<1>1. Len(plan) \in Nat /\ Len(plan) # 0
    <2>1. IsPlan(plan)
        BY PlansAssumption DEF Init
    <2> QED BY <2>1, PlanFacts, EmptySeq DEF WellFormed, IsPlan
<1> QED BY <1>1 DEF Init, KindsOK, Unbound, Bind, NoExec, InternalErrors

(* The three shapes of a step: one that fails, one that goes on to the     *)
(* next step of the plan, and one that stays in its step.                  *)
LEMMA ReadableFail ==
    ASSUME TypeInv, ReadableInv, NEW e, Fail(e),
           WellFormed(plan) /\ e \in InternalErrors => Step.op = "ship"
    PROVE  ReadableInv'
<1>1. WellFormed(plan)' = WellFormed(plan) /\ Step' = Step
    BY DEF Fail, WellFormed, Step
<1>2. KindsOK'
    BY DEF Fail, KindsOK, Unbound, Bind, NoExec, TypeInv, TypeOK
<1> QED BY <1>1, <1>2 DEF ReadableInv, Fail

LEMMA ReadableAdvance ==
    ASSUME TypeInv, ReadableInv, Running, Advance, Step.op # "return",
           UNCHANGED <<plan, status, error>>, exec'.mode = "idle",
           WellFormed(plan) => \A b \in 1..Len(plan) : bindings'[b].form # "none" =>
              (bindings'[b].form = "keys" <=> plan[b].op = "collect")
    PROVE  ReadableInv'
<1>1. WellFormed(plan)' = WellFormed(plan)
    BY DEF WellFormed
<1>2. WellFormed(plan) => pc' <= Len(plan)
    BY WellFormedFacts DEF Advance
<1>3. WellFormed(plan) => KindsOK'
    BY DEF KindsOK
<1>4. error' \notin InternalErrors
    BY DEF ReadableInv, Running, InternalErrors
<1> QED BY <1>1, <1>2, <1>3, <1>4 DEF ReadableInv, Running

LEMMA ReadableStay ==
    ASSUME TypeInv, ReadableInv, UNCHANGED <<plan, pc, error>>,
           status' = "running" => status = "running",
           WellFormed(plan) => KindsOK'
    PROVE  ReadableInv'
<1>1. WellFormed(plan)' = WellFormed(plan) /\ Step' = Step
    BY DEF WellFormed, Step
<1> QED BY <1>1 DEF ReadableInv

LEMMA ReadableStep ==
    TypeInv /\ NoEarlyRelease /\ ReadableInv /\ [Next]_vars => ReadableInv'
<1> SUFFICES ASSUME TypeInv, NoEarlyRelease, ReadableInv, [Next]_vars
             PROVE  ReadableInv'
    OBVIOUS
<1>1. CASE SourceScan
    <2>1. Running /\ Advance /\ Step.op = "scan" /\ pc \in 1..Len(plan)
          /\ UNCHANGED <<plan, status, error>> /\ exec'.mode = "idle"
        BY <1>1, StepFacts DEF SourceScan, Idle
    <2>2. \E bytes \in Nat : StoreRelation(pc, bytes, {pc})
        BY <1>1, SizesAssumption DEF SourceScan
    <2>3. {pc} \in SUBSET Nat /\ plan[pc].op # "collect"
        BY <2>1 DEF Step
    <2> QED BY <2>1, <2>2, <2>3, StoreKinds, ReadableAdvance DEF ReadableInv
<1>2. CASE EagerCompletes
    <2>1. Running /\ Advance /\ Step.op \in EagerOps /\ pc \in 1..Len(plan)
          /\ UNCHANGED <<plan, status, error>> /\ exec'.mode = "idle"
        BY <1>2, StepFacts DEF EagerCompletes, TypeInv, ControlOK, NoExec
    <2>2. \E bytes \in Nat : StoreRelation(pc, bytes, exec.region.content)
        BY <1>2, SizesAssumption DEF EagerCompletes
    <2>3. exec.region.content \in SUBSET Nat /\ plan[pc].op # "collect" /\ Step.op # "return"
        BY <2>1 DEF Step, EagerOps, TypeInv, TypeOK, RegionType
    <2> QED BY <2>1, <2>2, <2>3, StoreKinds, ReadableAdvance DEF ReadableInv
<1>3. CASE InjectedScan
    <2>1. Running /\ Step.op = "inject" /\ arg = 0 /\ pc \in 1..Len(plan) /\ Idle
        BY <1>3, StepFacts DEF InjectedScan, Idle
    <2>2. CASE status' = "failed" /\ \E b \in KeysRead : bindings[b].form # "keys"
        <3>1. ~WellFormed(plan)
            <4> SUFFICES ASSUME WellFormed(plan) PROVE FALSE
                OBVIOUS
            <4>1. PICK k \in 1..Len(Step.ins) : bindings[Step.ins[k]].form # "keys"
                BY <2>2 DEF KeysRead
            <4>2. k > arg
                BY <2>1
            <4> QED BY <2>1, <4>1, <4>2, InputIsBound
        <3>2. \E e : Fail(e)
            BY <1>3, <2>1, <2>2 DEF InjectedScan, Running
        <3> QED BY <3>1, <3>2, ReadableFail
    <2>3. CASE /\ \E bytes \in Nat, content \in SUBSET Nat : StoreRelation(pc, bytes, content)
               /\ Advance
               /\ UNCHANGED <<plan, exec, status, error, result, completed>>
        <3>1. plan[pc].op # "collect" /\ Step.op # "return" /\ exec'.mode = "idle"
            BY <2>1, <2>3 DEF Step, Idle
        <3> QED BY <2>1, <2>3, <3>1, StoreKinds, ReadableAdvance DEF ReadableInv
    <2> QED BY <1>3, <2>2, <2>3, InjectedScanCases
<1>4. CASE RunLazyFragment
    <2>1. /\ Running /\ Advance /\ Step.op \in LazyOps /\ pc \in 1..Len(plan)
          /\ UNCHANGED <<plan, status, error>> /\ exec'.mode = "idle"
          /\ bindings' = [bindings EXCEPT ![pc] = Bind("lazy", Composed)]
        BY <1>4, StepFacts DEF RunLazyFragment, Idle
    <2>2. plan[pc].op # "collect" /\ Step.op # "return"
        BY <2>1 DEF Step, LazyOps
    <2>3. KindsOK => \A b \in 1..Len(plan) : bindings'[b].form # "none" =>
                        (bindings'[b].form = "keys" <=> plan[b].op = "collect")
        BY <2>1, <2>2 DEF KindsOK, Bind, TypeInv, TypeOK
    <2> QED BY <2>1, <2>2, <2>3, ReadableAdvance DEF ReadableInv
<1>5. CASE CollectDistinct
    <2>1. Idle /\ Running /\ Step.op = "collect" /\ ~Lazy(Input) /\ HasInput
          /\ pc \in 1..Len(plan)
        BY <1>5, StepFacts DEF CollectDistinct, Idle
    <2>2. CASE MissingRelation(Input) /\ ~Relation(Input)
        <3>1. ~WellFormed(plan)
            BY <2>1, <2>2, InputReadable DEF Relation, Lazy
        <3> QED BY <2>2, <3>1, ReadableFail DEF MissingRelation
    <2>3. CASE /\ bindings' = [bindings EXCEPT ![pc] =
                    Bind("keys", Stored(0, bindings[Input].region.content \union {pc}))]
               /\ Advance
               /\ UNCHANGED <<plan, exec, status, error, result, size, completed>>
        <3>1. plan[pc].op = "collect" /\ Step.op # "return" /\ exec'.mode = "idle"
            BY <2>1, <2>3 DEF Step, Idle
        <3>2. KindsOK => \A b \in 1..Len(plan) : bindings'[b].form # "none" =>
                            (bindings'[b].form = "keys" <=> plan[b].op = "collect")
            BY <2>3, <3>1 DEF KindsOK, Bind, TypeInv, TypeOK
        <3> QED BY <2>1, <2>3, <3>1, <3>2, ReadableAdvance DEF ReadableInv
    <2> QED BY <1>5, <2>2, <2>3 DEF CollectDistinct
<1>6. CASE Ship
    <2>1. Running /\ Step.op = "ship" /\ exec.mode = "idle"
        BY <1>6 DEF Ship, Idle
    <2>2. CASE MissingRelation(Input)
        BY <2>1, <2>2, ReadableFail DEF MissingRelation
    <2>3. CASE Advance /\ UNCHANGED <<plan, bindings, exec, status, error>>
        <3>1. KindsOK => \A b \in 1..Len(plan) : bindings'[b].form # "none" =>
                            (bindings'[b].form = "keys" <=> plan[b].op = "collect")
            BY <2>3 DEF KindsOK
        <3> QED BY <2>1, <2>3, <3>1, ReadableAdvance DEF ReadableInv
    <2> QED BY <1>6, <2>2, <2>3 DEF Ship
<1>7. CASE Return
    <2>1. Idle /\ Step.op = "return" /\ ~Lazy(Input) /\ HasInput
        BY <1>7, StepFacts DEF Return, Idle
    <2>2. CASE MissingRelation(Input) /\ ~Relation(Input)
        <3>1. ~WellFormed(plan)
            BY <2>1, <2>2, InputReadable DEF Relation, Lazy
        <3> QED BY <2>2, <3>1, ReadableFail DEF MissingRelation
    <2>3. CASE /\ status' = "returned"
               /\ bindings' = [n \in DOMAIN bindings |-> Unbound]
               /\ UNCHANGED <<plan, pc, exec, error>>
        <3>1. KindsOK'
            BY <2>1, <2>3 DEF KindsOK, Unbound, Bind, Idle, TypeInv, TypeOK
        <3> QED BY <2>3, <3>1, ReadableStay
    <2> QED BY <1>7, <2>2, <2>3 DEF Return
<1>8. CASE RegisterFails
    <2>1. Idle /\ HasInput /\ Step.op \in MergeOps /\ MissingRelation(Input)
          /\ bindings[Input].form \in {"none", "keys"}
        BY <1>8 DEF RegisterFails
    <2>2. Step.op # "inject"
        BY <2>1 DEF MergeOps, LazyOps, EagerOps
    <2>3. ~WellFormed(plan)
        BY <2>1, <2>2, InputReadable
    <2> QED BY <2>1, <2>3, ReadableFail DEF MissingRelation
<1>9. CASE NoReturn
    <2>1. Fail("no_return") /\ ~WellFormed(plan)
        <3>1. pc \in 1..(Len(plan) + 1) /\ Len(plan) \in Nat
            BY PlanFacts DEF TypeInv, TypeOK
        <3> QED BY <1>9, <3>1 DEF NoReturn, ReadableInv
    <2> QED BY <2>1, ReadableFail
<1>10. CASE EagerExhausted \/ ExternalFailure
    <2>1. \E e \in {"exhausted", "external"} : Fail(e)
        BY <1>10 DEF EagerExhausted, ExternalFailure
    <2> QED BY <2>1, ReadableFail DEF InternalErrors
<1>11. CASE RegisterView \/ RegisterSpilled \/ RegisterMemTable
    <2>1. /\ UNCHANGED <<plan, pc, exec, status, error>>
          /\ bindings' = bindings \/ bindings' = [bindings EXCEPT ![Input] = Unbound]
        BY <1>11 DEF RegisterView, RegisterSpilled, RegisterMemTable, Release
    <2>2. \A b \in 1..Len(plan) : bindings'[b] = bindings[b] \/ bindings'[b].form = "none"
        BY <2>1 DEF Unbound, Bind, TypeInv, TypeOK
    <2>3. KindsOK => KindsOK'
        BY <2>1, <2>2 DEF KindsOK
    <2> QED BY <2>1, <2>3, ReadableStay DEF ReadableInv
<1>12. CASE ForceInput
    <2>1. /\ UNCHANGED <<plan, pc, status, error>> /\ Lazy(Input) /\ Input \in 1..Len(plan)
          /\ bindings' = [bindings EXCEPT ![Input] = Unbound]
          /\ exec'.rel = Input
        BY <1>12, StepFacts DEF ForceInput, ForceMaterialized, Idle
    <2>2. KindsOK => KindsOK'
        BY <2>1 DEF KindsOK, Lazy, Unbound, Bind, TypeInv, TypeOK
    <2> QED BY <2>1, <2>2, ReadableStay DEF ReadableInv
<1>13. CASE ForceCompletes
    <2>1. /\ UNCHANGED <<plan, pc, status, error>> /\ exec'.mode = "idle"
          /\ exec.mode = "force" /\ exec.rel \in 1..Len(plan)
          /\ exec.region.content \in SUBSET Nat
        BY <1>13 DEF ForceCompletes, NoExec, TypeInv, TypeOK, ControlOK, RegionType
    <2>2. \E bytes \in Nat : StoreRelation(exec.rel, bytes, exec.region.content)
        BY <1>13, SizesAssumption DEF ForceCompletes
    <2>3. KindsOK => \A n \in 1..Len(plan) : bindings'[n].form # "none" =>
                        (bindings'[n].form = "keys" <=> plan[n].op = "collect")
        BY <2>1, <2>2, StoreKinds DEF KindsOK
    <2>4. KindsOK => KindsOK'
        BY <2>1, <2>3 DEF KindsOK
    <2> QED BY <2>1, <2>4, ReadableStay DEF ReadableInv
<1>14. CASE OperatorExhausted
    <2>1. CASE Fail("exhausted")
        BY <2>1, ReadableFail DEF InternalErrors
    <2>2. CASE exec' = [exec EXCEPT !.spillable = TRUE]
               /\ UNCHANGED <<plan, pc, bindings, status, error>>
        <3>1. KindsOK => KindsOK'
            BY <2>2 DEF KindsOK, TypeInv, TypeOK
        <3> QED BY <2>2, <3>1, ReadableStay DEF ReadableInv
    <2> QED BY <1>14, <2>1, <2>2 DEF OperatorExhausted
<1>15. CASE GuardProbe
    <2>1. CASE Fail("cardinality")
        BY <2>1, ReadableFail DEF InternalErrors
    <2>2. CASE exec' = [exec EXCEPT !.mode = "guard"]
               /\ UNCHANGED <<plan, pc, bindings, status, error>>
        <3>1. KindsOK => KindsOK'
            BY <2>2 DEF KindsOK, TypeInv, TypeOK
        <3> QED BY <2>2, <3>1, ReadableStay DEF ReadableInv
    <2> QED BY <1>15, <2>1, <2>2 DEF GuardProbe
<1>16. CASE BeginEagerFragment
    <2>1. UNCHANGED <<plan, pc, bindings, status, error>> /\ exec'.mode # "force"
        BY <1>16 DEF BeginEagerFragment
    <2>2. KindsOK => KindsOK'
        BY <2>1 DEF KindsOK
    <2> QED BY <2>1, <2>2, ReadableStay DEF ReadableInv
<1>17. CASE UNCHANGED vars
    BY <1>17 DEF vars, ReadableInv, WellFormed, KindsOK, Step
<1> QED
    BY <1>1, <1>2, <1>3, <1>4, <1>5, <1>6, <1>7, <1>8, <1>9, <1>10, <1>11, <1>12, <1>13,
       <1>14, <1>15, <1>16, <1>17 DEF Next

(* However a well-formed plan's bindings were composed, shared, evicted    *)
(* and released, no step but a ship finds one missing or unreadable.       *)
THEOREM ReadableExceptByShipHolds == Spec => []ReadableExceptByShip
<1>1. ReadableInv => ReadableExceptByShip
    BY DEF ReadableInv, ReadableExceptByShip
<1> QED BY TypeInvInit, TypeInvStep, UseCountsInit, UseCountsStep, NoEarlyReleaseInit,
           NoEarlyReleaseStep, ReadableInit, ReadableStep, <1>1, PTL DEF Spec
===========================================================================
