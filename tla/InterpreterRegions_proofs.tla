---------------------- MODULE InterpreterRegions_proofs ----------------------
(***************************************************************************)
(* Lazy regions, memory and results of the interpreter, for every set of   *)
(* plans, every budget and every size of relation: a fragment runs for one *)
(* binding, what the last merge reads is released, a query returns what    *)
(* evaluating every step eagerly would return, what is resident fits the   *)
(* budget, and a region is priced by every stored relation that feeds it.  *)
(***************************************************************************)
EXTENDS Interpreter_proofs, WellFoundedInduction

---------------------------------------------------------------------------
(* A fragment is composed in one place, and run for one binding *)

(* Where a fragment composed and not yet run may be.                       *)
Pending(f) ==
    \/ \E b \in Lazies : f \in bindings[b].region.steps
    \/ f \in region.steps
    \/ f \in exec.region.steps

(* No fragment is in two of those places.                                  *)
Apart ==
    /\ \A a, b \in Lazies :
          a # b => bindings[a].region.steps \intersect bindings[b].region.steps = {}
    /\ \A b \in Lazies : bindings[b].region.steps \intersect region.steps = {}
    /\ \A b \in Lazies : bindings[b].region.steps \intersect exec.region.steps = {}
    /\ exec.mode = "force" => region.steps \intersect exec.region.steps = {}

(* What is pending is of earlier steps, except what an eager step runs;    *)
(* none of it has run, except what a guard has counted and is collecting;  *)
(* and what has not run is pending.                                        *)
PendingOK ==
    /\ \A b \in Lazies : b < pc
    /\ \A b \in Lazies : \A f \in bindings[b].region.steps : f < pc
    /\ \A f \in region.steps : f < pc
    /\ arg = 0 => region = EmptyRegion
    /\ exec.mode = "idle" => exec = NoExec
    /\ exec.mode = "force" => exec.rel \notin Lazies
    /\ exec.mode = "force" => \A f \in exec.region.steps : f < pc
    /\ exec.mode \in {"probe", "guard", "dedup"} => exec.region = Composed
    /\ exec.mode \in {"probe", "guard"} => Step.op = "guard"
    /\ \A f \in DOMAIN completed : Pending(f) \/ f >= pc =>
          \/ completed[f] = <<>>
          \/ exec.mode = "guard" /\ f \in exec.region.steps /\ completed[f] = <<pc>>
    /\ \A f \in DOMAIN completed : Unrun(f) => Pending(f)

OnceInv ==
    /\ Apart /\ FragmentRunsForOneBinding
    /\ IF status = "running" THEN PendingOK ELSE Lazies = {}

LEMMA OnceIsComposedInOnePlace == OnceInv => ComposedInOnePlace
BY DEF OnceInv, PendingOK, Pending, Apart, ComposedInOnePlace

LEMMA PendingFacts ==
    ASSUME TypeInv, OnceInv, Running
    PROVE  /\ PendingOK /\ Apart /\ FragmentRunsForOneBinding
           /\ pc \in Nat /\ pc \in 1..Len(plan) /\ pc + 1 \in Nat /\ arg \in Nat
           /\ exec.rel \in Nat /\ Step = plan[pc]
           /\ DOMAIN completed = 1..Len(plan) /\ DOMAIN completed \subseteq Nat
           /\ DOMAIN bindings = 1..Len(plan)
           /\ \A b \in Lazies : b \in Nat /\ b \in 1..Len(plan)
           /\ \A b \in Lazies : \A f \in bindings[b].region.steps : f \in Nat
           /\ \A f \in region.steps : f \in Nat
           /\ \A f \in exec.region.steps : f \in Nat
<1>1. PendingOK /\ Apart /\ FragmentRunsForOneBinding
    BY DEF OnceInv, Running
<1>2. Len(plan) \in Nat /\ pc \in 1..Len(plan) /\ arg \in Nat
    BY StepFacts, PlanFacts DEF TypeInv, TypeOK
<1>3. /\ exec.rel \in Nat /\ region.steps \subseteq Nat /\ exec.region.steps \subseteq Nat
      /\ DOMAIN completed = 1..Len(plan) /\ DOMAIN bindings = 1..Len(plan)
      /\ \A b \in 1..Len(plan) : bindings[b].region.steps \subseteq Nat
    BY DEF TypeInv, TypeOK, RegionType
<1>4. \A b \in Lazies : b \in Nat /\ b \in 1..Len(plan)
    BY <1>2, <1>3 DEF Lazies
<1>5. \A b \in Lazies : \A f \in bindings[b].region.steps : f \in Nat
    BY <1>3, <1>4
<1>6. pc + 1 \in Nat /\ DOMAIN completed \subseteq Nat /\ pc \in Nat
    BY <1>2, <1>3
<1> QED BY <1>1, <1>2, <1>3, <1>4, <1>5, <1>6 DEF Step

(* A query that ends has no binding left.                                  *)
LEMMA EndHasNoBinding ==
    ASSUME TypeInv, [Next]_vars, status = "running", status' # "running"
    PROVE  /\ \A b \in 1..Len(plan) : bindings'[b] = Unbound
           /\ UNCHANGED <<plan, pc, size, completed>>
<1>1. DOMAIN bindings = 1..Len(plan)
    BY DEF TypeInv, TypeOK
<1>2. CASE \E e : Fail(e)
    BY <1>1, <1>2 DEF Fail
<1>3. CASE Return
    BY <1>1, <1>3 DEF Return, MissingRelation, Fail
<1>4. CASE UNCHANGED vars
    BY <1>4 DEF vars
<1>5. CASE RegisterFails \/ NoReturn \/ ExternalFailure \/ EagerExhausted
    BY <1>2, <1>5 DEF RegisterFails, NoReturn, ExternalFailure, EagerExhausted, MissingRelation
<1>6. CASE CollectDistinct \/ InjectedScan \/ Ship \/ GuardProbe \/ OperatorExhausted
    BY <1>2, <1>6 DEF CollectDistinct, InjectedScan, Ship, GuardProbe, OperatorExhausted,
                      MissingRelation
<1>7. CASE SourceScan \/ ForceInput \/ ForceCompletes \/ RegisterView \/ RegisterSpilled
           \/ RegisterMemTable \/ RunLazyFragment \/ BeginEagerFragment \/ EagerCompletes
    BY <1>7 DEF SourceScan, ForceInput, ForceMaterialized, ForceCompletes, RegisterView,
                RegisterSpilled, RegisterMemTable, RunLazyFragment, BeginEagerFragment,
                EagerCompletes
<1> QED BY <1>3, <1>4, <1>5, <1>6, <1>7 DEF Next

(* Nothing happens after the end.                                          *)
LEMMA NothingAfterEnd ==
    ASSUME TypeInv, [Next]_vars, status # "running"
    PROVE  UNCHANGED vars
BY DEF Next, SourceScan, ForceInput, ForceCompletes, OperatorExhausted, CollectDistinct,
       InjectedScan, Ship, RegisterView, RegisterSpilled, RegisterMemTable, RegisterFails,
       RunLazyFragment, BeginEagerFragment, GuardProbe, EagerCompletes, EagerExhausted,
       Return, NoReturn, ExternalFailure, Idle, Running

LEMMA OnceInit == Init => OnceInv
<1> SUFFICES ASSUME Init PROVE OnceInv
    OBVIOUS
<1>1. Lazies = {}
    BY DEF Init, Lazies, Lazy, Unbound, Bind
<1>2. region = EmptyRegion /\ region.steps = {} /\ exec = NoExec /\ exec.region.steps = {}
      /\ exec.mode = "idle" /\ pc = 1
    BY DEF Init, EmptyRegion, NoExec
<1>3. DOMAIN completed \subseteq 1..Len(plan) /\ \A f \in DOMAIN completed : completed[f] = <<>>
    BY DEF Init
<1>4. \A f \in DOMAIN completed : ~(f < pc)
    <2>1. Len(plan) \in Nat
        BY PlansAssumption, PlanFacts DEF Init
    <2> QED BY <1>2, <1>3, <2>1
<1>5. FragmentRunsForOneBinding
    <2>1. Len(<<>>) = 0
        OBVIOUS
    <2> QED BY <1>3, <2>1 DEF FragmentRunsForOneBinding
<1>6. PendingOK
    BY <1>1, <1>2, <1>3, <1>4 DEF PendingOK, Unrun
<1>7. Apart
    BY <1>1, <1>2 DEF Apart
<1> QED BY <1>1, <1>5, <1>6, <1>7 DEF OnceInv

(* A store of a binding that is not lazy leaves the lazy ones as they are. *)
LEMMA StoreLazies ==
    ASSUME TypeInv, NEW b \in 1..Len(plan), NEW bytes \in Nat, NEW content \in SUBSET Nat,
           StoreRelation(b, bytes, content), plan' = plan, b \notin Lazies
    PROVE  Lazies' = Lazies /\ \A n \in Lazies : bindings'[n].region = bindings[n].region
<1>1. /\ bindings'[b].form \in {"materialized", "spilled"}
      /\ \A n \in 1..Len(plan) : n # b =>
            /\ bindings'[n].region = bindings[n].region
            /\ \/ bindings'[n].form = bindings[n].form
               \/ bindings[n].form = "materialized" /\ bindings'[n].form = "spilled"
      /\ DOMAIN bindings' = 1..Len(plan) /\ DOMAIN bindings = 1..Len(plan)
    BY StoreRelationEffect DEF TypeInv, TypeOK
<1> QED BY <1>1 DEF Lazies, Lazy

LEMMA AppendOne ==
    ASSUME NEW a \in Nat, NEW b \in Nat
    PROVE  Append(<<>>, b) = <<b>> /\ Append(<<a>>, b) = <<a, b>>
<1>1. Append(<<>>, b) = <<b>>
    OBVIOUS
<1>2. Append(<<a>>, b) = <<a, b>>
    <2>1. <<a>> \in Seq(Nat) /\ Len(<<a>>) = 1 /\ <<a>>[1] = a
        OBVIOUS
    <2>2. <<a, b>> \in Seq(Nat) /\ Len(<<a, b>>) = 2 /\ <<a, b>>[1] = a /\ <<a, b>>[2] = b
        OBVIOUS
    <2>3. /\ Append(<<a>>, b) \in Seq(Nat) /\ Len(Append(<<a>>, b)) = 2
          /\ Append(<<a>>, b)[1] = a /\ Append(<<a>>, b)[2] = b
        BY <2>1, AppendProperties
    <2>4. \A i \in 1..2 : Append(<<a>>, b)[i] = <<a, b>>[i]
        BY <2>2, <2>3
    <2> QED BY <2>2, <2>3, <2>4, SeqEqual
<1> QED BY <1>1, <1>2

(* An execution that completed: each of its fragments has run once more.   *)
LEMMA NotedRuns ==
    ASSUME TypeInv, OnceInv, Running, NoteCompleted
    PROVE  /\ DOMAIN completed' = DOMAIN completed
           /\ \A f \in DOMAIN completed :
                 f \notin exec.region.steps => completed'[f] = completed[f]
           /\ \A f \in DOMAIN completed : f \in exec.region.steps =>
                 \/ completed'[f] = <<exec.rel>>
                 \/ exec.mode = "guard" /\ completed'[f] = <<pc, exec.rel>>
<1>1. PendingOK /\ DOMAIN completed' = DOMAIN completed
    BY PendingFacts DEF NoteCompleted
<1>2. ASSUME NEW f \in DOMAIN completed, f \in exec.region.steps
      PROVE  \/ completed'[f] = <<exec.rel>>
             \/ exec.mode = "guard" /\ completed'[f] = <<pc, exec.rel>>
    <2>1. completed'[f] = Append(completed[f], exec.rel)
        BY <1>2 DEF NoteCompleted
    <2>2. completed[f] = <<>> \/ (exec.mode = "guard" /\ completed[f] = <<pc>>)
        BY <1>1, <1>2 DEF PendingOK, Pending
    <2>3. Append(<<>>, exec.rel) = <<exec.rel>> /\ Append(<<pc>>, exec.rel) = <<pc, exec.rel>>
        <3>1. exec.rel \in Nat /\ pc \in Nat
            BY PendingFacts
        <3> QED BY <3>1, AppendOne
    <2> QED BY <2>1, <2>2, <2>3
<1>3. \A f \in DOMAIN completed : f \notin exec.region.steps => completed'[f] = completed[f]
    BY DEF NoteCompleted
<1> QED BY <1>1, <1>2, <1>3

LEMMA RunsOfOne ==
    ASSUME NEW a PROVE <<a>> # <<>> /\ <<a, a>> # <<>> /\ Len(<<a>>) = 1 /\ Len(<<>>) = 0
OBVIOUS

(* The steps that leave the fragments where they are.                      *)
LEMMA OnceKeep ==
    ASSUME TypeInv, OnceInv, Running, status' = "running", plan' = plan,
           Lazies' = Lazies, \A n \in Lazies : bindings'[n].region = bindings[n].region,
           completed' = completed, exec' = NoExec, exec.mode = "idle",
           \/ Advance /\ arg = 0 /\ Step.op \notin LazyOps
           \/ pc' = pc /\ region'.steps = region.steps /\ arg' # 0
    PROVE  OnceInv'
<1>1. /\ PendingOK /\ Apart /\ FragmentRunsForOneBinding /\ pc \in Nat /\ exec = NoExec
      /\ DOMAIN completed \subseteq Nat /\ Step = plan[pc]
    BY PendingFacts DEF PendingOK
<1>2. exec.region.steps = {} /\ exec'.region.steps = {} /\ exec'.mode = "idle"
    BY <1>1 DEF NoExec, EmptyRegion
<1>3. region'.steps = region.steps /\ (arg' = 0 => region' = EmptyRegion)
    BY <1>1 DEF Advance, PendingOK
<1>4. \/ pc' = pc
      \/ pc' = pc + 1 /\ plan[pc].op \notin LazyOps
    BY <1>1 DEF Advance
<1>5. Apart'
    BY <1>1, <1>2, <1>3 DEF Apart
<1>6. \A f : Pending(f)' <=> Pending(f)
    BY <1>2, <1>3 DEF Pending
<1>7. PendingOK'
    <2>1. \A b \in Lazies' : b < pc' /\ \A f \in bindings'[b].region.steps : f < pc'
        <3> SUFFICES ASSUME NEW b \in Lazies
                     PROVE  b < pc' /\ \A f \in bindings[b].region.steps : f < pc'
            OBVIOUS
        <3>1. b \in Nat /\ b < pc
            BY <1>1, PendingFacts DEF PendingOK
        <3>2. \A f \in bindings[b].region.steps : f \in Nat /\ f < pc
            BY <1>1, PendingFacts DEF PendingOK
        <3> QED BY <1>1, <1>4, <3>1, <3>2
    <2>2. \A f \in region'.steps : f < pc'
        <3>1. \A f \in region.steps : f \in Nat /\ f < pc
            BY <1>1, PendingFacts DEF PendingOK
        <3> QED BY <1>1, <1>3, <1>4, <3>1
    <2>3. \A f \in DOMAIN completed' : Pending(f)' \/ f >= pc' => completed'[f] = <<>>
        <3> SUFFICES ASSUME NEW f \in DOMAIN completed, Pending(f) \/ f >= pc'
                     PROVE  completed[f] = <<>>
            BY <1>6
        <3>1. f \in Nat
            BY <1>1
        <3>2. Pending(f) \/ f >= pc
            BY <1>1, <1>4, <3>1
        <3> QED BY <1>1, <1>2, <3>2 DEF PendingOK
    <2>4. \A f \in DOMAIN completed' : Unrun(f)' => Pending(f)'
        <3> SUFFICES ASSUME NEW f \in DOMAIN completed, Unrun(f)'
                     PROVE  Pending(f)
            BY <1>6
        <3>1. f \in Nat /\ f < pc' /\ plan[f].op \in LazyOps /\ completed[f] = <<>>
            BY <1>1 DEF Unrun
        <3>2. f < pc
            BY <1>1, <1>4, <3>1
        <3> QED BY <1>1, <3>1, <3>2 DEF PendingOK, Unrun
    <2>5. arg' = 0 => region' = EmptyRegion
        BY <1>3
    <2> QED BY <1>2, <2>1, <2>2, <2>3, <2>4, <2>5 DEF PendingOK
<1>8. FragmentRunsForOneBinding'
    BY <1>1 DEF FragmentRunsForOneBinding
<1> QED BY <1>5, <1>7, <1>8 DEF OnceInv

LEMMA OnceRegisterView ==
    ASSUME TypeInv, OnceInv, RegisterView
    PROVE  OnceInv'
<1>1. /\ Running /\ status' = status /\ exec' = exec /\ exec.mode = "idle" /\ pc' = pc
      /\ plan' = plan /\ arg' = arg + 1
      /\ completed' = completed /\ bindings' = [bindings EXCEPT ![Input] = Unbound]
      /\ region' = Plus(region, bindings[Input].region) /\ Input \in Lazies
      /\ Input \in 1..Len(plan)
    BY StepFacts DEF RegisterView, Registered, Idle, Lazies, TypeInv, TypeOK
<1>2. /\ PendingOK /\ Apart /\ FragmentRunsForOneBinding /\ exec = NoExec /\ arg \in Nat
      /\ DOMAIN bindings = 1..Len(plan)
    BY <1>1, PendingFacts DEF PendingOK
<1>3. exec.region.steps = {} /\ arg' # 0
    BY <1>1, <1>2 DEF NoExec, EmptyRegion
<1>4. region'.steps = region.steps \union bindings[Input].region.steps
    BY <1>1 DEF Plus
<1>5. PICK i \in 1..Len(plan) : i = Input
    BY <1>1
<1>6. /\ Lazies' = Lazies \ {i} /\ i \in Lazies
      /\ \A n \in Lazies : n # i => bindings'[n] = bindings[n]
    BY <1>1, <1>2, <1>5 DEF Lazies, Lazy, Unbound, Bind
<1>7. Apart'
    <2>1. \A a, b \in Lazies' :
             a # b => bindings'[a].region.steps \intersect bindings'[b].region.steps = {}
        BY <1>2, <1>6 DEF Apart
    <2>2. \A b \in Lazies' : bindings'[b].region.steps \intersect region'.steps = {}
        BY <1>2, <1>4, <1>5, <1>6 DEF Apart
    <2>3. \A b \in Lazies' : bindings'[b].region.steps \intersect exec'.region.steps = {}
        BY <1>1, <1>3
    <2> QED BY <1>1, <2>1, <2>2, <2>3 DEF Apart
<1>8. \A f : Pending(f)' <=> Pending(f)
    BY <1>1, <1>4, <1>5, <1>6 DEF Pending
<1>9. PendingOK'
    <2>1. \A f \in region'.steps : f < pc'
        BY <1>1, <1>2, <1>4 DEF PendingOK
    <2>2. \A b \in Lazies' : b < pc' /\ \A f \in bindings'[b].region.steps : f < pc'
        BY <1>1, <1>2, <1>6 DEF PendingOK
    <2>3. \A f \in DOMAIN completed' : Pending(f)' \/ f >= pc' => completed'[f] = <<>>
        BY <1>1, <1>2, <1>8 DEF PendingOK
    <2>4. \A f \in DOMAIN completed' : Unrun(f)' => Pending(f)'
        BY <1>1, <1>2, <1>8 DEF PendingOK, Unrun
    <2> QED BY <1>1, <1>2, <1>3, <2>1, <2>2, <2>3, <2>4 DEF PendingOK
<1>10. FragmentRunsForOneBinding'
    BY <1>1, <1>2 DEF FragmentRunsForOneBinding
<1> QED BY <1>1, <1>7, <1>9, <1>10 DEF OnceInv, Running

LEMMA OnceRunLazyFragment ==
    ASSUME TypeInv, OnceInv, RunLazyFragment
    PROVE  OnceInv'
<1>1. /\ Running /\ status' = status /\ exec' = exec /\ exec.mode = "idle" /\ Advance
      /\ completed' = completed /\ bindings' = [bindings EXCEPT ![pc] = Bind("lazy", Composed)]
      /\ plan' = plan
    BY DEF RunLazyFragment, Idle
<1>2. /\ PendingOK /\ Apart /\ FragmentRunsForOneBinding /\ exec = NoExec
      /\ pc \in 1..Len(plan) /\ pc \in Nat /\ DOMAIN bindings = 1..Len(plan)
      /\ DOMAIN completed \subseteq Nat
    BY <1>1, PendingFacts DEF PendingOK
<1>3. /\ exec.region.steps = {} /\ region' = EmptyRegion /\ region'.steps = {}
      /\ exec'.region.steps = {} /\ pc' = pc + 1 /\ arg' = 0
    BY <1>1, <1>2 DEF NoExec, EmptyRegion, Advance
<1>4. Composed.steps = region.steps \union {pc}
    BY DEF Composed, Plus, EmptyRegion
<1>5. /\ Lazies' = Lazies \union {pc} /\ bindings'[pc].region = Composed
      /\ \A n \in Lazies : n # pc /\ bindings'[n] = bindings[n]
    <2>1. \A n \in Lazies : n # pc
        BY <1>2 DEF PendingOK
    <2> QED BY <1>1, <1>2, <2>1 DEF Lazies, Lazy, Bind
<1>6. \A n \in Lazies : n \in Nat /\ n < pc
    BY <1>1, <1>2, PendingFacts DEF PendingOK
<1>7. \A n \in Lazies : \A f \in bindings[n].region.steps : f \in Nat /\ f < pc
    BY <1>1, <1>2, PendingFacts DEF PendingOK
<1>8. \A f \in region.steps : f \in Nat /\ f < pc
    BY <1>1, <1>2, PendingFacts DEF PendingOK
<1>9. \A n \in Lazies : bindings[n].region.steps \intersect Composed.steps = {}
    BY <1>2, <1>4, <1>7 DEF Apart
<1>10. Apart'
    <2>1. ASSUME NEW a \in Lazies', NEW b \in Lazies', a # b
          PROVE  bindings'[a].region.steps \intersect bindings'[b].region.steps = {}
        <3>1. CASE a # pc /\ b # pc
            BY <1>2, <1>5, <2>1, <3>1 DEF Apart
        <3>2. CASE a = pc \/ b = pc
            BY <1>5, <1>9, <2>1, <3>2
        <3> QED BY <3>1, <3>2
    <2> QED BY <1>1, <1>3, <2>1 DEF Apart
<1>11. \A f : Pending(f)' <=> f = pc \/ Pending(f)
    <2>1. \A f : Pending(f)' <=> \E b \in Lazies' : f \in bindings'[b].region.steps
        BY <1>3 DEF Pending
    <2>2. \A f : Pending(f) <=> (f \in region.steps
                                 \/ \E b \in Lazies : f \in bindings[b].region.steps)
        BY <1>3 DEF Pending
    <2> QED BY <1>4, <1>5, <2>1, <2>2
<1>12. PendingOK'
    <2>1. \A b \in Lazies' : b < pc' /\ \A f \in bindings'[b].region.steps : f < pc'
        <3> SUFFICES ASSUME NEW b \in Lazies'
                     PROVE  b < pc' /\ \A f \in bindings'[b].region.steps : f < pc'
            OBVIOUS
        <3>1. CASE b = pc
            BY <1>2, <1>3, <1>4, <1>5, <1>8, <3>1
        <3>2. CASE b \in Lazies
            BY <1>2, <1>3, <1>5, <1>6, <1>7, <3>2
        <3> QED BY <1>5, <3>1, <3>2
    <2>2. \A f \in DOMAIN completed' : Pending(f)' \/ f >= pc' => completed'[f] = <<>>
        <3> SUFFICES ASSUME NEW f \in DOMAIN completed, Pending(f) \/ f = pc \/ f >= pc + 1
                     PROVE  completed[f] = <<>>
            BY <1>1, <1>3, <1>11
        <3>1. Pending(f) \/ f >= pc
            BY <1>2
        <3> QED BY <1>1, <1>2, <3>1 DEF PendingOK
    <2>3. \A f \in DOMAIN completed' : Unrun(f)' => Pending(f)'
        <3> SUFFICES ASSUME NEW f \in DOMAIN completed, Unrun(f)'
                     PROVE  f = pc \/ Pending(f)
            BY <1>1, <1>11
        <3>1. f \in Nat /\ f < pc + 1 /\ plan[f].op \in LazyOps /\ completed[f] = <<>>
            BY <1>1, <1>2, <1>3 DEF Unrun
        <3>2. f = pc \/ f < pc
            BY <1>2, <3>1
        <3> QED BY <1>2, <3>1, <3>2 DEF PendingOK, Unrun
    <2> QED BY <1>1, <1>2, <1>3, <2>1, <2>2, <2>3 DEF PendingOK
<1>13. FragmentRunsForOneBinding'
    BY <1>1, <1>2 DEF FragmentRunsForOneBinding
<1> QED BY <1>1, <1>10, <1>12, <1>13 DEF OnceInv, Running

LEMMA OnceForceInput ==
    ASSUME TypeInv, OnceInv, ForceInput
    PROVE  OnceInv'
<1>1. /\ Running /\ status' = status /\ exec.mode = "idle"
      /\ UNCHANGED <<plan, pc, arg, region, completed>>
      /\ exec' = [mode |-> "force", rel |-> Input, region |-> bindings[Input].region,
                  spillable |-> SpillableFromStart(bindings[Input].region)]
      /\ bindings' = [bindings EXCEPT ![Input] = Unbound]
      /\ Input \in Lazies /\ Input \in 1..Len(plan)
    BY StepFacts DEF ForceInput, ForceMaterialized, Idle, Lazies, TypeInv, TypeOK
<1>2. exec'.mode = "force" /\ exec'.region = bindings[Input].region /\ exec'.rel = Input
    BY <1>1
<1>3. /\ PendingOK /\ Apart /\ FragmentRunsForOneBinding /\ DOMAIN bindings = 1..Len(plan)
      /\ exec.region.steps = {}
    BY <1>1, PendingFacts DEF PendingOK, NoExec, EmptyRegion
<1>4. PICK i \in 1..Len(plan) : i = Input
    BY <1>1
<1>5. /\ Lazies' = Lazies \ {i} /\ i \in Lazies
      /\ \A n \in Lazies : n # i => bindings'[n] = bindings[n]
    BY <1>1, <1>3, <1>4 DEF Lazies, Lazy, Unbound, Bind
<1>6. Apart'
    BY <1>1, <1>2, <1>3, <1>4, <1>5 DEF Apart
<1>7. \A f : Pending(f)' <=> Pending(f)
    BY <1>1, <1>2, <1>3, <1>4, <1>5 DEF Pending
<1>8. PendingOK'
    <2>1. \A f \in exec'.region.steps : f < pc'
        BY <1>1, <1>2, <1>3 DEF PendingOK
    <2>2. \A b \in Lazies' : b < pc' /\ \A f \in bindings'[b].region.steps : f < pc'
        BY <1>1, <1>3, <1>5 DEF PendingOK
    <2>3. exec'.rel \notin Lazies'
        BY <1>2, <1>4, <1>5
    <2>4. \A f \in DOMAIN completed' : Pending(f)' \/ f >= pc' => completed'[f] = <<>>
        BY <1>1, <1>3, <1>7 DEF PendingOK
    <2>5. \A f \in DOMAIN completed' : Unrun(f)' => Pending(f)'
        BY <1>1, <1>3, <1>7 DEF PendingOK, Unrun
    <2>6. (\A f \in region'.steps : f < pc') /\ (arg' = 0 => region' = EmptyRegion)
        BY <1>1, <1>3 DEF PendingOK
    <2> QED BY <1>2, <2>1, <2>2, <2>3, <2>4, <2>5, <2>6 DEF PendingOK
<1>9. FragmentRunsForOneBinding'
    BY <1>1, <1>3 DEF FragmentRunsForOneBinding
<1> QED BY <1>1, <1>6, <1>8, <1>9 DEF OnceInv, Running

LEMMA OnceBeginEager ==
    ASSUME TypeInv, OnceInv, BeginEagerFragment
    PROVE  OnceInv'
<1>1. /\ Running /\ status' = status /\ exec.mode = "idle"
      /\ UNCHANGED <<plan, pc, arg, region, completed, bindings>>
      /\ exec'.mode \in {"probe", "dedup"} /\ exec'.region = Composed
      /\ exec'.mode = "probe" => Step.op = "guard"
    BY DEF BeginEagerFragment, Idle
<1>2. /\ PendingOK /\ Apart /\ FragmentRunsForOneBinding /\ pc \in Nat
      /\ exec.region.steps = {}
    BY <1>1, PendingFacts DEF PendingOK, NoExec, EmptyRegion
<1>3. Composed.steps = region.steps \union {pc} /\ Composed' = Composed
    BY <1>1 DEF Composed, Plus, EmptyRegion
<1>4. Lazies' = Lazies /\ Step' = Step
    BY <1>1 DEF Lazies, Lazy, Step
<1>5. \A n \in Lazies : \A f \in bindings[n].region.steps : f \in Nat /\ f < pc
    BY <1>1, <1>2, PendingFacts DEF PendingOK
<1>6. Apart'
    <2>1. \A n \in Lazies : bindings[n].region.steps \intersect Composed.steps = {}
        BY <1>2, <1>3, <1>5 DEF Apart
    <2> QED BY <1>1, <1>2, <1>4, <2>1 DEF Apart
<1>7. \A f : Pending(f)' <=> f = pc \/ Pending(f)
    BY <1>1, <1>2, <1>3, <1>4 DEF Pending
<1>8. PendingOK'
    <2>1. \A f \in DOMAIN completed' : Pending(f)' \/ f >= pc' => completed'[f] = <<>>
        BY <1>1, <1>2, <1>7 DEF PendingOK
    <2>2. \A f \in DOMAIN completed' : Unrun(f)' => Pending(f)'
        BY <1>1, <1>2, <1>7 DEF PendingOK, Unrun
    <2>3. \A b \in Lazies' : b < pc' /\ \A f \in bindings'[b].region.steps : f < pc'
        BY <1>1, <1>2, <1>4 DEF PendingOK
    <2>4. (\A f \in region'.steps : f < pc') /\ (arg' = 0 => region' = EmptyRegion)
        BY <1>1, <1>2 DEF PendingOK
    <2>5. exec'.region = Composed' /\ (exec'.mode \in {"probe", "guard"} => Step'.op = "guard")
          /\ exec'.mode # "idle" /\ exec'.mode # "force"
        BY <1>1, <1>3, <1>4
    <2> QED BY <2>1, <2>2, <2>3, <2>4, <2>5 DEF PendingOK
<1>9. FragmentRunsForOneBinding'
    BY <1>1, <1>2 DEF FragmentRunsForOneBinding
<1> QED BY <1>1, <1>6, <1>8, <1>9 DEF OnceInv, Running

(* The retry of a region.                                                  *)
LEMMA OnceRetry ==
    ASSUME TypeInv, OnceInv, Running, status' = status,
           UNCHANGED <<plan, pc, arg, region, completed, bindings>>,
           exec.mode = "force", exec'.mode = "force",
           exec'.region = exec.region, exec'.rel = exec.rel
    PROVE  OnceInv'
<1>1. PendingOK /\ Apart /\ FragmentRunsForOneBinding
    BY PendingFacts
<1>2. Lazies' = Lazies /\ (\A f : Pending(f)' <=> Pending(f))
    BY DEF Lazies, Lazy, Pending
<1>3. Apart'
    BY <1>1, <1>2 DEF Apart
<1>4. PendingOK'
    <2>1. \A f \in DOMAIN completed' : Pending(f)' \/ f >= pc' => completed'[f] = <<>>
        BY <1>1, <1>2 DEF PendingOK
    <2>2. \A f \in DOMAIN completed' : Unrun(f)' => Pending(f)'
        BY <1>1, <1>2 DEF PendingOK, Unrun
    <2>3. \A b \in Lazies' : b < pc' /\ \A f \in bindings'[b].region.steps : f < pc'
        BY <1>1, <1>2 DEF PendingOK
    <2>4. (\A f \in region'.steps : f < pc') /\ (arg' = 0 => region' = EmptyRegion)
        BY <1>1 DEF PendingOK
    <2>5. exec'.rel \notin Lazies' /\ \A f \in exec'.region.steps : f < pc'
        BY <1>1, <1>2 DEF PendingOK
    <2> QED BY <2>1, <2>2, <2>3, <2>4, <2>5 DEF PendingOK
<1>5. FragmentRunsForOneBinding'
    BY <1>1 DEF FragmentRunsForOneBinding
<1> QED BY <1>1, <1>3, <1>4, <1>5 DEF OnceInv, Running

(* The guard has counted its input, and is about to collect it.            *)
LEMMA OnceGuardCounted ==
    ASSUME TypeInv, OnceInv, Running, status' = status,
           UNCHANGED <<plan, pc, arg, region, bindings>>, NoteCompleted,
           exec.mode = "probe", exec'.mode = "guard",
           exec'.region = exec.region
    PROVE  OnceInv'
<1>1. /\ PendingOK /\ Apart /\ FragmentRunsForOneBinding /\ pc \in Nat
      /\ DOMAIN completed' = DOMAIN completed /\ exec.rel = pc
    BY PendingFacts, NotedRuns DEF TypeInv, ControlOK
<1>2. /\ Lazies' = Lazies /\ (\A f : Pending(f)' <=> Pending(f)) /\ Composed' = Composed
      /\ Step' = Step
    BY DEF Lazies, Lazy, Pending, Composed, Step
<1>3. \A f \in DOMAIN completed :
         /\ f \in exec.region.steps => completed'[f] = <<pc>>
         /\ f \notin exec.region.steps => completed'[f] = completed[f]
    BY <1>1, NotedRuns
<1>4. Apart'
    BY <1>1, <1>2 DEF Apart
<1>5. PendingOK'
    <2>1. \A f \in DOMAIN completed' : Pending(f)' \/ f >= pc' =>
             \/ completed'[f] = <<>>
             \/ exec'.mode = "guard" /\ f \in exec'.region.steps /\ completed'[f] = <<pc'>>
        BY <1>1, <1>2, <1>3 DEF PendingOK
    <2>2. \A f \in DOMAIN completed' : Unrun(f)' => Pending(f)'
        <3> SUFFICES ASSUME NEW f \in DOMAIN completed, Unrun(f)' PROVE Pending(f)
            BY <1>1, <1>2
        <3>1. f < pc /\ plan[f].op \in LazyOps /\ completed'[f] = <<>>
            BY DEF Unrun
        <3>2. completed[f] = <<>> \/ f \in exec.region.steps
            BY <1>3, <3>1
        <3> QED BY <1>1, <3>1, <3>2 DEF PendingOK, Unrun, Pending
    <2>3. \A b \in Lazies' : b < pc' /\ \A f \in bindings'[b].region.steps : f < pc'
        BY <1>1, <1>2 DEF PendingOK
    <2>4. (\A f \in region'.steps : f < pc') /\ (arg' = 0 => region' = EmptyRegion)
        BY <1>1 DEF PendingOK
    <2>5. exec'.region = Composed' /\ Step'.op = "guard"
        BY <1>1, <1>2 DEF PendingOK
    <2> QED BY <2>1, <2>2, <2>3, <2>4, <2>5 DEF PendingOK
<1>6. FragmentRunsForOneBinding'
    <2> SUFFICES ASSUME NEW f \in DOMAIN completed
                 PROVE  \/ Len(completed'[f]) <= 1
                        \/ \E g \in DOMAIN plan : plan[g].op = "guard" /\ completed'[f] = <<g, g>>
        BY <1>1 DEF FragmentRunsForOneBinding
    <2>1. CASE f \in exec.region.steps
        <3>1. Len(completed'[f]) = 1
            BY <1>3, <2>1, RunsOfOne
        <3> QED BY <3>1
    <2>2. CASE f \notin exec.region.steps
        BY <1>1, <1>3, <2>2 DEF FragmentRunsForOneBinding
    <2> QED BY <2>1, <2>2
<1> QED BY <1>1, <1>4, <1>5, <1>6 DEF OnceInv, Running

(* The region in flight has run, and its relation is stored.               *)
LEMMA OnceCompletes ==
    ASSUME TypeInv, OnceInv, Running, status' = status, plan' = plan, NoteCompleted,
           Lazies' = Lazies, \A n \in Lazies : bindings'[n].region = bindings[n].region,
           exec' = NoExec,
           \/ exec.mode = "force" /\ UNCHANGED <<pc, arg, region>>
           \/ exec.mode \in {"guard", "dedup"} /\ Advance
    PROVE  OnceInv'
<1>1. /\ PendingOK /\ Apart /\ FragmentRunsForOneBinding /\ pc \in Nat /\ Step = plan[pc]
      /\ pc \in 1..Len(plan) /\ Len(plan) \in Nat
      /\ DOMAIN completed' = DOMAIN completed /\ DOMAIN completed \subseteq Nat
    BY PendingFacts, NotedRuns, PlanFacts DEF TypeInv, TypeOK
<1>2. exec'.region.steps = {} /\ exec'.mode = "idle"
    BY DEF NoExec, EmptyRegion
<1>3. \/ exec.mode = "force" /\ pc' = pc /\ UNCHANGED <<arg, region>>
      \/ /\ exec.mode # "force" /\ pc' = pc + 1 /\ region' = EmptyRegion /\ region'.steps = {}
         /\ arg' = 0 /\ exec.region.steps = region.steps \union {pc} /\ exec.rel = pc
         /\ Step.op \notin LazyOps
    <2>1. CASE exec.mode = "force"
        BY <2>1
    <2>2. CASE exec.mode \in {"guard", "dedup"} /\ Advance
        <3>1. exec.region = Composed /\ exec.rel = pc /\ Step.op \in EagerOps
            BY <1>1, <2>2 DEF PendingOK, TypeInv, ControlOK
        <3>2. exec.region.steps = region.steps \union {pc}
            BY <3>1 DEF Composed, Plus, EmptyRegion
        <3>3. Step.op \notin LazyOps
            BY <3>1 DEF LazyOps, EagerOps
        <3> QED BY <2>2, <3>1, <3>2, <3>3 DEF Advance, EmptyRegion
    <2> QED BY <2>1, <2>2
<1>4. \A f \in exec.region.steps : f \in Nat /\ f < pc'
    <2>1. \A f \in exec.region.steps : f \in Nat
        BY PendingFacts
    <2>2. \A f \in region.steps : f \in Nat /\ f < pc
        BY <1>1, PendingFacts DEF PendingOK
    <2>3. exec.mode = "force" => \A f \in exec.region.steps : f < pc
        BY <1>1 DEF PendingOK
    <2> QED BY <1>1, <1>3, <2>1, <2>2, <2>3
<1>5. \A f \in region'.steps : f \in region.steps /\ f \notin exec.region.steps
    BY <1>1, <1>3 DEF Apart
<1>6. \A f : Pending(f)' <=> Pending(f) /\ f \notin exec.region.steps
    <2>1. \A f : Pending(f)' <=> (f \in region'.steps
                                  \/ \E b \in Lazies : f \in bindings[b].region.steps)
        BY <1>2 DEF Pending
    <2>2. \A b \in Lazies : \A f \in bindings[b].region.steps : f \notin exec.region.steps
        BY <1>1 DEF Apart
    <2>3. \A f \in region.steps : f \in exec.region.steps \/ f \in region'.steps
        BY <1>3
    <2> QED BY <1>5, <2>1, <2>2, <2>3 DEF Pending
<1>7. \A f \in DOMAIN completed :
         /\ f \notin exec.region.steps => completed'[f] = completed[f]
         /\ f \in exec.region.steps =>
               \/ completed'[f] = <<exec.rel>>
               \/ plan[pc].op = "guard" /\ completed'[f] = <<pc, pc>>
    <2>1. exec.mode = "guard" => exec.rel = pc /\ plan[pc].op = "guard"
        BY <1>1, <1>3 DEF PendingOK
    <2> QED BY <2>1, NotedRuns
<1>8. Apart'
    BY <1>1, <1>2, <1>5 DEF Apart
<1>9. PendingOK'
    <2>1. \A b \in Lazies' : b < pc' /\ \A f \in bindings'[b].region.steps : f < pc'
        <3> SUFFICES ASSUME NEW b \in Lazies
                     PROVE  b < pc' /\ \A f \in bindings[b].region.steps : f < pc'
            OBVIOUS
        <3>1. b \in Nat /\ b < pc
            BY <1>1, PendingFacts DEF PendingOK
        <3>2. \A f \in bindings[b].region.steps : f \in Nat /\ f < pc
            BY <1>1, PendingFacts DEF PendingOK
        <3> QED BY <1>1, <1>3, <3>1, <3>2
    <2>2. \A f \in region'.steps : f < pc'
        <3>1. \A f \in region.steps : f \in Nat /\ f < pc
            BY <1>1, PendingFacts DEF PendingOK
        <3> QED BY <1>1, <1>3, <1>5, <3>1
    <2>3. \A f \in DOMAIN completed' : Pending(f)' \/ f >= pc' => completed'[f] = <<>>
        <3> SUFFICES ASSUME NEW f \in DOMAIN completed, Pending(f)' \/ f >= pc'
                     PROVE  completed'[f] = <<>>
            BY <1>1
        <3>1. f \in Nat /\ f \notin exec.region.steps
            BY <1>1, <1>3, <1>4, <1>6
        <3>2. Pending(f) \/ f >= pc
            BY <1>1, <1>3, <1>6, <3>1
        <3>3. completed[f] = <<>>
            BY <1>1, <3>1, <3>2 DEF PendingOK
        <3> QED BY <1>7, <3>1, <3>3
    <2>4. \A f \in DOMAIN completed' : Unrun(f)' => Pending(f)'
        <3> SUFFICES ASSUME NEW f \in DOMAIN completed, Unrun(f)' PROVE Pending(f)'
            BY <1>1
        <3>1. f \in Nat /\ f < pc' /\ plan[f].op \in LazyOps /\ completed'[f] = <<>>
            BY <1>1 DEF Unrun
        <3>2. f \notin exec.region.steps
            BY <1>7, <3>1, RunsOfOne
        <3>3. completed[f] = <<>> /\ f < pc
            BY <1>1, <1>3, <1>7, <3>1, <3>2
        <3> QED BY <1>1, <1>6, <3>1, <3>2, <3>3 DEF PendingOK, Unrun
    <2>5. arg' = 0 => region' = EmptyRegion
        BY <1>1, <1>3 DEF PendingOK
    <2> QED BY <1>2, <2>1, <2>2, <2>3, <2>4, <2>5 DEF PendingOK
<1>10. FragmentRunsForOneBinding'
    <2> SUFFICES ASSUME NEW f \in DOMAIN completed
                 PROVE  \/ Len(completed'[f]) <= 1
                        \/ \E g \in DOMAIN plan : plan[g].op = "guard" /\ completed'[f] = <<g, g>>
        BY <1>1 DEF FragmentRunsForOneBinding
    <2>1. pc \in DOMAIN plan
        BY <1>1 DEF TypeInv, TypeOK, IsPlan
    <2>2. CASE f \in exec.region.steps /\ completed'[f] = <<exec.rel>>
        BY <2>2, RunsOfOne
    <2>3. CASE plan[pc].op = "guard" /\ completed'[f] = <<pc, pc>>
        BY <2>1, <2>3
    <2>4. CASE f \notin exec.region.steps
        BY <1>1, <1>7, <2>4 DEF FragmentRunsForOneBinding
    <2> QED BY <1>7, <2>2, <2>3, <2>4
<1> QED BY <1>8, <1>9, <1>10 DEF OnceInv, Running

LEMMA OnceForceCompletes ==
    ASSUME TypeInv, OnceInv, ForceCompletes
    PROVE  OnceInv'
<1>1. PICK bytes \in Sizes : StoreRelation(exec.rel, bytes, exec.region.content)
    BY DEF ForceCompletes
<1>2. /\ Running /\ status' = status /\ exec.mode = "force" /\ exec' = NoExec
      /\ UNCHANGED <<plan, pc, arg, region>> /\ NoteCompleted
    BY DEF ForceCompletes
<1>3. exec.rel \in 1..Len(plan) /\ bytes \in Nat /\ exec.region.content \in SUBSET Nat
    BY <1>2, SizesAssumption DEF TypeInv, TypeOK, ControlOK, RegionType
<1>4. exec.rel \notin Lazies
    BY <1>2, PendingFacts DEF PendingOK
<1>5. Lazies' = Lazies /\ \A n \in Lazies : bindings'[n].region = bindings[n].region
    BY <1>1, <1>2, <1>3, <1>4, StoreLazies
<1> QED BY <1>2, <1>5, OnceCompletes

(* A store under the name of the current step, which has bound nothing.    *)
LEMMA StoreNowLazies ==
    ASSUME TypeInv, OnceInv, Running, plan' = plan,
           \E bytes \in Nat, content \in SUBSET Nat : StoreRelation(pc, bytes, content)
    PROVE  Lazies' = Lazies /\ \A n \in Lazies : bindings'[n].region = bindings[n].region
<1>1. pc \notin Lazies /\ pc \in 1..Len(plan)
    <2>1. pc \in Nat /\ PendingOK
        BY PendingFacts
    <2> QED BY <2>1, PendingFacts DEF PendingOK
<1> QED BY <1>1, StoreLazies

LEMMA OnceEagerCompletes ==
    ASSUME TypeInv, OnceInv, EagerCompletes
    PROVE  OnceInv'
<1>1. /\ Running /\ status' = status /\ exec.mode \in {"guard", "dedup"}
      /\ exec' = NoExec /\ plan' = plan /\ Advance /\ NoteCompleted
    BY DEF EagerCompletes
<1>2. \E bytes \in Nat, content \in SUBSET Nat : StoreRelation(pc, bytes, content)
    BY SizesAssumption DEF EagerCompletes, TypeInv, TypeOK, RegionType
<1>3. Lazies' = Lazies /\ \A n \in Lazies : bindings'[n].region = bindings[n].region
    BY <1>1, <1>2, StoreNowLazies
<1> QED BY <1>1, <1>3, OnceCompletes

(* A change of one binding that neither was nor becomes a lazy one.        *)
LEMMA OtherLazies ==
    ASSUME TypeInv, NEW b, b \notin Lazies, NEW new, new.form # "lazy",
           bindings' = [bindings EXCEPT ![b] = new]
    PROVE  Lazies' = Lazies /\ \A n \in Lazies : bindings'[n].region = bindings[n].region
BY DEF Lazies, Lazy, TypeInv, TypeOK

LEMMA OnceStep == TypeInv /\ OnceInv /\ [Next]_vars => OnceInv'
<1> SUFFICES ASSUME TypeInv, OnceInv, [Next]_vars PROVE OnceInv'
    OBVIOUS
<1>1. CASE UNCHANGED vars
    BY <1>1 DEF vars, OnceInv, Apart, FragmentRunsForOneBinding, PendingOK, Pending, Unrun,
                Lazies, Lazy, Composed, Step
<1>2. CASE status # "running"
    BY <1>1, <1>2, NothingAfterEnd
<1>3. CASE status = "running" /\ status' # "running"
    <2>1. /\ \A b \in 1..Len(plan) : bindings'[b] = Unbound
          /\ UNCHANGED <<plan, pc, size, completed>>
        BY <1>3, EndHasNoBinding
    <2>2. TypeInv'
        BY TypeInvStep
    <2>3. Lazies' = {}
        BY <2>1, <2>2 DEF Lazies, Lazy, Unbound, Bind, TypeInv, TypeOK
    <2>4. exec'.mode = "force" => region'.steps \intersect exec'.region.steps = {}
        BY <1>3, <2>2 DEF TypeInv, ControlOK
    <2>5. FragmentRunsForOneBinding'
        BY <2>1 DEF OnceInv, FragmentRunsForOneBinding
    <2> QED BY <1>3, <2>3, <2>4, <2>5 DEF OnceInv, Apart
<1>4. CASE Next /\ status = "running" /\ status' = "running"
    <2>2. Idle => exec = NoExec
        BY <1>4 DEF OnceInv, PendingOK, Idle
    <2>3. CASE SourceScan
        <3>1. /\ Idle /\ Running /\ Advance /\ UNCHANGED <<plan, exec, completed>>
              /\ Step.op \notin LazyOps /\ arg = 0
            BY <2>3, StepFacts DEF SourceScan, Idle, LazyOps
        <3>2. \E bytes \in Nat, content \in SUBSET Nat : StoreRelation(pc, bytes, content)
            <4>1. {pc} \in SUBSET Nat
                BY <3>1, PendingFacts
            <4> QED BY <2>3, <4>1, SizesAssumption DEF SourceScan
        <3>3. Lazies' = Lazies /\ \A n \in Lazies : bindings'[n].region = bindings[n].region
            BY <3>1, <3>2, StoreNowLazies
        <3> QED BY <1>4, <2>2, <3>1, <3>3, OnceKeep DEF Idle
    <2>4. CASE InjectedScan
        <3>1. /\ \E bytes \in Nat, content \in SUBSET Nat : StoreRelation(pc, bytes, content)
              /\ Advance /\ UNCHANGED <<plan, exec, completed>>
            BY <1>4, <2>4, InjectedScanCases
        <3>2. Idle /\ Running /\ Step.op \notin LazyOps /\ arg = 0
            BY <2>4, StepFacts DEF InjectedScan, Idle, LazyOps
        <3>3. Lazies' = Lazies /\ \A n \in Lazies : bindings'[n].region = bindings[n].region
            BY <3>1, <3>2, StoreNowLazies
        <3> QED BY <1>4, <2>2, <3>1, <3>2, <3>3, OnceKeep DEF Idle
    <2>5. CASE CollectDistinct \/ Ship
        <3>1. /\ Advance /\ UNCHANGED <<plan, exec, completed>> /\ Idle /\ Running
              /\ \/ bindings' = bindings
                 \/ bindings' = [bindings EXCEPT ![pc] =
                        Bind("keys", Stored(0, bindings[Input].region.content \union {pc}))]
            BY <1>4, <2>5 DEF CollectDistinct, Ship, MissingRelation, Fail, Idle
        <3>2. Step.op \notin LazyOps /\ arg = 0
            <4>1. Step.op \in {"collect", "ship"}
                BY <2>5 DEF CollectDistinct, Ship
            <4>2. arg = 0
                BY <3>1, <4>1, StepFacts
            <4> QED BY <4>1, <4>2 DEF LazyOps
        <3>3. pc \notin Lazies
            <4>1. pc \in Nat /\ PendingOK
                BY <3>1, PendingFacts
            <4> QED BY <4>1 DEF PendingOK
        <3>4. CASE bindings' = bindings
            <4>1. Lazies' = Lazies /\ \A n \in Lazies : bindings'[n].region = bindings[n].region
                BY <3>4 DEF Lazies, Lazy
            <4> QED BY <1>4, <2>2, <3>1, <3>2, <4>1, OnceKeep DEF Idle
        <3>5. ASSUME NEW keys, keys.form = "keys", bindings' = [bindings EXCEPT ![pc] = keys]
              PROVE  OnceInv'
            <4>1. Lazies' = Lazies /\ \A n \in Lazies : bindings'[n].region = bindings[n].region
                BY <3>3, <3>5, OtherLazies
            <4> QED BY <1>4, <2>2, <3>1, <3>2, <4>1, OnceKeep DEF Idle
        <3> QED BY <3>1, <3>4, <3>5 DEF Bind
    <2>6. CASE RegisterSpilled \/ RegisterMemTable
        <3>1. /\ UNCHANGED <<plan, pc, exec, completed>> /\ Idle /\ Running /\ arg' = arg + 1
              /\ bindings' = bindings \/ bindings' = [bindings EXCEPT ![Input] = Unbound]
              /\ \E ram \in BOOLEAN : region' = Plus(region, LeafRegion(Input, ram))
              /\ Input \notin Lazies
            BY <2>6 DEF RegisterSpilled, RegisterMemTable, Registered, Release, Idle, Lazies, Lazy
        <3>2. Lazies' = Lazies /\ \A n \in Lazies : bindings'[n].region = bindings[n].region
            <4>1. CASE bindings' = bindings
                BY <4>1 DEF Lazies, Lazy
            <4>2. CASE bindings' = [bindings EXCEPT ![Input] = Unbound]
                BY <3>1, <4>2, OtherLazies DEF Unbound, Bind
            <4> QED BY <3>1, <4>1, <4>2
        <3>3. region'.steps = region.steps
            BY <3>1 DEF Plus, LeafRegion
        <3>4. arg' # 0
            BY <3>1, PendingFacts
        <3> QED BY <1>4, <2>2, <3>1, <3>2, <3>3, <3>4, OnceKeep DEF Idle
    <2>7. CASE OperatorExhausted
        <3>1. /\ Running /\ UNCHANGED <<plan, pc, arg, region, completed, bindings>>
              /\ exec.mode = "force" /\ exec' = [exec EXCEPT !.spillable = TRUE]
            BY <1>4, <2>7 DEF OperatorExhausted, Fail
        <3>2. exec'.region = exec.region /\ exec'.mode = exec.mode /\ exec'.rel = exec.rel
            BY <3>1 DEF TypeInv, TypeOK
        <3> QED BY <1>4, <3>1, <3>2, OnceRetry
    <2>8. CASE GuardProbe
        <3>1. /\ Running /\ UNCHANGED <<plan, pc, arg, region, bindings>> /\ NoteCompleted
              /\ exec.mode = "probe" /\ exec' = [exec EXCEPT !.mode = "guard"]
            BY <1>4, <2>8 DEF GuardProbe, Fail
        <3>2. exec'.region = exec.region /\ exec'.mode = "guard"
            BY <3>1 DEF TypeInv, TypeOK
        <3> QED BY <1>4, <3>1, <3>2, OnceGuardCounted
    <2>9. CASE RegisterFails \/ NoReturn \/ ExternalFailure \/ EagerExhausted \/ Return
        BY <1>4, <2>9 DEF RegisterFails, NoReturn, ExternalFailure, EagerExhausted, Return,
                          MissingRelation, Fail
    <2> QED BY <1>4, <2>3, <2>4, <2>5, <2>6, <2>7, <2>8, <2>9, OnceRegisterView,
               OnceRunLazyFragment, OnceForceInput, OnceBeginEager, OnceForceCompletes,
               OnceEagerCompletes DEF Next
<1> QED BY <1>1, <1>2, <1>3, <1>4 DEF Next

(* A composed fragment that has not run is in one lazy binding, in the     *)
(* region being registered or in the one in flight, and never in two of    *)
(* them; none is lost.                                                     *)
THEOREM ComposedInOnePlaceHolds == Spec => []ComposedInOnePlace
BY TypeInvInit, TypeInvStep, OnceInit, OnceStep, OnceIsComposedInOnePlace, PTL DEF Spec

(* However many readers the result of a fragment has and however often its *)
(* execution was retried, the executions that ran it to completion are for *)
(* one binding: one, or the count and the collection of one guard.         *)
THEOREM FragmentsRunForOneBinding == Spec => []FragmentRunsForOneBinding
<1>1. OnceInv => FragmentRunsForOneBinding
    BY DEF OnceInv
<1> QED BY TypeInvInit, TypeInvStep, OnceInit, OnceStep, <1>1, PTL DEF Spec

---------------------------------------------------------------------------
(* What a merge reads last is released *)

(* The steps to come have bound nothing and had nothing of theirs read,    *)
(* and a force is of the input about to be read.                           *)
AheadOK ==
    /\ \A b \in 1..Len(plan) : b >= pc =>
          bindings[b].form = "none" /\ Reads(plan, b) \subseteq FutureReads(b)
    /\ exec.mode = "force" => HasInput /\ exec.rel = Input /\ exec.rel < pc

(* A read by a step that is no merge comes after every read by a merge.    *)
LateReader(b) ==
    \A r \in Reads(plan, b) :
        plan[r[1]].op \in MergeOps =>
            \E q \in Reads(plan, b) : q[1] > r[1] /\ plan[q[1]].op \notin MergeOps

ReleasedInv == (status = "running" => AheadOK) /\ ReleasedByLastMerge

LEMMA ReleasedFacts ==
    ASSUME TypeInv, ReleasedInv, status = "running", NEW b \in 1..Len(plan),
           FutureReads(b) = {}, bindings[b].form # "none"
    PROVE  LateReader(b)
<1>1. DOMAIN bindings = 1..Len(plan)
    BY DEF TypeInv, TypeOK
<1> QED BY <1>1 DEF ReleasedInv, ReleasedByLastMerge, LateReader

LEMMA BoundIsBehind ==
    ASSUME TypeInv, ReleasedInv, Running, NEW b \in 1..Len(plan), bindings[b].form # "none"
    PROVE  b \in Nat /\ pc \in Nat /\ b < pc
<1>1. b \in Nat /\ pc \in Nat
    BY StepFacts, PlanFacts DEF TypeInv, TypeOK
<1> QED BY <1>1 DEF ReleasedInv, AheadOK, Running

(* A step that ends: the reads it has just made are by a step that is no   *)
(* merge, so whatever they were the last of may stay.                      *)
LEMMA ReleasedAdvance ==
    ASSUME TypeInv, TypeInv', ReleasedInv, Running, Advance, plan' = plan,
           exec'.mode # "force",
           \A b \in 1..Len(plan) : b # pc /\ bindings'[b].form # "none"
                                      => bindings[b].form # "none",
           \A b \in 1..Len(plan) : FutureReads(b)' = FutureReads(b)
              \/ /\ Step.op \notin MergeOps /\ bindings[b].form # "none"
                 /\ \E q \in Reads(plan, b) : q[1] = pc
    PROVE  ReleasedInv'
<1>1. pc \in 1..Len(plan) /\ pc \in Nat /\ pc' = pc + 1 /\ Len(plan) \in Nat /\ IsPlan(plan)
      /\ arg' = 0 /\ status = "running"
    BY StepFacts, PlanFacts DEF Advance, TypeInv, TypeOK, Running
<1>2. AheadOK
    BY <1>1 DEF ReleasedInv
<1>3. ASSUME NEW b \in 1..Len(plan), b >= pc'
      PROVE  bindings'[b].form = "none" /\ Reads(plan, b) \subseteq FutureReads(b)'
    <2>1. b \in Nat /\ b >= pc /\ b # pc
        BY <1>1, <1>3
    <2>2. bindings[b].form = "none" /\ Reads(plan, b) \subseteq FutureReads(b)
        BY <1>2, <2>1 DEF AheadOK
    <2> QED BY <2>1, <2>2
<1>4. AheadOK'
    BY <1>3 DEF AheadOK
<1>5. ASSUME NEW b \in 1..Len(plan), FutureReads(b)' = {}, bindings'[b].form # "none"
      PROVE  LateReader(b)
    <2>1. CASE FutureReads(b)' = FutureReads(b) /\ b = pc
        <3>1. Reads(plan, b) = {}
            BY <1>1, <1>2, <1>5, <2>1 DEF AheadOK
        <3> QED BY <3>1 DEF LateReader
    <2>2. CASE FutureReads(b)' = FutureReads(b) /\ b # pc
        BY <1>1, <1>5, <2>2, ReleasedFacts
    <2>3. CASE Step.op \notin MergeOps /\ \E q \in Reads(plan, b) : q[1] = pc
        <3>1. ASSUME NEW r \in Reads(plan, b), plan[r[1]].op \in MergeOps
              PROVE  r[1] < pc
            <4>1. r[1] \in 1..Len(plan) /\ r[2] \in 1..Len(plan[r[1]].ins)
                BY <1>1, ReadsFinite
            <4>2. r[1] \in Nat /\ r[2] \in Nat /\ r[2] > 0
                BY <1>1, <4>1, PlanFacts
            <4>3. ~(r[1] > pc + 1 \/ (r[1] = pc + 1 /\ r[2] > 0))
                BY <1>1, <1>5 DEF FutureReads
            <4>4. r[1] # pc
                BY <2>3, <3>1 DEF Step
            <4> QED BY <1>1, <4>2, <4>3, <4>4
        <3> QED BY <2>3, <3>1 DEF LateReader, Step
    <2> QED BY <2>1, <2>2, <2>3
<1>6. \A b \in 1..Len(plan) : LateReader(b)' <=> LateReader(b)
    BY DEF LateReader
<1>7. DOMAIN bindings' = 1..Len(plan')
    BY DEF TypeInv, TypeOK
<1>8. ReleasedByLastMerge'
    BY <1>5, <1>6, <1>7 DEF ReleasedByLastMerge, LateReader
<1> QED BY <1>4, <1>8 DEF ReleasedInv

(* A step that stays where it is.                                          *)
LEMMA ReleasedStay ==
    ASSUME TypeInv, TypeInv', ReleasedInv, Running, UNCHANGED <<plan, pc, arg>>,
           \A b \in 1..Len(plan) : bindings'[b].form # "none" =>
              bindings[b].form # "none" \/ (b < pc /\ FutureReads(b) # {}),
           exec'.mode = "force" => HasInput /\ exec'.rel = Input /\ exec'.rel < pc
    PROVE  ReleasedInv'
<1>1. status = "running" /\ AheadOK /\ pc \in Nat /\ Len(plan) \in Nat
    BY StepFacts, PlanFacts DEF ReleasedInv, Running, TypeInv, TypeOK
<1>2. \A b : FutureReads(b)' = FutureReads(b)
    BY DEF FutureReads
<1>3. HasInput' = HasInput /\ Input' = Input
    BY DEF HasInput, Input, Step
<1>4. \A b \in 1..Len(plan) : b >= pc => bindings'[b].form = "none"
    BY <1>1 DEF AheadOK
<1>5. AheadOK'
    BY <1>1, <1>2, <1>3, <1>4 DEF AheadOK
<1>6. ASSUME NEW b \in 1..Len(plan), FutureReads(b)' = {}, bindings'[b].form # "none"
      PROVE  LateReader(b)
    BY <1>1, <1>2, <1>6, ReleasedFacts
<1>7. \A b \in 1..Len(plan) : LateReader(b)' <=> LateReader(b)
    BY DEF LateReader
<1>8. DOMAIN bindings' = 1..Len(plan')
    BY DEF TypeInv, TypeOK
<1>9. ReleasedByLastMerge'
    BY <1>6, <1>7, <1>8 DEF ReleasedByLastMerge, LateReader
<1> QED BY <1>5, <1>9 DEF ReleasedInv

(* A merge that registers an input: the exact counts make its last reader  *)
(* take it.                                                                *)
LEMMA LastIsLastReader ==
    ASSUME TypeInv, Running, UseCountsExact, ReadsOne, NEW b, b = Input,
           FutureReads(b)' = {}
    PROVE  LastReader(b)
<1>1. b \in 1..Len(plan) /\ DOMAIN remaining = 1..Len(plan)
    BY StepFacts DEF ReadsOne, TypeInv, TypeOK
<1>2. PICK read : read = <<pc, arg + 1>>
    OBVIOUS
<1>3. FutureReads(b)' = FutureReads(b) \ {read} /\ read \in FutureReads(b)
    BY <1>2, ReadOne
<1>5. FutureReads(b) = {read}
    BY <1>3
<1>6. Cardinality(FutureReads(b)) = 1
    BY <1>5, FS_Singleton
<1>7. remaining[b] = 1
    BY <1>1, <1>6 DEF UseCountsExact, Running
<1> QED BY <1>7 DEF LastReader, Uses
LEMMA ReleasedRegister ==
    ASSUME TypeInv, TypeInv', UseCountsExact, ReleasedInv, Idle, HasInput,
           bindings[Input].form # "none", \E r : Registered(r),
           \/ ~LastReader(Input) /\ bindings' = bindings
           \/ bindings' = [bindings EXCEPT ![Input] = Unbound],
           UNCHANGED <<plan, pc, exec, status>>
    PROVE  ReleasedInv'
<1>1. Running /\ status = "running" /\ AheadOK /\ ReadsOne /\ Input \in 1..Len(plan)
      /\ exec.mode = "idle" /\ Input < pc /\ Input \in Nat /\ pc \in Nat
    BY StepFacts, BoundIsBehind DEF Idle, Running, ReleasedInv, ReadsOne, Registered
<1>2. PICK i \in 1..Len(plan) : i = Input /\ i < pc
    BY <1>1
<1>3. \A b \in 1..Len(plan) : b # i => FutureReads(b)' = FutureReads(b)
    BY <1>1, <1>2, ReadOne
<1>4. \A b \in 1..Len(plan) : bindings'[b] = bindings[b] \/ (b = i /\ bindings'[b].form = "none")
    <2>1. Unbound.form = "none"
        BY DEF Unbound, Bind
    <2>2. DOMAIN bindings = 1..Len(plan)
        BY DEF TypeInv, TypeOK
    <2>3. CASE bindings' = [bindings EXCEPT ![i] = Unbound]
        BY <2>1, <2>2, <2>3
    <2> QED BY <1>2, <2>3
<1>5. FutureReads(i)' = {} => bindings'[i].form = "none"
    <2>1. ASSUME FutureReads(i)' = {} PROVE LastReader(i)
        BY <1>1, <1>2, <2>1, LastIsLastReader
    <2> QED BY <1>2, <2>1 DEF Unbound, Bind, TypeInv, TypeOK
<1>6. AheadOK'
    <2>1. \A b \in 1..Len(plan) : b >= pc =>
             bindings'[b].form = "none" /\ Reads(plan, b) \subseteq FutureReads(b)'
        <3> SUFFICES ASSUME NEW b \in 1..Len(plan), b >= pc
                     PROVE  bindings'[b].form = "none" /\ Reads(plan, b) \subseteq FutureReads(b)'
            OBVIOUS
        <3>1. b # i
            BY <1>1, <1>2
        <3> QED BY <1>1, <1>3, <1>4, <3>1 DEF AheadOK
    <2> QED BY <1>1, <2>1 DEF AheadOK
<1>7. ASSUME NEW b \in 1..Len(plan), FutureReads(b)' = {}, bindings'[b].form # "none"
      PROVE  LateReader(b)
    <2>1. b # i /\ FutureReads(b) = {} /\ bindings[b].form # "none"
        BY <1>3, <1>4, <1>5, <1>7
    <2> QED BY <1>1, <2>1, ReleasedFacts
<1>8. \A b \in 1..Len(plan) : LateReader(b)' <=> LateReader(b)
    BY DEF LateReader
<1>9. DOMAIN bindings' = 1..Len(plan')
    BY DEF TypeInv, TypeOK
<1>10. ReleasedByLastMerge'
    BY <1>7, <1>8, <1>9 DEF ReleasedByLastMerge, LateReader
<1> QED BY <1>6, <1>10 DEF ReleasedInv

LEMMA ReleasedInit == Init => ReleasedInv
<1> SUFFICES ASSUME Init PROVE ReleasedInv
    OBVIOUS
<1>1. IsPlan(plan) /\ pc = 1 /\ arg = 0 /\ Len(plan) \in Nat
    BY PlansAssumption, PlanFacts DEF Init
<1>2. \A b : Reads(plan, b) \subseteq FutureReads(b)
    <2> SUFFICES ASSUME NEW b, NEW r \in Reads(plan, b) PROVE r \in FutureReads(b)
        OBVIOUS
    <2>1. r[1] \in 1..Len(plan) /\ r[2] \in 1..Len(plan[r[1]].ins)
        BY <1>1, ReadsFinite
    <2>2. r[1] \in Nat /\ r[1] >= 1 /\ r[2] \in Nat /\ r[2] > 0
        BY <1>1, <2>1, PlanFacts
    <2> QED BY <1>1, <2>2 DEF FutureReads
<1>3. \A b \in 1..Len(plan) : bindings[b].form = "none"
    BY DEF Init, Unbound, Bind
<1>4. AheadOK
    BY <1>2, <1>3 DEF AheadOK, Init, NoExec
<1>5. ReleasedByLastMerge
    BY <1>3 DEF ReleasedByLastMerge, Init
<1> QED BY <1>4, <1>5 DEF ReleasedInv

LEMMA ReleasedStep == TypeInv /\ UseCountsExact /\ ReleasedInv /\ [Next]_vars => ReleasedInv'
<1> SUFFICES ASSUME TypeInv, UseCountsExact, ReleasedInv, [Next]_vars PROVE ReleasedInv'
    OBVIOUS
<1>0. TypeInv'
    BY TypeInvStep
<1>1. CASE status' # "running"
    BY <1>1 DEF ReleasedInv, ReleasedByLastMerge
<1>2. CASE UNCHANGED vars
    BY <1>2 DEF vars, ReleasedInv, ReleasedByLastMerge, AheadOK, FutureReads, HasInput, Input,
                Step
<1>3. CASE SourceScan \/ EagerCompletes
    <2>1. Running /\ Advance /\ plan' = plan /\ exec'.mode = "idle"
        BY <1>3 DEF SourceScan, EagerCompletes, Idle, NoExec
    <2>2. ~HasInput
        BY <1>3, <2>1, StepFacts DEF SourceScan, EagerCompletes, HasInput, TypeInv, ControlOK
    <2>3. pc \in 1..Len(plan) /\ {pc} \in SUBSET Nat /\ exec.region.content \in SUBSET Nat
        <3>1. pc \in 1..Len(plan) /\ {pc} \in SUBSET Nat
            BY <2>1, StepFacts
        <3> QED BY <3>1 DEF TypeInv, TypeOK, RegionType
    <2>4. \E bytes \in Nat, content \in SUBSET Nat : StoreRelation(pc, bytes, content)
        BY <1>3, <2>3, SizesAssumption DEF SourceScan, EagerCompletes
    <2>5. \A b \in 1..Len(plan) : b # pc /\ bindings'[b].form # "none"
                                    => bindings[b].form # "none"
        BY <2>3, <2>4, StoreRelationEffect DEF TypeInv
    <2>6. \A b \in 1..Len(plan) : FutureReads(b)' = FutureReads(b)
        BY <2>1, <2>2, ReadNone
    <2> QED BY <1>0, <2>1, <2>5, <2>6, ReleasedAdvance
<1>4. CASE InjectedScan /\ status' = "running"
    <2>1. /\ \E bytes \in Nat, content \in SUBSET Nat : StoreRelation(pc, bytes, content)
          /\ Advance /\ plan' = plan /\ Running /\ arg = 0 /\ exec'.mode = "idle"
          /\ Step.op \notin MergeOps
        BY <1>4, InjectedScanCases, StepFacts
           DEF InjectedScan, Idle, MergeOps, LazyOps, EagerOps
    <2>2. pc \in 1..Len(plan) /\ IsPlan(plan)
        BY <2>1, StepFacts DEF TypeInv, TypeOK
    <2>3. \A b \in KeysRead : bindings[b].form = "keys"
        BY <1>4 DEF InjectedScan, KeysRead, Fail
    <2>4. \A b \in 1..Len(plan) : b # pc /\ bindings'[b].form # "none"
                                    => bindings[b].form # "none"
        BY <2>1, <2>2, StoreRelationEffect DEF TypeInv
    <2>5. ASSUME NEW b \in 1..Len(plan), FutureReads(b)' # FutureReads(b)
          PROVE  bindings[b].form # "none" /\ \E q \in Reads(plan, b) : q[1] = pc
        <3>1. PICK q \in ReadsNow(b) : TRUE
            BY <2>1, <2>5, ReadAll
        <3>2. q \in Reads(plan, b) /\ q[1] = pc
            BY DEF ReadsNow
        <3>3. q[2] \in 1..Len(Step.ins) /\ Step.ins[q[2]] = b
            BY <2>2, <3>2, ReadsFinite DEF Step
        <3>4. b \in KeysRead
            BY <3>3 DEF KeysRead
        <3> QED BY <2>3, <3>2, <3>4
    <2> QED BY <1>0, <2>1, <2>4, <2>5, ReleasedAdvance
<1>5. CASE RunLazyFragment
    <2>1. /\ Running /\ Advance /\ plan' = plan /\ ~HasInput /\ exec'.mode = "idle"
          /\ bindings' = [bindings EXCEPT ![pc] = Bind("lazy", Composed)]
        BY <1>5 DEF RunLazyFragment, Idle
    <2>2. \A b \in 1..Len(plan) : b # pc => bindings'[b] = bindings[b]
        BY <2>1 DEF TypeInv, TypeOK
    <2>3. \A b \in 1..Len(plan) : FutureReads(b)' = FutureReads(b)
        BY <2>1, ReadNone
    <2> QED BY <1>0, <2>1, <2>2, <2>3, ReleasedAdvance
<1>6. CASE (CollectDistinct \/ Ship) /\ status' = "running"
    <2>1. /\ Running /\ Advance /\ plan' = plan /\ exec'.mode = "idle"
          /\ Step.op \in {"collect", "ship"} /\ bindings[Input].form # "none"
        BY <1>6 DEF CollectDistinct, Ship, Relation, Shippable, MissingRelation, Fail, Idle
    <2>2. /\ arg = 0 /\ Len(Step.ins) = 1 /\ HasInput /\ pc \in 1..Len(plan) /\ ReadsOne
          /\ Step.op \notin MergeOps
        BY <2>1, StepFacts DEF ReadsOne, MergeOps, LazyOps, EagerOps
    <2>3. \A b \in 1..Len(plan) : b # pc => bindings'[b] = bindings[b]
        BY <1>6 DEF CollectDistinct, Ship, MissingRelation, Fail, TypeInv, TypeOK
    <2>4. ASSUME NEW b \in 1..Len(plan), FutureReads(b)' # FutureReads(b)
          PROVE  bindings[b].form # "none" /\ \E q \in Reads(plan, b) : q[1] = pc
        <3>1. <<pc, arg + 1>> \in FutureReads(b) /\ b = Input
            BY <2>1, <2>2, <2>4, ReadOne
        <3> QED BY <2>1, <3>1 DEF FutureReads
    <2> QED BY <1>0, <2>1, <2>2, <2>3, <2>4, ReleasedAdvance
<1>7. CASE RegisterView
    BY <1>0, <1>7, ReleasedRegister DEF RegisterView, Lazy
<1>8. CASE RegisterSpilled \/ RegisterMemTable
    BY <1>0, <1>8, ReleasedRegister DEF RegisterSpilled, RegisterMemTable, Release
<1>9. CASE ForceInput
    <2>1. /\ Running /\ UNCHANGED <<plan, pc, arg>> /\ HasInput /\ exec'.rel = Input
          /\ Lazy(Input) /\ Input \in 1..Len(plan)
          /\ bindings' = [bindings EXCEPT ![Input] = Unbound]
        BY <1>9, StepFacts DEF ForceInput, ForceMaterialized, Idle
    <2>2. Input < pc
        BY <2>1, BoundIsBehind DEF Lazy
    <2>3. \A b \in 1..Len(plan) : bindings'[b].form # "none" => bindings[b].form # "none"
        BY <2>1 DEF Unbound, Bind, TypeInv, TypeOK
    <2> QED BY <1>0, <2>1, <2>2, <2>3, ReleasedStay
<1>10. CASE ForceCompletes
    <2>1. /\ Running /\ UNCHANGED <<plan, pc, arg>> /\ exec'.mode = "idle"
          /\ exec.mode = "force" /\ exec.rel \in 1..Len(plan)
          /\ exec.region.content \in SUBSET Nat
        BY <1>10 DEF ForceCompletes, NoExec, TypeInv, TypeOK, ControlOK, RegionType
    <2>2. \E bytes \in Nat : StoreRelation(exec.rel, bytes, exec.region.content)
        BY <1>10, SizesAssumption DEF ForceCompletes
    <2>3. \A b \in 1..Len(plan) : b # exec.rel /\ bindings'[b].form # "none"
                                    => bindings[b].form # "none"
        BY <2>1, <2>2, StoreRelationEffect DEF TypeInv
    <2>4. HasInput /\ exec.rel = Input /\ exec.rel < pc
        BY <2>1 DEF ReleasedInv, AheadOK, Running
    <2>5. FutureReads(exec.rel) # {}
        <3>1. arg + 1 \in 1..Len(Step.ins) /\ pc \in 1..Len(plan) /\ IsPlan(plan) /\ arg \in Nat
            BY <2>1, <2>4, StepFacts DEF HasInput, TypeInv, TypeOK
        <3>2. <<pc, arg + 1>> \in Reads(plan, exec.rel)
            BY <2>4, <3>1, ReadsFinite DEF Input, Step
        <3> QED BY <3>1, <3>2 DEF FutureReads
    <2> QED BY <1>0, <2>1, <2>3, <2>4, <2>5, ReleasedStay
<1>11. CASE (OperatorExhausted \/ GuardProbe \/ BeginEagerFragment) /\ status' = "running"
    <2>1. /\ Running /\ UNCHANGED <<plan, pc, arg, bindings>>
          /\ exec'.mode = "force" => exec.mode = "force" /\ exec'.rel = exec.rel
        BY <1>11 DEF OperatorExhausted, GuardProbe, BeginEagerFragment, Fail, Idle, TypeInv,
                     TypeOK
    <2>2. exec'.mode = "force" => HasInput /\ exec'.rel = Input /\ exec'.rel < pc
        BY <2>1 DEF ReleasedInv, AheadOK, Running
    <2> QED BY <1>0, <2>1, <2>2, ReleasedStay
<1>12. CASE EagerExhausted \/ RegisterFails \/ NoReturn \/ ExternalFailure \/ Return
    BY <1>1, <1>12
       DEF EagerExhausted, RegisterFails, NoReturn, ExternalFailure, Return,
           MissingRelation, Fail
<1> QED
    BY <1>1, <1>2, <1>3, <1>4, <1>5, <1>6, <1>7, <1>8, <1>9, <1>10, <1>11, <1>12 DEF Next

(* A binding whose last reader is a merge is gone once that merge has      *)
(* registered it, whatever forced, stored or evicted it before.            *)
THEOREM LastMergeReleases == Spec => []ReleasedByLastMerge
<1>1. ReleasedInv => ReleasedByLastMerge
    BY DEF ReleasedInv
<1> QED BY TypeInvInit, TypeInvStep, UseCountsInit, UseCountsStep, ReleasedInit, ReleasedStep,
           <1>1, PTL DEF Spec
---------------------------------------------------------------------------
(* Contents: what a relation is made of, as a recursive function of its    *)
(* plan                                                                    *)

(* Every set of numbers that is not empty has a least one.                 *)
LEMMA LeastNumber ==
    ASSUME NEW T \in SUBSET Nat, T # {}
    PROVE  \E n \in T : \A m \in T : n <= m
<1> DEFINE R == OpToRel(<, Nat)
<1>1. \A x, y \in Nat : x < y => <<x, y>> \in R
    BY DEF OpToRel
<1>2. IsWellFoundedOn(R, Nat)
    BY NatLessThanWellFounded, Zenon
<1> HIDE DEF R
<1>3. PICK n \in T : \A m \in T : ~(<<m, n>> \in R)
    BY <1>2, WFMin
<1>4. \A m \in T : m \in Nat /\ n \in Nat /\ ~(m < n)
    BY <1>1, <1>3
<1> QED BY <1>4

(* The inputs of a step that are of an earlier one.                        *)
Before(p, i) == {p[i].ins[k] : k \in 1..Len(p[i].ins)} \intersect 1..(i - 1)

IsContent(g, p, n) == g = [i \in 1..n |-> {i} \union UNION {g[b] : b \in Before(p, i)}]

(* A function like that exists, by induction on the number of steps.       *)
LEMMA ContentExists ==
    ASSUME NEW p, NEW n \in Nat
    PROVE  \E g : IsContent(g, p, n)
<1> DEFINE Of(g, i) == {i} \union UNION {g[b] : b \in Before(p, i)}
           Upto(m) == \E g : g = [i \in 1..m |-> Of(g, i)]
           Missing == {m \in Nat : ~Upto(m)}
<1>1. Upto(0)
    <2>1. [i \in 1..0 |-> {}] = [i \in 1..0 |-> Of([j \in 1..0 |-> {}], i)]
        OBVIOUS
    <2> QED BY <2>1
<1>2. ASSUME NEW m \in Nat, Upto(m) PROVE Upto(m + 1)
    <2>1. PICK g : g = [i \in 1..m |-> Of(g, i)]
        BY <1>2
    <2> DEFINE h == [i \in 1..(m + 1) |-> IF i = m + 1 THEN Of(g, i) ELSE g[i]]
    <2>2. ASSUME NEW i \in 1..(m + 1) PROVE Of(h, i) = Of(g, i)
        <3>1. \A b \in Before(p, i) : h[b] = g[b]
            BY DEF Before
        <3> HIDE DEF h
        <3>2. {h[b] : b \in Before(p, i)} = {g[b] : b \in Before(p, i)}
            BY <3>1
        <3> QED BY <3>2
    <2>3. ASSUME NEW i \in 1..(m + 1) PROVE h[i] = Of(g, i)
        <3>1. i # m + 1 => i \in 1..m
            OBVIOUS
        <3>2. i \in 1..m => g[i] = Of(g, i)
            <4> HIDE DEF Of
            <4> QED BY <2>1
        <3> QED BY <3>1, <3>2
    <2>4. h = [i \in 1..(m + 1) |-> Of(h, i)]
        <3>1. \A i \in 1..(m + 1) : h[i] = Of(h, i)
            BY <2>2, <2>3
        <3>2. h = [i \in 1..(m + 1) |-> h[i]]
            OBVIOUS
        <3> HIDE DEF h, Of
        <3> QED BY <3>1, <3>2
    <2> HIDE DEF h
    <2> QED BY <2>4
<1>3. Missing = {}
    <2> SUFFICES ASSUME Missing # {} PROVE FALSE
        OBVIOUS
    <2> HIDE DEF Upto
    <2>1. PICK m \in Missing : \A l \in Missing : m <= l
        BY LeastNumber
    <2>2. m # 0 /\ m - 1 \in Nat /\ m - 1 \notin Missing
        BY <1>1, <2>1
    <2>3. Upto((m - 1) + 1)
        BY <1>2, <2>2
    <2> QED BY <2>1, <2>2, <2>3
<1>4. Upto(n)
    <2> HIDE DEF Upto
    <2> QED BY <1>3
<1> QED BY <1>4 DEF IsContent

(* What a relation is made of.                                             *)
LEMMA ContentIs ==
    ASSUME NEW p, IsPlan(p), NEW i \in 1..Len(p)
    PROVE  Eager!ContentOf(p)[i]
               = {i} \union UNION {Eager!ContentOf(p)[b] : b \in Before(p, i)}
<1>1. Len(p) \in Nat
    BY PlanFacts
<1>2. \E g : IsContent(g, p, Len(p))
    BY <1>1, ContentExists
<1> DEFINE content[j \in 1..Len(p)] == {j} \union UNION {content[b] : b \in Before(p, j)}
<1>3. Eager!ContentOf(p) = content
    BY DEF Eager!ContentOf, Before
<1>4. content = [j \in 1..Len(p) |-> {j} \union UNION {content[b] : b \in Before(p, j)}]
    BY <1>2 DEF IsContent
<1> HIDE DEF content
<1>5. content[i] = {i} \union UNION {content[b] : b \in Before(p, i)}
    BY <1>4
<1> QED BY <1>3, <1>5

Whole(b) == Eager!ContentOf(plan)[b]
Parts(n) == UNION {Whole(Step.ins[k]) : k \in 1..n}

LEMMA PartsFacts ==
    ASSUME NEW n \in Nat
    PROVE  /\ Parts(0) = {} /\ Parts(1) = Whole(Step.ins[1])
           /\ Parts(n + 1) = Parts(n) \union Whole(Step.ins[n + 1])
<1>1. Parts(0) = {}
    BY DEF Parts
<1>2. \A k : k \in 1..(n + 1) <=> k \in 1..n \/ k = n + 1
    OBVIOUS
<1>3. \A x : x \in Parts(n + 1) <=> \E k \in 1..(n + 1) : x \in Whole(Step.ins[k])
    BY DEF Parts
<1>4. \A x : x \in Parts(n) <=> \E k \in 1..n : x \in Whole(Step.ins[k])
    BY DEF Parts
<1>5. \A x : x \in Parts(n + 1) <=> x \in Parts(n) \union Whole(Step.ins[n + 1])
    BY <1>2, <1>3, <1>4
<1>6. Parts(1) = Whole(Step.ins[1])
    <2>1. \A x : x \in Parts(1) <=> \E k \in 1..1 : x \in Whole(Step.ins[k])
        BY DEF Parts
    <2>2. \A k : k \in 1..1 <=> k = 1
        OBVIOUS
    <2>3. \A x : x \in Parts(1) <=> x \in Whole(Step.ins[1])
        BY <2>1, <2>2
    <2> QED BY <2>3
<1> QED BY <1>1, <1>5, <1>6

(* A step whose inputs are all behind it is made of itself and of them.    *)
LEMMA WholeIsParts ==
    ASSUME TypeInv, Running, \A k \in 1..Len(Step.ins) : Step.ins[k] < pc
    PROVE  Whole(pc) = {pc} \union Parts(Len(Step.ins))
<1>1. IsPlan(plan) /\ pc \in 1..Len(plan) /\ pc \in Nat
      /\ \A k \in 1..Len(Step.ins) : Step.ins[k] \in 1..Len(plan)
    BY StepFacts DEF TypeInv, TypeOK
<1>2. Len(plan) \in Nat
    BY <1>1, PlanFacts
<1>3. Whole(pc) = {pc} \union UNION {Whole(b) : b \in Before(plan, pc)}
    BY <1>1, ContentIs DEF Whole
<1>4. \A k \in 1..Len(Step.ins) : Step.ins[k] \in 1..(pc - 1)
    BY <1>1, <1>2
<1>5. \A b : b \in Before(plan, pc) <=> \E k \in 1..Len(Step.ins) : b = Step.ins[k]
    BY <1>4 DEF Before, Step
<1>6. \A x : x \in UNION {Whole(b) : b \in Before(plan, pc)}
               <=> \E b \in Before(plan, pc) : x \in Whole(b)
    OBVIOUS
<1>7. \A x : x \in Parts(Len(Step.ins)) <=> \E k \in 1..Len(Step.ins) : x \in Whole(Step.ins[k])
    BY DEF Parts
<1>8. \A x : x \in UNION {Whole(b) : b \in Before(plan, pc)} <=> x \in Parts(Len(Step.ins))
    BY <1>5, <1>6, <1>7
<1>9. UNION {Whole(b) : b \in Before(plan, pc)} = Parts(Len(Step.ins))
    BY <1>8
<1> QED BY <1>3, <1>9

LEMMA StoreContent ==
    ASSUME TypeInv, NEW b \in 1..Len(plan), NEW bytes \in Nat, NEW content \in SUBSET Nat,
           StoreRelation(b, bytes, content)
    PROVE  /\ bindings'[b].region.content = content /\ bindings'[b].region.bytes = bytes
           /\ \A n \in 1..Len(plan) : size'[n] = IF n = b THEN bytes ELSE size[n]
<1>1. DOMAIN bindings = 1..Len(plan) /\ DOMAIN size = 1..Len(plan)
    BY DEF TypeInv, TypeOK
<1> QED BY <1>1 DEF StoreRelation, Bind, Stored

---------------------------------------------------------------------------
(* The interpreter implements the eager plan *)

(* Whatever a relation went through, it is made of what its step depends   *)
(* on; a region, of the inputs registered in it.                           *)
ContentOK ==
    /\ \A b \in 1..Len(plan) :
          bindings[b].form # "none" => bindings[b].region.content = Whole(b)
    /\ pc <= Len(plan) => region.content = Parts(arg) /\ \A k \in 1..arg : Step.ins[k] < pc
    /\ exec.mode = "force" => exec.region.content = Whole(exec.rel)
    /\ exec.mode \in {"probe", "guard", "dedup"} => exec.region.content = Whole(pc)

ContentInv == status = "running" => ContentOK

LEMMA ContentInit == Init => ContentInv
<1> SUFFICES ASSUME Init PROVE ContentOK
    BY DEF ContentInv
<1>1. Parts(0) = {}
    BY PartsFacts
<1> QED BY <1>1 DEF Init, ContentOK, Unbound, Bind, EmptyRegion, NoExec

(* A merge whose inputs are all registered is about to write its content.  *)
LEMMA ComposedContent ==
    ASSUME TypeInv, Running, ContentOK, ~HasInput
    PROVE  Composed.content = Whole(pc)
<1>1. arg = Len(Step.ins) /\ arg \in Nat
    BY StepFacts DEF HasInput
<1>2. region.content = Parts(arg) /\ \A k \in 1..Len(Step.ins) : Step.ins[k] < pc
    BY <1>1 DEF ContentOK, Running
<1>3. Whole(pc) = {pc} \union Parts(arg)
    BY <1>1, <1>2, WholeIsParts
<1> QED BY <1>2, <1>3 DEF Composed, Plus, EmptyRegion

(* A step that ends, having bound what it should.                          *)
LEMMA ContentAdvance ==
    ASSUME TypeInv, ContentOK, Running, Advance, plan' = plan, exec'.mode = "idle",
           \A b \in 1..Len(plan) : bindings'[b].form # "none" =>
              \/ bindings[b].form # "none" /\ bindings'[b].region = bindings[b].region
              \/ bindings'[b].region.content = Whole(b)
    PROVE  ContentInv'
<1>1. Parts(0)' = {}
    BY DEF Parts
<1>2. \A b : Whole(b)' = Whole(b)
    BY DEF Whole
<1>3. \A b \in 1..Len(plan) : bindings'[b].form # "none" => bindings'[b].region.content = Whole(b)
    BY DEF ContentOK
<1>4. region'.content = {} /\ arg' = 0
    BY DEF Advance, EmptyRegion
<1>5. region'.content = Parts(arg)'
    BY <1>1, <1>4 DEF Parts
<1> QED BY <1>2, <1>3, <1>4, <1>5 DEF ContentInv, ContentOK

LEMMA ContentStay ==
    ASSUME TypeInv, ContentOK, Running, UNCHANGED <<plan, pc, arg, region>>,
           \A b \in 1..Len(plan) : bindings'[b].form # "none" =>
              \/ bindings[b].form # "none" /\ bindings'[b].region = bindings[b].region
              \/ bindings'[b].region.content = Whole(b),
           exec'.mode = "force" => exec'.region.content = Whole(exec'.rel),
           exec'.mode \in {"probe", "guard", "dedup"} => exec'.region.content = Whole(pc)
    PROVE  ContentInv'
<1>1. \A b : Whole(b)' = Whole(b)
    BY DEF Whole
<1>2. Parts(arg)' = Parts(arg) /\ Step' = Step
    BY DEF Parts, Whole, Step
<1>3. \A b \in 1..Len(plan) : bindings'[b].form # "none" => bindings'[b].region.content = Whole(b)
    BY DEF ContentOK
<1>4. Whole(exec.rel)' = Whole(exec'.rel) /\ Whole(pc)' = Whole(pc)
    BY DEF Whole
<1> QED BY <1>1, <1>2, <1>3, <1>4 DEF ContentInv, ContentOK

LEMMA ContentRegister ==
    ASSUME TypeInv, ContentOK, ReleasedInv, Idle, HasInput, bindings[Input].form # "none",
           \E r : Registered(r) /\ r.content = bindings[Input].region.content,
           \/ bindings' = bindings
           \/ bindings' = [bindings EXCEPT ![Input] = Unbound],
           UNCHANGED <<plan, pc, exec, status>>
    PROVE  ContentInv'
<1>1. Running /\ arg \in Nat /\ Input \in 1..Len(plan) /\ Input < pc /\ pc <= Len(plan)
      /\ exec.mode = "idle"
    BY StepFacts, BoundIsBehind DEF Idle, Running
<1>2. \A b : Whole(b)' = Whole(b)
    BY DEF Whole
<1>3. Parts(arg)' = Parts(arg + 1) /\ arg' = arg + 1 /\ Step' = Step
    BY DEF Parts, Whole, Step, Registered
<1>4. region'.content = Parts(arg + 1)
    <2>1. region'.content = region.content \union bindings[Input].region.content
        BY DEF Registered, Plus
    <2>2. bindings[Input].region.content = Whole(Step.ins[arg + 1])
        BY <1>1 DEF ContentOK, Input
    <2> QED BY <1>1, <2>1, <2>2, PartsFacts DEF ContentOK
<1>5. \A k \in 1..(arg + 1) : Step.ins[k] < pc
    <2>1. \A k \in 1..(arg + 1) : k = arg + 1 \/ k \in 1..arg
        BY <1>1
    <2> QED BY <1>1, <2>1 DEF ContentOK, Input
<1>6. \A b \in 1..Len(plan) : bindings'[b].form # "none" => bindings'[b].region.content = Whole(b)
    <2>1. \A b \in 1..Len(plan) : bindings'[b].form # "none" => bindings'[b] = bindings[b]
        <3>1. Unbound.form = "none" /\ DOMAIN bindings = 1..Len(plan)
            BY DEF Unbound, Bind, TypeInv, TypeOK
        <3>2. CASE bindings' = [bindings EXCEPT ![Input] = Unbound]
            BY <1>1, <3>1, <3>2
        <3> QED BY <3>2
    <2> QED BY <2>1 DEF ContentOK
<1> QED BY <1>1, <1>2, <1>3, <1>4, <1>5, <1>6 DEF ContentInv, ContentOK
LEMMA ContentStep ==
    TypeInv /\ ReleasedInv /\ ContentInv /\ [Next]_vars => ContentInv'
<1> SUFFICES ASSUME TypeInv, ReleasedInv, ContentInv, [Next]_vars PROVE ContentInv'
    OBVIOUS
<1>0. TypeInv'
    BY TypeInvStep
<1>1. CASE status' # "running"
    BY <1>1 DEF ContentInv
<1>2. CASE UNCHANGED vars
    <2>1. Parts(arg)' = Parts(arg) /\ Step' = Step /\ \A b : Whole(b)' = Whole(b)
        BY <1>2 DEF vars, Parts, Whole, Step
    <2>2. Whole(exec.rel)' = Whole(exec.rel) /\ Whole(pc)' = Whole(pc)
        BY <1>2 DEF vars, Whole
    <2> QED BY <1>2, <2>1, <2>2 DEF vars, ContentInv, ContentOK
<1>3. CASE SourceScan
    <2>1. Running /\ ContentOK /\ Advance /\ plan' = plan /\ exec'.mode = "idle"
          /\ Step.op = "scan" /\ pc \in 1..Len(plan) /\ {pc} \in SUBSET Nat /\ pc \in Nat
        BY <1>3, StepFacts DEF SourceScan, Idle, ContentInv, Running
    <2>2. PICK bytes \in Nat : StoreRelation(pc, bytes, {pc})
        BY <1>3, SizesAssumption DEF SourceScan
    <2>3. Whole(pc) = {pc}
        <3>1. Step.ins = <<>> /\ Len(Step.ins) = 0
            BY <2>1, EmptySeq DEF Step, TypeInv, TypeOK, IsPlan
        <3>2. Whole(pc) = {pc} \union Parts(0)
            BY <2>1, <3>1, WholeIsParts
        <3> QED BY <3>2, PartsFacts
    <2>4. bindings'[pc].region.content = Whole(pc)
        <3>1. bindings'[pc].region.content = {pc}
            BY <2>1, <2>2, StoreContent
        <3> QED BY <2>3, <3>1
    <2>5. \A b \in 1..Len(plan) : bindings'[b].form # "none" =>
             \/ bindings[b].form # "none" /\ bindings'[b].region = bindings[b].region
             \/ bindings'[b].region.content = Whole(b)
        BY <2>1, <2>2, <2>4, StoreRelationEffect DEF TypeInv
    <2> QED BY <2>1, <2>5, ContentAdvance
<1>4. CASE InjectedScan /\ status' = "running"
    <2>1. /\ Running /\ ContentOK /\ Advance /\ plan' = plan /\ exec'.mode = "idle"
          /\ Step.op = "inject" /\ pc \in 1..Len(plan) /\ pc \in Nat /\ arg = 0
          /\ status = "running"
        BY <1>4, StepFacts DEF InjectedScan, Idle, ContentInv, Running, Fail
    <2>2. \A b \in KeysRead : bindings[b].form = "keys"
        BY <1>4 DEF InjectedScan, KeysRead, Fail
    <2>3. \A k \in 1..Len(Step.ins) :
             Step.ins[k] \in KeysRead /\ Step.ins[k] < pc /\ Step.ins[k] \in 1..Len(plan)
        <3>1. \A k \in 1..Len(Step.ins) : Step.ins[k] \in KeysRead /\ Step.ins[k] \in 1..Len(plan)
            BY <2>1, StepFacts DEF KeysRead
        <3> QED BY <2>1, <2>2, <3>1, BoundIsBehind
    <2>4. PICK content : content = {pc} \union UNION {bindings[b].region.content : b \in KeysRead}
        OBVIOUS
    <2>5. content = Whole(pc)
        <3>1. \A b \in KeysRead : bindings[b].region.content = Whole(b)
            BY <2>1, <2>2, <2>3 DEF ContentOK, KeysRead
        <3>2. \A x : x \in UNION {bindings[b].region.content : b \in KeysRead}
                        <=> \E b \in KeysRead : x \in Whole(b)
            BY <3>1
        <3>3. \A b : b \in KeysRead <=> \E k \in 1..Len(Step.ins) : b = Step.ins[k]
            BY DEF KeysRead
        <3>4. \A x : x \in Parts(Len(Step.ins))
                        <=> \E k \in 1..Len(Step.ins) : x \in Whole(Step.ins[k])
            BY DEF Parts
        <3>5. \A x : x \in UNION {bindings[b].region.content : b \in KeysRead}
                        <=> x \in Parts(Len(Step.ins))
            BY <3>2, <3>3, <3>4
        <3>6. UNION {bindings[b].region.content : b \in KeysRead} = Parts(Len(Step.ins))
            BY <3>5
        <3>7. Whole(pc) = {pc} \union Parts(Len(Step.ins))
            BY <2>1, <2>3, WholeIsParts
        <3> QED BY <2>4, <3>6, <3>7
    <2>6. PICK bytes \in Nat : StoreRelation(pc, bytes, content)
        BY <1>4, <2>4, SizesAssumption DEF InjectedScan, KeysRead, Fail
    <2>7. content \in SUBSET Nat
        <3>1. \A b \in KeysRead : bindings[b].region.content \subseteq Nat
            BY <2>3 DEF KeysRead, TypeInv, TypeOK, RegionType
        <3> QED BY <2>1, <2>4, <3>1
    <2>8. bindings'[pc].region.content = Whole(pc)
        BY <2>1, <2>5, <2>6, <2>7, StoreContent
    <2>9. \A b \in 1..Len(plan) : bindings'[b].form # "none" =>
             \/ bindings[b].form # "none" /\ bindings'[b].region = bindings[b].region
             \/ bindings'[b].region.content = Whole(b)
        BY <2>1, <2>6, <2>7, <2>8, StoreRelationEffect DEF TypeInv
    <2> QED BY <2>1, <2>9, ContentAdvance
<1>5. CASE (CollectDistinct \/ Ship) /\ status' = "running"
    <2>1. /\ Running /\ ContentOK /\ Advance /\ plan' = plan /\ exec'.mode = "idle"
          /\ Step.op \in {"collect", "ship"} /\ bindings[Input].form # "none"
          /\ \/ bindings' = bindings
             \/ bindings' = [bindings EXCEPT ![pc] =
                    Bind("keys", Stored(0, bindings[Input].region.content \union {pc}))]
        BY <1>5 DEF CollectDistinct, Ship, Relation, Shippable, MissingRelation, Fail, Idle,
                    ContentInv, Running
    <2>2. /\ arg = 0 /\ Len(Step.ins) = 1 /\ Input \in 1..Len(plan) /\ pc \in 1..Len(plan)
          /\ Input = Step.ins[1]
        BY <2>1, StepFacts DEF Input
    <2>3. bindings[Input].region.content \union {pc} = Whole(pc)
        <3>1. Input < pc
            BY <2>1, <2>2, BoundIsBehind
        <3>2. Whole(pc) = {pc} \union Parts(1)
            BY <2>1, <2>2, <3>1, WholeIsParts
        <3>3. Parts(1) = Whole(Input)
            BY <2>2, PartsFacts
        <3> QED BY <2>1, <2>2, <3>2, <3>3 DEF ContentOK
    <2>4. \A b \in 1..Len(plan) :
             \/ bindings'[b] = bindings[b]
             \/ b = pc /\ bindings'[b].region.content = Whole(pc)
        <3>1. CASE bindings' = bindings
            BY <3>1
        <3>2. CASE bindings' = [bindings EXCEPT ![pc] =
                       Bind("keys", Stored(0, bindings[Input].region.content \union {pc}))]
            BY <2>3, <3>2 DEF Bind, Stored, TypeInv, TypeOK
        <3> QED BY <2>1, <3>1, <3>2
    <2> QED BY <2>1, <2>4, ContentAdvance
<1>6. CASE RegisterView
    BY <1>6, ContentRegister DEF RegisterView, Lazy, Idle, Running, ContentInv
<1>7. CASE RegisterSpilled \/ RegisterMemTable
    <2>1. \E ram \in BOOLEAN : Registered(LeafRegion(Input, ram))
        BY <1>7 DEF RegisterSpilled, RegisterMemTable
    <2>2. \A ram \in BOOLEAN : LeafRegion(Input, ram).content = bindings[Input].region.content
        BY DEF LeafRegion
    <2>3. \/ bindings' = bindings
          \/ bindings' = [bindings EXCEPT ![Input] = Unbound]
        BY <1>7 DEF RegisterSpilled, RegisterMemTable, Release
    <2> QED BY <1>7, <2>1, <2>2, <2>3, ContentRegister
            DEF RegisterSpilled, RegisterMemTable, Idle, Running, ContentInv
<1>8. CASE RunLazyFragment
    <2>1. /\ Running /\ ContentOK /\ Advance /\ plan' = plan /\ ~HasInput /\ exec'.mode = "idle"
          /\ bindings' = [bindings EXCEPT ![pc] = Bind("lazy", Composed)]
        BY <1>8 DEF RunLazyFragment, Idle, ContentInv, Running
    <2>2. Composed.content = Whole(pc)
        BY <2>1, ComposedContent
    <2>3. \A b \in 1..Len(plan) :
             \/ bindings'[b] = bindings[b]
             \/ b = pc /\ bindings'[b].region.content = Whole(pc)
        BY <2>1, <2>2 DEF Bind, TypeInv, TypeOK
    <2> QED BY <2>1, <2>3, ContentAdvance
<1>9. CASE EagerCompletes
    <2>1. /\ Running /\ ContentOK /\ Advance /\ plan' = plan /\ exec'.mode = "idle"
          /\ exec.mode \in {"probe", "guard", "dedup"}
        BY <1>9 DEF EagerCompletes, ContentInv, Running, NoExec
    <2>2. pc \in 1..Len(plan)
        BY <2>1, StepFacts
    <2>3. exec.region.content \in SUBSET Nat
        BY DEF TypeInv, TypeOK, RegionType
    <2>4. PICK bytes \in Nat : StoreRelation(pc, bytes, exec.region.content)
        BY <1>9, SizesAssumption DEF EagerCompletes
    <2>5. bindings'[pc].region.content = Whole(pc)
        BY <2>1, <2>2, <2>3, <2>4, StoreContent DEF ContentOK
    <2>6. \A b \in 1..Len(plan) : bindings'[b].form # "none" =>
             \/ bindings[b].form # "none" /\ bindings'[b].region = bindings[b].region
             \/ bindings'[b].region.content = Whole(b)
        BY <2>2, <2>3, <2>4, <2>5, StoreRelationEffect DEF TypeInv
    <2> QED BY <2>1, <2>6, ContentAdvance
<1>10. CASE ForceInput
    <2>1. /\ Running /\ ContentOK /\ UNCHANGED <<plan, pc, arg, region>> /\ Lazy(Input)
          /\ Input \in 1..Len(plan) /\ bindings' = [bindings EXCEPT ![Input] = Unbound]
          /\ exec'.mode = "force" /\ exec'.rel = Input /\ exec'.region = bindings[Input].region
        BY <1>10, StepFacts DEF ForceInput, ForceMaterialized, Idle, ContentInv, Running
    <2>2. \A b \in 1..Len(plan) : bindings'[b].form # "none" => bindings'[b] = bindings[b]
        BY <2>1 DEF Unbound, Bind, TypeInv, TypeOK
    <2>3. exec'.region.content = Whole(exec'.rel)
        BY <2>1 DEF ContentOK, Lazy
    <2> QED BY <2>1, <2>2, <2>3, ContentStay
<1>11. CASE ForceCompletes
    <2>1. /\ Running /\ ContentOK /\ UNCHANGED <<plan, pc, arg, region>> /\ exec'.mode = "idle"
          /\ exec.mode = "force" /\ exec.rel \in 1..Len(plan)
          /\ exec.region.content \in SUBSET Nat /\ exec.region.content = Whole(exec.rel)
        BY <1>11 DEF ForceCompletes, NoExec, TypeInv, TypeOK, ControlOK, RegionType, ContentInv,
                     ContentOK, Running
    <2>2. PICK bytes \in Nat : StoreRelation(exec.rel, bytes, exec.region.content)
        BY <1>11, SizesAssumption DEF ForceCompletes
    <2>3. bindings'[exec.rel].region.content = Whole(exec.rel)
        BY <2>1, <2>2, StoreContent
    <2>4. \A b \in 1..Len(plan) : bindings'[b].form # "none" =>
             \/ bindings[b].form # "none" /\ bindings'[b].region = bindings[b].region
             \/ bindings'[b].region.content = Whole(b)
        BY <2>1, <2>2, <2>3, StoreRelationEffect DEF TypeInv
    <2> QED BY <2>1, <2>4, ContentStay
<1>12. CASE (OperatorExhausted \/ GuardProbe) /\ status' = "running"
    <2>1. /\ Running /\ ContentOK /\ UNCHANGED <<plan, pc, arg, region, bindings>>
          /\ exec'.region = exec.region /\ exec'.rel = exec.rel
          /\ \/ exec.mode = "force" /\ exec'.mode = "force"
             \/ exec.mode = "probe" /\ exec'.mode = "guard"
        BY <1>12 DEF OperatorExhausted, GuardProbe, Fail, TypeInv, TypeOK, ContentInv, Running
    <2>2. exec'.mode = "force" => exec'.region.content = Whole(exec'.rel)
        BY <2>1 DEF ContentOK
    <2>3. exec'.mode \in {"probe", "guard", "dedup"} => exec'.region.content = Whole(pc)
        BY <2>1 DEF ContentOK
    <2> QED BY <2>1, <2>2, <2>3, ContentStay
<1>13. CASE BeginEagerFragment
    <2>1. /\ Running /\ ContentOK /\ UNCHANGED <<plan, pc, arg, region, bindings>> /\ ~HasInput
          /\ exec'.mode \in {"probe", "dedup"} /\ exec'.region = Composed
        BY <1>13 DEF BeginEagerFragment, Idle, ContentInv, Running
    <2>2. exec'.region.content = Whole(pc)
        BY <2>1, ComposedContent
    <2> QED BY <2>1, <2>2, ContentStay
<1>14. CASE EagerExhausted \/ RegisterFails \/ NoReturn \/ ExternalFailure \/ Return
    BY <1>1, <1>14
       DEF EagerExhausted, RegisterFails, NoReturn, ExternalFailure, Return,
           MissingRelation, Fail
<1> QED
    BY <1>1, <1>2, <1>3, <1>4, <1>5, <1>6, <1>7, <1>8, <1>9, <1>10, <1>11, <1>12, <1>13, <1>14
       DEF Next

(* Every step of the interpreter is a step of the eager plan, or none.     *)
LEMMA EagerInit == Init => Eager!Init
BY DEF Init, Eager!Init

LEMMA EagerStep ==
    TypeInv /\ ReleasedInv /\ ContentInv /\ [Next]_vars => [Eager!Next]_Eager!vars
<1> SUFFICES ASSUME TypeInv, ReleasedInv, ContentInv, [Next]_vars
             PROVE  [Eager!Next]_Eager!vars
    OBVIOUS
<1>1. CASE \E e : Fail(e) /\ status = "running"
    BY <1>1 DEF Fail, Eager!Next, Eager!GiveUp
<1>2. CASE Return
    <2>1. CASE MissingRelation(Input)
        BY <1>1, <1>2, <2>1 DEF MissingRelation, Return, Idle, Running
    <2>2. CASE Relation(Input) /\ status' = "returned" /\ result' = bindings[Input].region.content
               /\ UNCHANGED <<plan, pc>>
        <3>1. Running /\ Step.op = "return" /\ arg = 0 /\ Input \in 1..Len(plan) /\ ContentOK
            BY <1>2, StepFacts DEF Return, Idle, ContentInv, Running
        <3>2. result' = Whole(Input)
            BY <2>2, <3>1 DEF ContentOK, Relation
        <3>3. Input = plan[pc].ins[1]
            BY <3>1 DEF Input, Step
        <3> QED BY <2>2, <3>1, <3>2, <3>3
                DEF Eager!Next, Eager!Return, Whole, Step, Running
    <2> QED BY <1>2, <2>1, <2>2 DEF Return
<1>3. CASE Advance /\ Running /\ Step.op # "return" /\ UNCHANGED <<plan, status, result>>
    BY <1>3 DEF Advance, Running, Step, Eager!Next, Eager!Evaluate
<1>4. CASE UNCHANGED <<plan, pc, status, result>>
    BY <1>4 DEF Eager!vars
<1>5. CASE SourceScan \/ RunLazyFragment \/ EagerCompletes
    <2>1. Running /\ Advance /\ UNCHANGED <<plan, status, result>>
        BY <1>5 DEF SourceScan, RunLazyFragment, EagerCompletes, Idle
    <2>2. Step.op # "return"
        BY <1>5 DEF SourceScan, RunLazyFragment, EagerCompletes, LazyOps, EagerOps, TypeInv,
                    ControlOK
    <2> QED BY <1>3, <2>1, <2>2
<1>6. CASE InjectedScan \/ CollectDistinct \/ Ship
    BY <1>1, <1>3, <1>6 DEF InjectedScan, CollectDistinct, Ship, MissingRelation, Idle, Running
<1>7. CASE ForceInput \/ ForceCompletes \/ RegisterView \/ RegisterSpilled \/ RegisterMemTable
           \/ BeginEagerFragment
    BY <1>4, <1>7 DEF ForceInput, ForceMaterialized, ForceCompletes, RegisterView,
                      RegisterSpilled, RegisterMemTable, BeginEagerFragment
<1>8. CASE OperatorExhausted \/ GuardProbe
    BY <1>1, <1>4, <1>8 DEF OperatorExhausted, GuardProbe, Running
<1>9. CASE EagerExhausted \/ RegisterFails \/ NoReturn \/ ExternalFailure
    BY <1>1, <1>9 DEF EagerExhausted, RegisterFails, NoReturn, ExternalFailure,
                      MissingRelation, Idle, Running
<1>10. CASE UNCHANGED vars
    BY <1>4, <1>10 DEF vars
<1> QED BY <1>2, <1>5, <1>6, <1>7, <1>8, <1>9, <1>10 DEF Next

(* Lazy regions, forces, retries, spills and early releases do not show:   *)
(* a query returns what evaluating every step eagerly and keeping every    *)
(* binding would, or it fails.                                             *)
THEOREM ImplementsEager == Spec => ImplementsEagerPlan
BY TypeInvInit, TypeInvStep, UseCountsInit, UseCountsStep, ReleasedInit, ReleasedStep,
   ContentInit, ContentStep, EagerInit, EagerStep, PTL
   DEF Spec, ImplementsEagerPlan, Eager!Spec
---------------------------------------------------------------------------
(* Sums over finite sets: the fold Held and Priced are built from, as a    *)
(* function                                                                *)

(* Induction on numbers, and on the subsets of a finite set.               *)
LEMMA NumberInduction ==
    ASSUME NEW T \in SUBSET Nat, 0 \in T, \A n \in T : n + 1 \in T
    PROVE  T = Nat
<1> SUFFICES ASSUME Nat \ T # {} PROVE FALSE
    OBVIOUS
<1>1. PICK n \in Nat \ T : \A m \in Nat \ T : n <= m
    BY LeastNumber
<1>2. n # 0 /\ n - 1 \in Nat
    BY <1>1
<1>3. n - 1 \in T
    BY <1>1, <1>2
<1>4. (n - 1) + 1 \in T
    BY <1>3
<1> QED BY <1>1, <1>4

LEMMA SubsetInduction ==
    ASSUME NEW S, IsFiniteSet(S), NEW P \in SUBSET (SUBSET S),
           \A s \in SUBSET S : (\A x \in s : s \ {x} \in P) => s \in P
    PROVE  P = SUBSET S
<1> DEFINE T == {n \in Nat : \A s \in SUBSET S : Cardinality(s) = n => s \in P}
<1>1. \A s \in SUBSET S : IsFiniteSet(s) /\ Cardinality(s) \in Nat
    BY FS_Subset, FS_CardinalityType
<1>2. 0 \in T
    <2> SUFFICES ASSUME NEW s \in SUBSET S, Cardinality(s) = 0 PROVE s \in P
        OBVIOUS
    <2>1. s = {}
        BY <1>1, FS_EmptySet
    <2> QED BY <2>1
<1>3. ASSUME NEW n \in T PROVE n + 1 \in T
    <2> SUFFICES ASSUME NEW s \in SUBSET S, Cardinality(s) = n + 1 PROVE s \in P
        OBVIOUS
    <2>1. ASSUME NEW x \in s PROVE s \ {x} \in P
        <3>1. Cardinality(s \ {x}) = Cardinality(s) - 1
            BY <1>1, FS_RemoveElement
        <3>2. n \in Nat /\ Cardinality(s \ {x}) = n /\ s \ {x} \in SUBSET S
            BY <3>1
        <3> QED BY <3>2
    <2> QED BY <2>1
<1>4. T = Nat
    <2>1. T \in SUBSET Nat
        OBVIOUS
    <2> HIDE DEF T
    <2>2. \A n \in T : n + 1 \in T
        BY <1>3
    <2> QED BY <1>2, <2>1, <2>2, NumberInduction
<1> QED BY <1>1, <1>4

(* What adding the weights of the elements in the order CHOOSE picks them  *)
(* gives for each subset of S.                                             *)
First(s) == CHOOSE x \in s : TRUE
IsSum(g, w, S) ==
    g = [s \in SUBSET S |-> IF s = {} THEN 0 ELSE w[First(s)] + g[s \ {First(s)}]]

LEMMA FirstIn == ASSUME NEW s, s # {} PROVE First(s) \in s
BY DEF First

LEMMA SumExists ==
    ASSUME NEW S, IsFiniteSet(S), NEW w
    PROVE  \E g : IsSum(g, w, S)
<1> DEFINE Small(n) == {s \in SUBSET S : Cardinality(s) <= n}
           Sum(g, s) == IF s = {} THEN 0 ELSE w[First(s)] + g[s \ {First(s)}]
           T == {n \in Nat : \E g : g = [s \in Small(n) |-> Sum(g, s)]}
<1>1. \A s \in SUBSET S : IsFiniteSet(s) /\ Cardinality(s) \in Nat
    BY FS_Subset, FS_CardinalityType
<1>2. 0 \in T
    <2> DEFINE g == [s \in Small(0) |-> 0]
    <2>1. \A s \in Small(0) : s = {}
        BY <1>1, FS_EmptySet
    <2>2. g = [s \in Small(0) |-> Sum(g, s)]
        BY <2>1
    <2> HIDE DEF g
    <2> QED BY <2>2
<1>3. ASSUME NEW n \in T PROVE n + 1 \in T
    <2>1. PICK g : g = [s \in Small(n) |-> Sum(g, s)]
        OBVIOUS
    <2> DEFINE h == [s \in Small(n + 1) |-> IF s \in Small(n) THEN g[s] ELSE Sum(g, s)]
    <2>2. ASSUME NEW s \in Small(n + 1), s # {} PROVE s \ {First(s)} \in Small(n)
        <3>1. First(s) \in s
            BY <2>2, FirstIn
        <3>2. Cardinality(s \ {First(s)}) = Cardinality(s) - 1
            BY <1>1, <3>1, FS_RemoveElement
        <3> QED BY <1>1, <3>2
    <2>3. \A s \in Small(n) : s \in Small(n + 1)
        BY <1>1
    <2>4. ASSUME NEW s \in Small(n + 1) PROVE Sum(h, s) = Sum(g, s)
        <3>1. s # {} => h[s \ {First(s)}] = g[s \ {First(s)}]
            BY <2>2, <2>3
        <3> HIDE DEF h
        <3> QED BY <3>1
    <2>5. ASSUME NEW s \in Small(n + 1) PROVE h[s] = Sum(g, s)
        <3>1. s \in Small(n) => g[s] = Sum(g, s)
            <4> HIDE DEF Sum
            <4> QED BY <2>1
        <3> QED BY <3>1
    <2>6. h = [s \in Small(n + 1) |-> Sum(h, s)]
        <3>1. \A s \in Small(n + 1) : h[s] = Sum(h, s)
            BY <2>4, <2>5
        <3>2. h = [s \in Small(n + 1) |-> h[s]]
            OBVIOUS
        <3> HIDE DEF h, Sum, Small
        <3> QED BY <3>1, <3>2
    <2> HIDE DEF h, Sum, Small
    <2>7. \E f : f = [s \in Small(n + 1) |-> Sum(f, s)]
        BY <2>6
    <2> QED BY <2>7
<1>4. T = Nat
    <2>1. T \in SUBSET Nat
        OBVIOUS
    <2> HIDE DEF T
    <2>2. \A n \in T : n + 1 \in T
        BY <1>3
    <2> QED BY <1>2, <2>1, <2>2, NumberInduction
<1>5. Cardinality(S) \in T
    <2> HIDE DEF T
    <2> QED BY <1>1, <1>4
<1>6. Small(Cardinality(S)) = SUBSET S
    BY FS_Subset
<1>7. PICK g : g = [s \in Small(Cardinality(S)) |-> Sum(g, s)]
    BY <1>5
<1>8. g = [s \in SUBSET S |-> Sum(g, s)]
    BY <1>6, <1>7
<1> QED BY <1>8 DEF IsSum

LEMMA SumStep ==
    ASSUME NEW S, NEW w, NEW g, IsSum(g, w, S), NEW s \in SUBSET S
    PROVE  g[s] = IF s = {} THEN 0 ELSE w[First(s)] + g[s \ {First(s)}]
BY DEF IsSum

LEMMA SumNat ==
    ASSUME NEW S, IsFiniteSet(S), NEW w, \A x \in S : w[x] \in Nat, NEW g, IsSum(g, w, S)
    PROVE  \A s \in SUBSET S : g[s] \in Nat
<1> DEFINE P == {s \in SUBSET S : g[s] \in Nat}
<1>1. ASSUME NEW s \in SUBSET S, \A x \in s : s \ {x} \in P PROVE s \in P
    <2>1. g[s] = IF s = {} THEN 0 ELSE w[First(s)] + g[s \ {First(s)}]
        BY SumStep
    <2>2. CASE s = {}
        BY <2>1, <2>2
    <2>3. CASE s # {}
        <3>1. First(s) \in s
            BY <2>3, FirstIn
        <3>2. g[s \ {First(s)}] \in Nat
            BY <1>1, <3>1
        <3>3. w[First(s)] \in Nat
            BY <3>1
        <3>4. g[s] = w[First(s)] + g[s \ {First(s)}]
            BY <2>1, <2>3
        <3> QED BY <3>2, <3>3, <3>4
    <2> QED BY <2>2, <2>3
<1>2. P \in SUBSET (SUBSET S)
    OBVIOUS
<1>3. P = SUBSET S
    <2> HIDE DEF P
    <2> QED BY <1>1, <1>2, SubsetInduction
<1> QED BY <1>3

(* Any element may be added last.                                          *)
LEMMA SumRemove ==
    ASSUME NEW S, IsFiniteSet(S), NEW w, \A x \in S : w[x] \in Nat, NEW g, IsSum(g, w, S)
    PROVE  \A s \in SUBSET S : \A x \in s : g[s] = w[x] + g[s \ {x}]
<1> DEFINE P == {s \in SUBSET S : \A x \in s : g[s] = w[x] + g[s \ {x}]}
<1>1. ASSUME NEW s \in SUBSET S, \A x \in s : s \ {x} \in P PROVE s \in P
    <2> SUFFICES ASSUME NEW x \in s PROVE g[s] = w[x] + g[s \ {x}]
        OBVIOUS
    <2>1. g[s] = IF s = {} THEN 0 ELSE w[First(s)] + g[s \ {First(s)}]
        BY SumStep
    <2>2. First(s) \in s
        BY FirstIn
    <2>3. PICK f \in s : f = First(s)
        BY <2>2
    <2>4. g[s] = w[f] + g[s \ {f}]
        BY <2>1, <2>3
    <2>5. CASE x # f
        <3>1. g[s \ {f}] = w[x] + g[(s \ {f}) \ {x}]
            BY <1>1, <2>5
        <3>2. g[s \ {x}] = w[f] + g[(s \ {x}) \ {f}]
            BY <1>1, <2>5
        <3>3. (s \ {f}) \ {x} = (s \ {x}) \ {f} /\ (s \ {f}) \ {x} \in SUBSET S
            OBVIOUS
        <3>4. g[(s \ {f}) \ {x}] \in Nat
            BY <3>3, SumNat
        <3>5. w[x] \in Nat /\ w[f] \in Nat
            OBVIOUS
        <3>6. PICK rest \in Nat : rest = g[(s \ {f}) \ {x}]
            BY <3>4
        <3>7. g[s \ {f}] = w[x] + rest /\ g[s \ {x}] = w[f] + rest
            BY <3>1, <3>2, <3>3, <3>6
        <3>8. g[s] = w[f] + (w[x] + rest)
            BY <2>4, <3>7
        <3>9. w[f] + (w[x] + rest) = w[x] + (w[f] + rest)
            BY <3>5
        <3> QED BY <3>7, <3>8, <3>9
    <2>6. CASE x = f
        BY <2>4, <2>6
    <2> QED BY <2>5, <2>6
<1>2. P \in SUBSET (SUBSET S)
    OBVIOUS
<1>3. P = SUBSET S
    <2> HIDE DEF P
    <2> QED BY <1>1, <1>2, SubsetInduction
<1> QED BY <1>3

(* A sum depends on the weights of its own elements only.                  *)
LEMMA SumAgree ==
    ASSUME NEW S, IsFiniteSet(S), NEW w, NEW g, IsSum(g, w, S),
           NEW R, NEW v, NEW f, IsSum(f, v, R)
    PROVE  \A s \in SUBSET S : s \subseteq R /\ (\A x \in s : w[x] = v[x]) => g[s] = f[s]
<1> DEFINE P == {s \in SUBSET S : s \subseteq R /\ (\A x \in s : w[x] = v[x]) => g[s] = f[s]}
<1>1. ASSUME NEW s \in SUBSET S, \A x \in s : s \ {x} \in P PROVE s \in P
    <2> SUFFICES ASSUME s \subseteq R, \A x \in s : w[x] = v[x] PROVE g[s] = f[s]
        OBVIOUS
    <2>1. g[s] = IF s = {} THEN 0 ELSE w[First(s)] + g[s \ {First(s)}]
        BY SumStep
    <2>2. f[s] = IF s = {} THEN 0 ELSE v[First(s)] + f[s \ {First(s)}]
        <3>1. s \in SUBSET R
            OBVIOUS
        <3> HIDE DEF P
        <3> QED BY <3>1, SumStep
    <2>3. s # {} => First(s) \in s
        BY FirstIn
    <2>4. s # {} => g[s \ {First(s)}] = f[s \ {First(s)}]
        BY <1>1, <2>3
    <2> QED BY <2>1, <2>2, <2>3, <2>4
<1>2. P \in SUBSET (SUBSET S)
    OBVIOUS
<1>3. P = SUBSET S
    <2> HIDE DEF P
    <2> QED BY <1>1, <1>2, SubsetInduction
<1> QED BY <1>3

SumOver(w, S) == (CHOOSE g : IsSum(g, w, S))[S]

LEMMA SumOverIs ==
    ASSUME NEW S, IsFiniteSet(S), NEW w, NEW R, NEW v, NEW f, IsSum(f, v, R),
           S \subseteq R, \A x \in S : w[x] = v[x]
    PROVE  SumOver(w, S) = f[S]
<1>1. PICK g : IsSum(g, w, S) /\ g = CHOOSE h : IsSum(h, w, S)
    <2>1. \E h : IsSum(h, w, S)
        BY SumExists
    <2>2. IsSum(CHOOSE h : IsSum(h, w, S), w, S)
        BY <2>1
    <2> QED BY <2>2
<1>2. g[S] = f[S]
    BY <1>1, SumAgree
<1> QED BY <1>1, <1>2 DEF SumOver

LEMMA SumFacts ==
    ASSUME NEW S, IsFiniteSet(S), NEW w, \A x \in S : w[x] \in Nat
    PROVE  /\ SumOver(w, S) \in Nat
           /\ S = {} => SumOver(w, S) = 0
           /\ \A x \in S : SumOver(w, S) = w[x] + SumOver(w, S \ {x})
<1>1. PICK g : IsSum(g, w, S)
    BY SumExists
<1>2. \A s \in SUBSET S : SumOver(w, s) = g[s]
    <2> TAKE s \in SUBSET S
    <2>1. IsFiniteSet(s)
        BY FS_Subset
    <2> QED BY <1>1, <2>1, SumOverIs
<1>3. SumOver(w, S) = g[S] /\ \A x \in S : SumOver(w, S \ {x}) = g[S \ {x}]
    BY <1>2
<1>4. S \in SUBSET S
    OBVIOUS
<1>5. SumOver(w, S) \in Nat
    BY <1>1, <1>3, <1>4, SumNat
<1>6. S = {} => SumOver(w, S) = 0
    BY <1>1, <1>3, <1>4, SumStep
<1>7. \A x \in S : SumOver(w, S) = w[x] + SumOver(w, S \ {x})
    <2>1. \A x \in S : g[S] = w[x] + g[S \ {x}]
        BY <1>1, <1>4, SumRemove
    <2> QED BY <1>3, <2>1
<1> QED BY <1>5, <1>6, <1>7

LEMMA SumCongruent ==
    ASSUME NEW S, IsFiniteSet(S), NEW w, NEW v, \A x \in S : w[x] = v[x]
    PROVE  SumOver(w, S) = SumOver(v, S)
<1>1. PICK f : IsSum(f, v, S)
    BY SumExists
<1>2. SumOver(w, S) = f[S]
    BY <1>1, SumOverIs
<1>3. SumOver(v, S) = f[S]
    BY <1>1, SumOverIs
<1> QED BY <1>2, <1>3

LEMMA SumMonotone ==
    ASSUME NEW S, IsFiniteSet(S), NEW w, \A x \in S : w[x] \in Nat, NEW T \in SUBSET S
    PROVE  SumOver(w, T) <= SumOver(w, S)
<1>1. PICK g : IsSum(g, w, S)
    BY SumExists
<1> DEFINE P == {s \in SUBSET S : T \subseteq s => g[T] <= g[s]}
<1>2. \A s \in SUBSET S : g[s] \in Nat
    BY <1>1, SumNat
<1>3. ASSUME NEW s \in SUBSET S, \A x \in s : s \ {x} \in P PROVE s \in P
    <2> SUFFICES ASSUME T \subseteq s PROVE g[T] <= g[s]
        OBVIOUS
    <2>1. CASE s = T
        BY <1>2, <2>1
    <2>2. CASE s # T
        <3>1. PICK x \in s : x \notin T
            BY <2>2
        <3>2. g[s] = w[x] + g[s \ {x}]
            BY <1>1, SumRemove
        <3>3. g[T] <= g[s \ {x}]
            BY <1>3, <3>1
        <3>4. g[T] \in Nat /\ g[s \ {x}] \in Nat /\ w[x] \in Nat
            BY <1>2
        <3> QED BY <3>2, <3>3, <3>4
    <2> QED BY <2>1, <2>2
<1>4. P \in SUBSET (SUBSET S)
    OBVIOUS
<1>5. P = SUBSET S
    <2> HIDE DEF P
    <2> QED BY <1>3, <1>4, SubsetInduction
<1>6. g[T] <= g[S]
    BY <1>5
<1>7. SumOver(w, T) = g[T] /\ SumOver(w, S) = g[S]
    <2>1. IsFiniteSet(T)
        BY FS_Subset
    <2> QED BY <1>1, <2>1, SumOverIs
<1> QED BY <1>6, <1>7

---------------------------------------------------------------------------
(* What is resident fits the budget *)

(* The fold Held is defined by computes the sum of the sizes.              *)
HeldIn(map, S) == MapThenSumSet(LAMBDA b : map[b].region.bytes, S)
BytesIn(map) == [b \in DOMAIN map |-> map[b].region.bytes]

LEMMA HeldInIsSum ==
    ASSUME NEW map, NEW S \in SUBSET DOMAIN map, IsFiniteSet(S)
    PROVE  HeldIn(map, S) = SumOver(BytesIn(map), S)
<1> DEFINE W == BytesIn(map)
<1>1. \A s \in SUBSET S : s # {} => W[First(s)] = map[First(s)].region.bytes
    BY FirstIn DEF BytesIn
<1> HIDE DEF W
<1>2. PICK g : IsSum(g, W, S)
    BY SumExists
<1>3. ASSUME NEW h
      PROVE  [s \in SUBSET S |-> IF s = {} THEN 0 ELSE W[First(s)] + h[s \ {First(s)}]]
             = [s \in SUBSET S |-> IF s = {} THEN 0
                                   ELSE map[First(s)].region.bytes + h[s \ {First(s)}]]
    <2>1. \A s \in SUBSET S :
             (IF s = {} THEN 0 ELSE W[First(s)] + h[s \ {First(s)}])
             = (IF s = {} THEN 0 ELSE map[First(s)].region.bytes + h[s \ {First(s)}])
        BY <1>1
    <2> QED BY <2>1
<1>4. g = [s \in SUBSET S |-> IF s = {} THEN 0
                              ELSE map[First(s)].region.bytes + g[s \ {First(s)}]]
    BY <1>2, <1>3 DEF IsSum
<1> DEFINE iter[s \in SUBSET S] ==
        IF s = {} THEN 0 ELSE map[First(s)].region.bytes + iter[s \ {First(s)}]
<1>5. HeldIn(map, S) = iter[S]
    BY DEF HeldIn, MapThenSumSet, MapThenFoldSet, First
<1>6. iter = [s \in SUBSET S |-> IF s = {} THEN 0
                                 ELSE map[First(s)].region.bytes + iter[s \ {First(s)}]]
    BY <1>4
<1> HIDE DEF iter
<1>7. IsSum(iter, W, S)
    BY <1>3, <1>6 DEF IsSum
<1>8. SumOver(W, S) = iter[S]
    BY <1>7, SumOverIs
<1> QED BY <1>5, <1>8 DEF W

LEMMA HeldIs ==
    ASSUME NEW S
    PROVE  Held(S) = HeldIn(bindings, S) /\ Held(Resident) = HeldIn(bindings, Resident)
           /\ Held(Resident)' = HeldIn(bindings', Resident')
BY DEF Held, HeldIn, MapThenSumSet, MapThenFoldSet

(* Moving bindings out of memory, or keeping them as they are, holds no    *)
(* more than before.                                                       *)
LEMMA HeldShrinks ==
    ASSUME NEW map, NEW maq, NEW S \in SUBSET DOMAIN map, NEW T \in SUBSET S,
           T \subseteq DOMAIN maq, IsFiniteSet(S),
           \A b \in S : map[b].region.bytes \in Nat,
           \A b \in T : maq[b].region.bytes = map[b].region.bytes
    PROVE  HeldIn(maq, T) <= HeldIn(map, S) /\ HeldIn(maq, T) \in Nat
<1>1. IsFiniteSet(T)
    BY FS_Subset
<1>2. HeldIn(map, S) = SumOver(BytesIn(map), S)
    BY HeldInIsSum
<1>3. HeldIn(maq, T) = SumOver(BytesIn(maq), T)
    BY <1>1, HeldInIsSum
<1>4. \A b \in T : BytesIn(maq)[b] = BytesIn(map)[b]
    BY DEF BytesIn
<1>5. \A b \in S : BytesIn(map)[b] \in Nat
    BY DEF BytesIn
<1>6. SumOver(BytesIn(maq), T) = SumOver(BytesIn(map), T)
    BY <1>1, <1>4, SumCongruent
<1>7. SumOver(BytesIn(map), T) <= SumOver(BytesIn(map), S)
    BY <1>5, SumMonotone
<1>8. SumOver(BytesIn(map), T) \in Nat
    BY <1>1, <1>5, SumFacts
<1> QED BY <1>2, <1>3, <1>6, <1>7, <1>8

LEMMA ResidentFacts ==
    ASSUME TypeInv
    PROVE  /\ DOMAIN bindings = 1..Len(plan) /\ Resident \in SUBSET (1..Len(plan))
           /\ IsFiniteSet(1..Len(plan)) /\ IsFiniteSet(Resident)
           /\ \A b \in 1..Len(plan) : bindings[b].region.bytes \in Nat
<1>1. DOMAIN bindings = 1..Len(plan)
    BY DEF TypeInv, TypeOK
<1>2. Len(plan) \in Nat /\ IsFiniteSet(1..Len(plan))
    BY PlanFacts, FS_Interval DEF TypeInv, TypeOK
<1>3. Resident \in SUBSET (1..Len(plan))
    BY <1>1 DEF Resident
<1>4. IsFiniteSet(Resident)
    BY <1>2, <1>3, FS_Subset
<1>5. \A b \in 1..Len(plan) : bindings[b].region.bytes \in Nat
    BY DEF TypeInv, TypeOK, RegionType
<1> QED BY <1>1, <1>2, <1>3, <1>4, <1>5

LEMMA BudgetShrinks ==
    ASSUME TypeInv, TypeInv', ResidentWithinBudget, plan' = plan,
           \A b \in 1..Len(plan) : bindings'[b].form = "materialized" =>
              /\ bindings[b].form = "materialized"
              /\ bindings'[b].region.bytes = bindings[b].region.bytes
    PROVE  ResidentWithinBudget'
<1>1. DOMAIN bindings' = 1..Len(plan)
    BY DEF TypeInv, TypeOK
<1>2. Resident' \in SUBSET Resident
    BY <1>1, ResidentFacts DEF Resident
<1>3. \A b \in Resident' : bindings'[b].region.bytes = bindings[b].region.bytes
    BY <1>1 DEF Resident
<1>4. \A b \in Resident : bindings[b].region.bytes \in Nat
    BY ResidentFacts
<1>5. Resident \in SUBSET DOMAIN bindings /\ Resident' \subseteq DOMAIN bindings' /\ IsFiniteSet(Resident)
    BY <1>1, <1>2, ResidentFacts
<1>6. HeldIn(bindings', Resident') <= HeldIn(bindings, Resident) /\ HeldIn(bindings', Resident') \in Nat
    BY <1>2, <1>3, <1>4, <1>5, HeldShrinks
<1>7. HeldIn(bindings, Resident) \in Nat
    BY <1>4, <1>5, HeldShrinks
<1> QED BY <1>6, <1>7, HeldIs, BudgetAssumption DEF ResidentWithinBudget

(* The point of the eviction: what is to be stored fits beside what stays, *)
(* or is alone, or goes to disk.                                           *)
LEMMA BudgetStore ==
    ASSUME TypeInv, TypeInv', ResidentWithinBudget, plan' = plan,
           NEW b \in 1..Len(plan), NEW bytes \in Nat, NEW content, StoreRelation(b, bytes, content)
    PROVE  ResidentWithinBudget'
<1>1. PICK E \in Evictions(bytes) :
        bindings' = [n \in DOMAIN bindings |->
              IF n = b THEN Bind(StoredForm(bytes), Stored(bytes, content))
              ELSE IF n \in E THEN [bindings[n] EXCEPT !.form = "spilled"]
              ELSE bindings[n]]
    BY DEF StoreRelation
<1>2. E \subseteq Resident /\ (E = Resident \/ Fits(E, bytes))
    BY DEF Evictions
<1>3. /\ DOMAIN bindings = 1..Len(plan) /\ DOMAIN bindings' = 1..Len(plan)
      /\ \A n \in 1..Len(plan) : n # b /\ n \in E => bindings'[n].form # "materialized"
      /\ \A n \in 1..Len(plan) : n # b /\ n \notin E => bindings'[n] = bindings[n]
      /\ bindings'[b].region.bytes = bytes
      /\ bindings'[b].form = "materialized" => bytes <= Budget
    <2>1. DOMAIN bindings = 1..Len(plan) /\ DOMAIN bindings' = 1..Len(plan)
        BY DEF TypeInv, TypeOK
    <2>2. \A n \in 1..Len(plan) : n # b /\ n \in E => bindings'[n].form # "materialized"
        BY <1>1, <2>1 DEF TypeInv, TypeOK
    <2>3. \A n \in 1..Len(plan) : n # b /\ n \notin E => bindings'[n] = bindings[n]
        BY <1>1, <2>1
    <2>4. bindings'[b] = Bind(StoredForm(bytes), Stored(bytes, content))
        BY <1>1, <2>1
    <2> QED BY <2>1, <2>2, <2>3, <2>4, BudgetAssumption DEF Bind, Stored, StoredForm
<1> DEFINE Stay == Resident \ E
           Rest == Resident' \ {b}
<1>4. Rest \in SUBSET Stay
    BY <1>3 DEF Resident
<1>5. Stay \in SUBSET DOMAIN bindings /\ IsFiniteSet(Stay) /\ \A n \in Stay : bindings[n].region.bytes \in Nat
    <2>1. Stay \in SUBSET Resident
        OBVIOUS
    <2> QED BY <2>1, ResidentFacts, FS_Subset
<1>6. Rest \subseteq DOMAIN bindings' /\ \A n \in Rest : bindings'[n].region.bytes = bindings[n].region.bytes
    BY <1>3 DEF Resident
<1>7. IsFiniteSet(Resident') /\ Resident' \in SUBSET DOMAIN bindings' /\ Rest \in SUBSET DOMAIN bindings'
    <2>1. Resident' \in SUBSET (1..Len(plan))
        BY <1>3 DEF Resident
    <2> QED BY <1>3, <2>1, ResidentFacts, FS_Subset
<1> HIDE DEF Stay
<1>8. HeldIn(bindings', Rest) <= HeldIn(bindings, Stay) /\ HeldIn(bindings', Rest) \in Nat
    <2> HIDE DEF Rest
    <2> QED BY <1>4, <1>5, <1>6, HeldShrinks
<1>9. HeldIn(bindings, Stay) \in Nat
    BY <1>5, HeldShrinks
<1>10. CASE bindings'[b].form # "materialized"
    <2>1. Rest = Resident'
        BY <1>10 DEF Resident
    <2>2. CASE E = Resident
        <3>1. Rest = {}
            BY <1>4, <2>2 DEF Stay
        <3>2. HeldIn(bindings', Rest) = 0
            <4>1. HeldIn(bindings', {}) = SumOver(BytesIn(bindings'), {})
                BY HeldInIsSum, FS_EmptySet
            <4>2. SumOver(BytesIn(bindings'), {}) = 0
                BY SumFacts, FS_EmptySet
            <4> QED BY <3>1, <4>1, <4>2
        <3>3. HeldIn(bindings', Resident') = 0
            BY <2>1, <3>2
        <3>4. Held(Resident)' = 0
            BY <3>3, HeldIs
        <3> QED BY <3>4, BudgetAssumption DEF ResidentWithinBudget
    <2>3. CASE Fits(E, bytes)
        <3>1. HeldIn(bindings, Stay) + bytes <= Budget
            BY <2>3, HeldIs DEF Fits, Stay
        <3>2. HeldIn(bindings', Rest) <= Budget
            <4> HIDE DEF Rest
            <4> QED BY <1>8, <1>9, <3>1, BudgetAssumption
        <3> QED BY <2>1, <3>2, HeldIs DEF ResidentWithinBudget
    <2> QED BY <1>2, <2>2, <2>3
<1>11. CASE bindings'[b].form = "materialized"
    <2>1. b \in Resident'
        BY <1>3, <1>11 DEF Resident
    <2>2. HeldIn(bindings', Resident') = bytes + HeldIn(bindings', Rest)
        <3>1. \A n \in Resident' : BytesIn(bindings')[n] \in Nat
            <4>1. \A n \in 1..Len(plan) : bindings'[n].region.bytes \in Nat
                BY DEF TypeInv, TypeOK, RegionType
            <4> QED BY <1>3, <1>7, <4>1 DEF BytesIn
        <3>2. SumOver(BytesIn(bindings'), Resident')
              = BytesIn(bindings')[b] + SumOver(BytesIn(bindings'), Rest)
            BY <1>7, <2>1, <3>1, SumFacts
        <3>3. BytesIn(bindings')[b] = bytes
            BY <1>3 DEF BytesIn
        <3>4. IsFiniteSet(Rest)
            BY <1>7, FS_Subset
        <3>5. HeldIn(bindings', Resident') = SumOver(BytesIn(bindings'), Resident')
            BY <1>7, HeldInIsSum
        <3>6. HeldIn(bindings', Rest) = SumOver(BytesIn(bindings'), Rest)
            BY <1>7, <3>4, HeldInIsSum
        <3> QED BY <3>2, <3>3, <3>5, <3>6
    <2>3. CASE E = Resident
        <3>1. Rest = {}
            BY <1>4, <2>3 DEF Stay
        <3>2. HeldIn(bindings', Rest) = 0
            <4>1. HeldIn(bindings', {}) = SumOver(BytesIn(bindings'), {})
                BY HeldInIsSum, FS_EmptySet
            <4>2. SumOver(BytesIn(bindings'), {}) = 0
                BY SumFacts, FS_EmptySet
            <4> QED BY <3>1, <4>1, <4>2
        <3>3. HeldIn(bindings', Resident') <= Budget
            <4> HIDE DEF Rest
            <4> QED BY <1>3, <1>11, <2>2, <3>2, BudgetAssumption
        <3> QED BY <3>3, HeldIs DEF ResidentWithinBudget
    <2>4. CASE Fits(E, bytes)
        <3>1. HeldIn(bindings, Stay) + bytes <= Budget
            BY <2>4, HeldIs DEF Fits, Stay
        <3>2. HeldIn(bindings', Resident') <= Budget
            <4> HIDE DEF Rest
            <4> QED BY <1>8, <1>9, <2>2, <3>1, BudgetAssumption
        <3> QED BY <3>2, HeldIs DEF ResidentWithinBudget
    <2> QED BY <1>2, <2>3, <2>4
<1> QED BY <1>10, <1>11

LEMMA BudgetInit == Init => ResidentWithinBudget
<1> SUFFICES ASSUME Init PROVE ResidentWithinBudget
    OBVIOUS
<1>1. Resident = {}
    BY DEF Init, Resident, Unbound, Bind
<1>2. HeldIn(bindings, {}) = SumOver(BytesIn(bindings), {})
    BY HeldInIsSum, FS_EmptySet
<1>3. SumOver(BytesIn(bindings), {}) = 0
    BY SumFacts, FS_EmptySet
<1> QED BY <1>1, <1>2, <1>3, HeldIs, BudgetAssumption DEF ResidentWithinBudget

LEMMA BudgetStep ==
    TypeInv /\ ResidentWithinBudget /\ [Next]_vars => ResidentWithinBudget'
<1> SUFFICES ASSUME TypeInv, ResidentWithinBudget, [Next]_vars PROVE ResidentWithinBudget'
    OBVIOUS
<1>0. TypeInv' /\ plan' = plan
    BY TypeInvStep
       DEF vars, Next, SourceScan, ForceInput, ForceMaterialized, ForceCompletes,
           OperatorExhausted, CollectDistinct, InjectedScan, Ship, RegisterView, RegisterSpilled,
           RegisterMemTable, RegisterFails, RunLazyFragment, BeginEagerFragment, GuardProbe,
           EagerCompletes, EagerExhausted, Return, NoReturn, ExternalFailure, MissingRelation,
           Fail
<1>1. CASE \E b \in 1..Len(plan), bytes \in Nat : \E content : StoreRelation(b, bytes, content)
    BY <1>0, <1>1, BudgetStore
<1>2. CASE bindings' = bindings
    BY <1>0, <1>2, BudgetShrinks
<1>3. CASE \E b, r, form : /\ form \in {"none", "keys", "lazy"}
                           /\ bindings' = [bindings EXCEPT ![b] = Bind(form, r)]
    <2>1. PICK b, r, form : /\ form \in {"none", "keys", "lazy"}
                            /\ bindings' = [bindings EXCEPT ![b] = Bind(form, r)]
        BY <1>3
    <2>2. Bind(form, r).form # "materialized"
        BY <2>1 DEF Bind
    <2>3. \A n \in 1..Len(plan) : bindings'[n].form = "materialized" => bindings'[n] = bindings[n]
        BY <2>1, <2>2 DEF TypeInv, TypeOK
    <2> QED BY <1>0, <2>3, BudgetShrinks
<1>4. CASE bindings' = [n \in DOMAIN bindings |-> Unbound]
    <2>1. Unbound.form # "materialized"
        BY DEF Unbound, Bind
    <2>2. \A n \in 1..Len(plan) : bindings'[n].form # "materialized"
        BY <1>4, <2>1, ResidentFacts
    <2> QED BY <1>0, <2>2, BudgetShrinks
<1>5. CASE UNCHANGED vars
    BY <1>2, <1>5 DEF vars
<1>6. CASE SourceScan \/ EagerCompletes \/ ForceCompletes
    <2>1. Running /\ pc \in 1..Len(plan)
        BY <1>6, StepFacts DEF SourceScan, EagerCompletes, ForceCompletes, Idle
    <2>2. exec.mode = "force" => exec.rel \in 1..Len(plan)
        BY <2>1 DEF TypeInv, ControlOK, Running
    <2> QED BY <1>1, <1>6, <2>1, <2>2, SizesAssumption
            DEF SourceScan, EagerCompletes, ForceCompletes
<1>7. CASE InjectedScan
    <2>1. Running /\ pc \in 1..Len(plan)
        BY <1>7, StepFacts DEF InjectedScan, Idle
    <2> QED BY <1>1, <1>4, <1>7, <2>1, SizesAssumption DEF InjectedScan, Fail
<1>8. CASE ForceInput \/ RegisterView
    BY <1>3, <1>8 DEF ForceInput, ForceMaterialized, RegisterView, Unbound
<1>9. CASE CollectDistinct \/ RunLazyFragment
    BY <1>3, <1>4, <1>9 DEF CollectDistinct, RunLazyFragment, MissingRelation, Fail
<1>10. CASE RegisterSpilled \/ RegisterMemTable
    BY <1>2, <1>3, <1>10 DEF RegisterSpilled, RegisterMemTable, Release, Unbound
<1>11. CASE Ship \/ OperatorExhausted \/ GuardProbe \/ BeginEagerFragment
    BY <1>2, <1>4, <1>11
       DEF Ship, OperatorExhausted, GuardProbe, BeginEagerFragment, MissingRelation, Fail
<1>12. CASE RegisterFails \/ EagerExhausted \/ Return \/ NoReturn \/ ExternalFailure
    BY <1>4, <1>12
       DEF RegisterFails, EagerExhausted, Return, NoReturn, ExternalFailure, MissingRelation, Fail
<1> QED BY <1>5, <1>6, <1>7, <1>8, <1>9, <1>10, <1>11, <1>12 DEF Next

(* The materialized bindings never hold more than the budget together:     *)
(* every store (spill_for_headroom, engine.rs) makes its room first.       *)
THEOREM ResidentFitsTheBudget == Spec => []ResidentWithinBudget
<1> QED BY TypeInvInit, TypeInvStep, BudgetInit, BudgetStep, PTL DEF Spec

---------------------------------------------------------------------------
(* A region is priced by its leaves *)

SizesOf(sz, leaves) == [k \in DOMAIN leaves |-> sz[leaves[k].rel]]
Price(sz, leaves) == SumOver(SizesOf(sz, leaves), DOMAIN leaves)
PriceFold(sz, r) == MapThenSumSet(LAMBDA k : sz[r.leaves[k].rel], DOMAIN r.leaves)

LEMMA PriceFoldIsPrice ==
    ASSUME NEW sz, NEW r, IsFiniteSet(DOMAIN r.leaves)
    PROVE  PriceFold(sz, r) = Price(sz, r.leaves)
<1> DEFINE S == DOMAIN r.leaves
           W == SizesOf(sz, r.leaves)
<1>1. \A s \in SUBSET S : s # {} => W[First(s)] = sz[r.leaves[First(s)].rel]
    BY FirstIn DEF SizesOf
<1>2. ASSUME NEW h
      PROVE  [s \in SUBSET S |-> IF s = {} THEN 0 ELSE W[First(s)] + h[s \ {First(s)}]]
             = [s \in SUBSET S |-> IF s = {} THEN 0
                                   ELSE sz[r.leaves[First(s)].rel] + h[s \ {First(s)}]]
    <2> HIDE DEF W, S
    <2>1. \A s \in SUBSET S :
             (IF s = {} THEN 0 ELSE W[First(s)] + h[s \ {First(s)}])
             = (IF s = {} THEN 0 ELSE sz[r.leaves[First(s)].rel] + h[s \ {First(s)}])
        BY <1>1
    <2> QED BY <2>1
<1> HIDE DEF W
<1>3. PICK g : IsSum(g, W, S)
    BY SumExists
<1>4. g = [s \in SUBSET S |-> IF s = {} THEN 0
                              ELSE sz[r.leaves[First(s)].rel] + g[s \ {First(s)}]]
    BY <1>2, <1>3 DEF IsSum
<1> DEFINE iter[s \in SUBSET (DOMAIN r.leaves)] ==
        IF s = {} THEN 0 ELSE sz[r.leaves[First(s)].rel] + iter[s \ {First(s)}]
<1>5. PriceFold(sz, r) = iter[S]
    BY DEF PriceFold, MapThenSumSet, MapThenFoldSet, First
<1>6. iter = [s \in SUBSET S |-> IF s = {} THEN 0
                                 ELSE sz[r.leaves[First(s)].rel] + iter[s \ {First(s)}]]
    BY <1>4
<1> HIDE DEF iter
<1>7. IsSum(iter, W, S)
    BY <1>2, <1>6 DEF IsSum
<1> HIDE DEF S
<1>8. SumOver(W, S) = iter[S]
    <2>1. IsFiniteSet(S)
        BY DEF S
    <2> QED BY <1>7, <2>1, SumOverIs
<1> QED BY <1>5, <1>8 DEF W, S, Price

(* The sum over the indices of a concatenation is the sum of the parts'.   *)
LEMMA SumConcat ==
    ASSUME NEW m \in Nat, NEW n \in Nat, NEW w, NEW v,
           \A k \in 1..(m + n) : w[k] \in Nat,
           \A k \in 1..n : v[k] = w[m + k]
    PROVE  SumOver(w, 1..(m + n)) = SumOver(w, 1..m) + SumOver(v, 1..n)
<1> DEFINE T == {i \in Nat : i <= n =>
                    SumOver(w, 1..(m + i)) = SumOver(w, 1..m) + SumOver(v, 1..i)}
<1>1. SumOver(w, 1..m) \in Nat
    <2>1. IsFiniteSet(1..m) /\ \A k \in 1..m : w[k] \in Nat
        BY FS_Interval
    <2> QED BY <2>1, SumFacts
<1>2. 0 \in T
    <2>1. 1..0 = {} /\ m + 0 = m
        OBVIOUS
    <2>2. SumOver(v, {}) = 0
        BY SumFacts, FS_EmptySet
    <2>3. SumOver(w, 1..(m + 0)) = SumOver(w, 1..m) + SumOver(v, 1..0)
        BY <1>1, <2>1, <2>2
    <2> QED BY <2>3
<1>3. ASSUME NEW i \in T PROVE i + 1 \in T
    <2> SUFFICES ASSUME i + 1 <= n
                 PROVE  SumOver(w, 1..(m + (i + 1))) = SumOver(w, 1..m) + SumOver(v, 1..(i + 1))
        OBVIOUS
    <2>1. i \in Nat /\ SumOver(w, 1..(m + i)) = SumOver(w, 1..m) + SumOver(v, 1..i)
        OBVIOUS
    <2> HIDE DEF T
    <2> DEFINE j == m + (i + 1)
    <2>2. j \in Nat /\ j \in 1..(m + n) /\ i + 1 \in 1..n
        BY <2>1
    <2>3. (1..j) \ {j} = 1..(m + i) /\ (1..(i + 1)) \ {i + 1} = 1..i
        BY <2>1
    <2>4. \A k \in 1..j : w[k] \in Nat
        BY <2>1
    <2>5. \A k \in 1..(i + 1) : v[k] \in Nat
        <3>1. \A k \in 1..(i + 1) : k \in 1..n /\ m + k \in 1..(m + n)
            BY <2>1
        <3> QED BY <3>1
    <2>6. v[i + 1] = w[j]
        BY <2>2
    <2>7. SumOver(w, 1..j) = w[j] + SumOver(w, 1..(m + i))
        <3>1. IsFiniteSet(1..j) /\ j \in 1..j
            BY <2>2, FS_Interval
        <3> HIDE DEF j
        <3>2. SumOver(w, 1..j) = w[j] + SumOver(w, (1..j) \ {j})
            BY <2>4, <3>1, SumFacts
        <3> QED BY <2>3, <3>2
    <2>8. SumOver(v, 1..(i + 1)) = v[i + 1] + SumOver(v, 1..i) /\ SumOver(v, 1..i) \in Nat
        <3>1. IsFiniteSet(1..(i + 1)) /\ i + 1 \in 1..(i + 1)
            BY <2>1, FS_Interval
        <3>2. SumOver(v, 1..(i + 1)) = v[i + 1] + SumOver(v, (1..(i + 1)) \ {i + 1})
            BY <2>5, <3>1, SumFacts
        <3>3. IsFiniteSet(1..i) /\ \A k \in 1..i : v[k] \in Nat
            BY <2>1, <2>5, FS_Interval
        <3>4. SumOver(v, 1..i) \in Nat
            BY <3>3, SumFacts
        <3> QED BY <2>3, <3>2, <3>4
    <2>9. w[j] \in Nat
        BY <2>2
    <2>10. PICK a \in Nat, b \in Nat, c \in Nat :
             a = SumOver(w, 1..m) /\ b = SumOver(v, 1..i) /\ c = w[j]
        BY <1>1, <2>8, <2>9
    <2>11. c + (a + b) = a + (c + b)
        OBVIOUS
    <2> QED BY <2>1, <2>6, <2>7, <2>8, <2>10, <2>11
<1>4. T = Nat
    <2>1. T \in SUBSET Nat
        OBVIOUS
    <2> HIDE DEF T
    <2>2. \A i \in T : i + 1 \in T
        BY <1>3
    <2> QED BY <1>2, <2>1, <2>2, NumberInduction
<1>5. n \in T
    <2> HIDE DEF T
    <2> QED BY <1>4
<1> QED BY <1>5

LeafType == [rel : Nat, ram : BOOLEAN]

LEMMA PriceConcat ==
    ASSUME NEW sz, NEW ls \in Seq(LeafType), NEW ms \in Seq(LeafType),
           \A k \in DOMAIN ls : sz[ls[k].rel] \in Nat,
           \A k \in DOMAIN ms : sz[ms[k].rel] \in Nat
    PROVE  Price(sz, ls \o ms) = Price(sz, ls) + Price(sz, ms)
<1> DEFINE m == Len(ls)
           n == Len(ms)
           w == SizesOf(sz, ls \o ms)
<1>1. m \in Nat /\ n \in Nat /\ DOMAIN ls = 1..m /\ DOMAIN ms = 1..n
    OBVIOUS
<1>2. ls \o ms \in Seq(LeafType) /\ Len(ls \o ms) = m + n /\ DOMAIN (ls \o ms) = 1..(m + n)
    OBVIOUS
<1>3. /\ \A k \in 1..m : (ls \o ms)[k] = ls[k] /\ k \in 1..(m + n)
      /\ \A k \in 1..n : (ls \o ms)[m + k] = ms[k] /\ m + k \in 1..(m + n)
    OBVIOUS
<1>4. \A k \in 1..(m + n) : k \in 1..m \/ \E i \in 1..n : k = m + i
    <2> TAKE k \in 1..(m + n)
    <2>1. CASE k > m
        <3>1. k - m \in 1..n /\ k = m + (k - m)
            BY <1>1, <2>1
        <3> QED BY <3>1
    <2> QED BY <1>1, <2>1
<1>5. PICK cat \in Seq(LeafType) : cat = ls \o ms
    BY <1>2
<1> HIDE DEF m, n, w
<1>6. /\ \A k \in 1..m : w[k] = SizesOf(sz, ls)[k]
      /\ \A k \in 1..n : SizesOf(sz, ms)[k] = w[m + k]
    <2>1. \A k \in 1..(m + n) : w[k] = sz[cat[k].rel]
        BY <1>2, <1>5 DEF w, SizesOf
    <2>2. /\ \A k \in 1..m : SizesOf(sz, ls)[k] = sz[ls[k].rel]
          /\ \A k \in 1..n : SizesOf(sz, ms)[k] = sz[ms[k].rel]
        BY <1>1 DEF SizesOf
    <2>3. \A k \in 1..m : w[k] = SizesOf(sz, ls)[k]
        <3> TAKE k \in 1..m
        <3>1. cat[k] = ls[k] /\ k \in 1..(m + n)
            BY <1>3, <1>5
        <3>2. w[k] = sz[cat[k].rel]
            BY <2>1, <3>1
        <3> QED BY <2>2, <3>1, <3>2
    <2>4. \A k \in 1..n : SizesOf(sz, ms)[k] = w[m + k]
        <3> TAKE k \in 1..n
        <3>1. cat[m + k] = ms[k] /\ m + k \in 1..(m + n)
            BY <1>3, <1>5
        <3>2. w[m + k] = sz[cat[m + k].rel]
            BY <2>1, <3>1
        <3> QED BY <2>2, <3>1, <3>2
    <2> QED BY <2>3, <2>4
<1>7. \A k \in 1..(m + n) : w[k] \in Nat
    <2>1. \A k \in 1..m : w[k] \in Nat
        BY <1>1, <1>6 DEF SizesOf
    <2>2. \A k \in 1..n : w[m + k] \in Nat
        BY <1>1, <1>6 DEF SizesOf
    <2> QED BY <1>4, <2>1, <2>2
<1>8. SumOver(w, 1..(m + n)) = SumOver(w, 1..m) + SumOver(SizesOf(sz, ms), 1..n)
    BY <1>1, <1>6, <1>7, SumConcat
<1>9. SumOver(w, 1..m) = SumOver(SizesOf(sz, ls), 1..m)
    <2>1. IsFiniteSet(1..m)
        BY <1>1, FS_Interval
    <2> QED BY <1>6, <2>1, SumCongruent
<1> QED BY <1>1, <1>2, <1>8, <1>9 DEF w, Price

LEMMA PriceEmpty == ASSUME NEW sz PROVE Price(sz, <<>>) = 0
<1>1. DOMAIN (<<>>) = {}
    OBVIOUS
<1>2. SumOver(SizesOf(sz, <<>>), {}) = 0
    BY SumFacts, FS_EmptySet
<1> QED BY <1>1, <1>2 DEF Price

LEMMA PriceOne ==
    ASSUME NEW sz, NEW l \in LeafType, sz[l.rel] \in Nat
    PROVE  Price(sz, <<l>>) = sz[l.rel]
<1> DEFINE w == SizesOf(sz, <<l>>)
<1>1. DOMAIN <<l>> = {1} /\ <<l>>[1] = l /\ {1} \ {1} = {}
    OBVIOUS
<1>2. w[1] = sz[l.rel] /\ \A x \in {1} : w[x] \in Nat
    BY <1>1 DEF SizesOf
<1> HIDE DEF w
<1>3. IsFiniteSet({1}) /\ IsFiniteSet({})
    BY FS_Singleton, FS_EmptySet
<1>4. SumOver(w, {}) = 0
    BY <1>3, SumFacts
<1>5. SumOver(w, {1}) = w[1] + SumOver(w, {1} \ {1})
    BY <1>2, <1>3, SumFacts
<1>6. SumOver(w, {1}) = sz[l.rel]
    BY <1>1, <1>2, <1>4, <1>5
<1> QED BY <1>1, <1>6 DEF w, Price

(* The price depends on the sizes of the leaves only.                      *)
LEMMA PriceCongruent ==
    ASSUME NEW sz, NEW tz, NEW ls \in Seq(LeafType),
           \A k \in DOMAIN ls : sz[ls[k].rel] = tz[ls[k].rel]
    PROVE  Price(sz, ls) = Price(tz, ls)
<1>1. IsFiniteSet(DOMAIN ls)
    <2>1. DOMAIN ls = 1..Len(ls) /\ Len(ls) \in Nat
        OBVIOUS
    <2> QED BY <2>1, FS_Interval
<1>2. \A k \in DOMAIN ls : SizesOf(sz, ls)[k] = SizesOf(tz, ls)[k]
    BY DEF SizesOf
<1> QED BY <1>1, <1>2, SumCongruent DEF Price

(* A leaf: a relation that has been stored and will not be stored again.   *)
Settled(b) ==
    /\ b \in 1..Len(plan) /\ b < pc /\ ~Lazy(b)
    /\ exec.mode = "force" => exec.rel # b
LeavesSettled(r) == \A k \in DOMAIN r.leaves : Settled(r.leaves[k].rel)
BytesPriced(r) == r.bytes = Price(size, r.leaves)
Known(r) == r \in RegionType /\ BytesPriced(r) /\ LeavesSettled(r)

RelationsSized == \A b \in 1..Len(plan) : Relation(b) => bindings[b].region.bytes = size[b]

(* What the pricing rests on: while the query runs, a relation has the     *)
(* size it was stored with, and the leaves of every live region are        *)
(* settled, so that no store can change their sizes under it.              *)
PriceInv ==
    /\ BytesPriced(region) /\ BytesPriced(exec.region)
    /\ \A b \in 1..Len(plan) : Lazy(b) => BytesPriced(bindings[b].region)
    /\ status = "running" =>
          /\ RelationsSized
          /\ LeavesSettled(region) /\ LeavesSettled(exec.region)
          /\ \A b \in 1..Len(plan) : Lazy(b) => LeavesSettled(bindings[b].region)

LEMMA PriceInvIsPriced == TypeInv /\ PriceInv => PricedByItsLeaves
<1> SUFFICES ASSUME TypeInv, PriceInv PROVE PricedByItsLeaves
    OBVIOUS
<1>1. ASSUME NEW r \in RegionType, BytesPriced(r) PROVE Priced(r)
    <2>1. DOMAIN r.leaves = 1..Len(r.leaves) /\ Len(r.leaves) \in Nat
        BY DEF RegionType
    <2>2. IsFiniteSet(DOMAIN r.leaves)
        BY <2>1, FS_Interval
    <2>3. r.bytes = PriceFold(size, r)
        BY <1>1, <2>2, PriceFoldIsPrice DEF BytesPriced
    <2> QED BY <2>3 DEF Priced, PriceFold, MapThenSumSet, MapThenFoldSet
<1>2. region \in RegionType /\ exec.region \in RegionType
    BY DEF TypeInv, TypeOK
<1>3. \A b \in Lazies : b \in 1..Len(plan) /\ Lazy(b) /\ bindings[b].region \in RegionType
    BY DEF TypeInv, TypeOK, Lazies
<1>4. Priced(region) /\ Priced(exec.region)
    BY <1>1, <1>2 DEF PriceInv
<1>5. \A b \in Lazies : Priced(bindings[b].region)
    BY <1>1, <1>3 DEF PriceInv
<1> QED BY <1>4, <1>5 DEF PricedByItsLeaves

LEMMA EmptyPriced == BytesPriced(EmptyRegion) /\ Known(EmptyRegion)
<1>1. DOMAIN EmptyRegion.leaves = {} /\ EmptyRegion.leaves = <<>> /\ EmptyRegion.bytes = 0
    BY DEF EmptyRegion
<1>2. BytesPriced(EmptyRegion)
    BY <1>1, PriceEmpty DEF BytesPriced
<1> QED BY <1>1, <1>2, EmptyRegionType DEF Known, LeavesSettled

LEMMA KnownNow ==
    ASSUME TypeInv, Running, PriceInv
    PROVE  /\ Known(region) /\ Known(exec.region) /\ RelationsSized
           /\ \A b \in 1..Len(plan) : Lazy(b) => Known(bindings[b].region)
<1>1. region \in RegionType /\ exec.region \in RegionType
    BY DEF TypeInv, TypeOK
<1>2. \A b \in 1..Len(plan) : bindings[b].region \in RegionType
    BY DEF TypeInv, TypeOK
<1> QED BY <1>1, <1>2 DEF Known, PriceInv, Running

(* Regions are added up with their prices.                                 *)
LEMMA KnownPlus ==
    ASSUME TypeInv, NEW r, NEW s, Known(r), Known(s)
    PROVE  Known(Plus(r, s))
<1>1. /\ r \in RegionType /\ s \in RegionType
      /\ r.leaves \in Seq(LeafType) /\ s.leaves \in Seq(LeafType)
      /\ r.bytes \in Nat /\ s.bytes \in Nat
    BY DEF Known, RegionType, LeafType
<1>2. Plus(r, s) \in RegionType
    BY <1>1, PlusType
<1>3. \A b : Settled(b) => size[b] \in Nat
    BY DEF Settled, TypeInv, TypeOK
<1>4. /\ \A k \in DOMAIN r.leaves : size[r.leaves[k].rel] \in Nat
      /\ \A k \in DOMAIN s.leaves : size[s.leaves[k].rel] \in Nat
    BY <1>3 DEF Known, LeavesSettled
<1>5. Price(size, r.leaves \o s.leaves) = Price(size, r.leaves) + Price(size, s.leaves)
    BY <1>1, <1>4, PriceConcat
<1>6. BytesPriced(Plus(r, s))
    BY <1>5 DEF BytesPriced, Plus, Known
<1>7. ASSUME NEW k \in DOMAIN (r.leaves \o s.leaves)
      PROVE  Settled((r.leaves \o s.leaves)[k].rel)
    <2>1. \/ k \in DOMAIN r.leaves /\ (r.leaves \o s.leaves)[k] = r.leaves[k]
          \/ \E i \in DOMAIN s.leaves : (r.leaves \o s.leaves)[k] = s.leaves[i]
        <3>1. PICK ls \in Seq(LeafType), ms \in Seq(LeafType) : ls = r.leaves /\ ms = s.leaves
            BY <1>1
        <3>2. k \in 1..(Len(ls) + Len(ms))
            <4>1. DOMAIN (ls \o ms) = 1..(Len(ls) + Len(ms))
                OBVIOUS
            <4> QED BY <3>1, <4>1
        <3>3. CASE k <= Len(ls)
            BY <3>1, <3>2, <3>3
        <3>4. CASE k > Len(ls)
            <4>1. k - Len(ls) \in DOMAIN ms /\ (ls \o ms)[k] = ms[k - Len(ls)]
                BY <3>2, <3>4
            <4> QED BY <3>1, <4>1
        <3> QED BY <3>2, <3>3, <3>4
    <2> QED BY <2>1 DEF Known, LeavesSettled
<1>8. LeavesSettled(Plus(r, s))
    BY <1>7 DEF LeavesSettled, Plus
<1> QED BY <1>2, <1>6, <1>8 DEF Known

LEMMA KnownLeaf ==
    ASSUME TypeInv, RelationsSized, NEW b, Settled(b), Relation(b), NEW ram \in BOOLEAN
    PROVE  Known(LeafRegion(b, ram))
<1>1. b \in 1..Len(plan) /\ size[b] \in Nat /\ bindings[b].region.bytes = size[b] /\ b \in Nat
    <2>1. DOMAIN bindings = 1..Len(plan) /\ size \in [1..Len(plan) -> Nat]
        BY DEF TypeInv, TypeOK
    <2>2. b \in 1..Len(plan) /\ Len(plan) \in Nat
        BY <2>1, PlanFacts DEF Settled, TypeInv, TypeOK
    <2>3. bindings[b].region.bytes = size[b]
        BY <2>1, <2>2 DEF RelationsSized
    <2> QED BY <2>1, <2>2, <2>3
<1>2. Leaf(b, ram) \in LeafType /\ Leaf(b, ram).rel = b
    BY <1>1 DEF Leaf, LeafType
<1>3. LeafRegion(b, ram) \in RegionType
    BY <1>1, LeafRegionType DEF TypeInv
<1>4. Price(size, <<Leaf(b, ram)>>) = size[b]
    BY <1>1, <1>2, PriceOne
<1>5. BytesPriced(LeafRegion(b, ram))
    BY <1>1, <1>4 DEF BytesPriced, LeafRegion
<1>6. LeavesSettled(LeafRegion(b, ram))
    BY <1>2 DEF LeavesSettled, LeafRegion
<1> QED BY <1>3, <1>5, <1>6 DEF Known

LEMMA KnownComposed ==
    ASSUME TypeInv, Running, PriceInv
    PROVE  Known(Composed)
<1> DEFINE own == [EmptyRegion EXCEPT !.content = {pc}, !.steps = {pc}]
<1>1. own.leaves = EmptyRegion.leaves /\ own.bytes = EmptyRegion.bytes
    BY DEF EmptyRegion
<1>2. own \in RegionType
    <2>1. pc \in Nat
        BY StepFacts
    <2>2. EmptyRegion \in RegionType
        BY EmptyRegionType
    <2>3. PICK e \in RegionType : e = EmptyRegion
        BY <2>2
    <2>4. [e EXCEPT !.content = {pc}, !.steps = {pc}] \in RegionType
        BY <2>1 DEF RegionType
    <2> QED BY <2>3, <2>4
<1> HIDE DEF own
<1>3. Known(own)
    BY <1>1, <1>2, EmptyPriced DEF Known, BytesPriced, LeavesSettled
<1>4. Known(Plus(region, own))
    BY <1>3, KnownNow, KnownPlus
<1> QED BY <1>4 DEF Composed, own

(* A step of a running query keeps the invariant if it leaves every        *)
(* settled relation alone and its live regions are priced by such.         *)
LEMMA PriceMove ==
    ASSUME TypeInv, TypeInv', Running, PriceInv, plan' = plan, pc' \in {pc, pc + 1},
           \A b : Settled(b) =>
              /\ size'[b] = size[b] /\ bindings'[b].form # "lazy"
              /\ exec'.mode = "force" => exec'.rel # b,
           \A b \in 1..Len(plan) : bindings'[b].form \in {"materialized", "spilled"} =>
              bindings'[b].region.bytes = size'[b],
           Known(region'), Known(exec'.region),
           \A b \in 1..Len(plan) : bindings'[b].form = "lazy" => Known(bindings'[b].region)
    PROVE  PriceInv'
<1>1. ASSUME NEW b, Settled(b) PROVE Settled(b)'
    <2>1. pc \in Nat /\ Len(plan) \in Nat
        BY PlanFacts DEF TypeInv, TypeOK
    <2> QED BY <1>1, <2>1 DEF Settled, Lazy
<1>2. ASSUME NEW r, Known(r) PROVE r.bytes = Price(size', r.leaves)
    <2>1. r.leaves \in Seq(LeafType)
        BY <1>2 DEF Known, RegionType, LeafType
    <2>2. \A k \in DOMAIN r.leaves : size[r.leaves[k].rel] = size'[r.leaves[k].rel]
        BY <1>2 DEF Known, LeavesSettled
    <2>3. Price(size, r.leaves) = Price(size', r.leaves)
        BY <2>1, <2>2, PriceCongruent
    <2> QED BY <1>2, <2>3 DEF Known, BytesPriced
<1>3. ASSUME NEW r, Known(r), NEW k \in DOMAIN r.leaves PROVE Settled(r.leaves[k].rel)'
    BY <1>1, <1>3 DEF Known, LeavesSettled
<1>4. BytesPriced(region)' /\ BytesPriced(exec.region)'
    BY <1>2 DEF BytesPriced
<1>5. LeavesSettled(region)' /\ LeavesSettled(exec.region)'
    BY <1>3 DEF LeavesSettled
<1>6. ASSUME NEW b \in 1..Len(plan'), Lazy(b)'
      PROVE  BytesPriced(bindings[b].region)' /\ LeavesSettled(bindings[b].region)'
    <2>1. Known(bindings'[b].region)
        BY <1>6 DEF Lazy
    <2> QED BY <1>2, <1>3, <2>1 DEF BytesPriced, LeavesSettled
<1>7. RelationsSized'
    BY DEF RelationsSized, Relation
<1> QED BY <1>4, <1>5, <1>6, <1>7 DEF PriceInv

(* A store: of the step that ends, or of the binding a force took out.     *)
LEMMA PriceStore ==
    ASSUME TypeInv, TypeInv', Running, PriceInv, plan' = plan, pc' \in {pc, pc + 1},
           NEW b \in 1..Len(plan), NEW bytes \in Nat, NEW content \in SUBSET Nat,
           StoreRelation(b, bytes, content), ~Settled(b), exec'.mode = "idle",
           Known(region'), Known(exec'.region)
    PROVE  PriceInv'
<1>1. /\ bindings'[b].region.bytes = bytes
      /\ \A n \in 1..Len(plan) : size'[n] = IF n = b THEN bytes ELSE size[n]
    BY StoreContent
<1>2. /\ bindings'[b].form \in {"materialized", "spilled"}
      /\ \A n \in 1..Len(plan) : n # b =>
            /\ bindings'[n].region = bindings[n].region
            /\ \/ bindings'[n].form = bindings[n].form
               \/ bindings[n].form = "materialized" /\ bindings'[n].form = "spilled"
    BY StoreRelationEffect DEF TypeInv
<1>3. \A n \in 1..Len(plan) : bindings'[n].form \in {"materialized", "spilled"} =>
         bindings'[n].region.bytes = size'[n]
    BY <1>1, <1>2, KnownNow DEF RelationsSized, Relation
<1>4. \A n \in 1..Len(plan) : bindings'[n].form = "lazy" => Known(bindings'[n].region)
    BY <1>2, KnownNow DEF Lazy
<1>5. \A n : Settled(n) =>
         /\ size'[n] = size[n] /\ bindings'[n].form # "lazy"
         /\ exec'.mode = "force" => exec'.rel # n
    BY <1>1, <1>2 DEF Settled, Lazy
<1> QED BY <1>3, <1>4, <1>5, PriceMove

(* A merge that registers an input adds what is known to what is known.    *)
LEMMA PriceRegister ==
    ASSUME TypeInv, TypeInv', Idle, PriceInv, NEW r, Known(r), Registered(r),
           \/ bindings' = bindings
           \/ bindings' = [bindings EXCEPT ![Input] = Unbound],
           UNCHANGED <<plan, pc, exec, size>>
    PROVE  PriceInv'
<1>1. Running /\ exec.mode = "idle" /\ Known(region) /\ Known(exec.region) /\ RelationsSized
      /\ \A b \in 1..Len(plan) : Lazy(b) => Known(bindings[b].region)
    BY KnownNow DEF Idle
<1>2. Known(region')
    BY <1>1, KnownPlus DEF Registered
<1>3. \A b : bindings'[b] = bindings[b] \/ bindings'[b].form = "none"
    <2>1. CASE bindings' = [bindings EXCEPT ![Input] = Unbound]
        <3>1. Unbound.form = "none" /\ DOMAIN bindings = 1..Len(plan)
            BY DEF Unbound, Bind, TypeInv, TypeOK
        <3>2. \A b \in 1..Len(plan) : bindings'[b] = bindings[b] \/ bindings'[b].form = "none"
            BY <2>1, <3>1
        <3> QED BY <2>1, <3>1, <3>2
    <2> QED BY <2>1
<1>4. \A b \in 1..Len(plan) : bindings'[b].form \in {"materialized", "spilled"} =>
         bindings'[b].region.bytes = size'[b]
    BY <1>1, <1>3 DEF RelationsSized, Relation
<1>5. \A b \in 1..Len(plan) : bindings'[b].form = "lazy" => Known(bindings'[b].region)
    BY <1>1, <1>3 DEF Lazy
<1>6. \A b : Settled(b) =>
         /\ size'[b] = size[b] /\ bindings'[b].form # "lazy"
         /\ exec'.mode = "force" => exec'.rel # b
    BY <1>1, <1>3 DEF Settled, Lazy
<1> QED BY <1>1, <1>2, <1>4, <1>5, <1>6, PriceMove

(* A step that stores nothing: some bindings go, the current step may bind *)
(* keys or a region.                                                       *)
LEMMA PriceBind ==
    ASSUME TypeInv, TypeInv', Running, PriceInv, plan' = plan, pc' \in {pc, pc + 1}, size' = size,
           \A b \in 1..Len(plan) :
              \/ bindings'[b] = bindings[b]
              \/ bindings'[b].form \in {"none", "keys"}
              \/ b = pc /\ bindings'[b].form = "lazy" /\ Known(bindings'[b].region),
           exec'.mode = "force" => (exec'.rel = exec.rel /\ exec.mode = "force") \/ Lazy(exec'.rel),
           Known(region'), Known(exec'.region)
    PROVE  PriceInv'
<1>1. RelationsSized /\ \A b \in 1..Len(plan) : Lazy(b) => Known(bindings[b].region)
    BY KnownNow
<1>2. \A b \in 1..Len(plan) : bindings'[b].form \in {"materialized", "spilled"} =>
         bindings'[b].region.bytes = size'[b]
    BY <1>1 DEF RelationsSized, Relation
<1>3. \A b \in 1..Len(plan) : bindings'[b].form = "lazy" => Known(bindings'[b].region)
    BY <1>1 DEF Lazy
<1>4. ASSUME NEW b, Settled(b)
      PROVE  /\ size'[b] = size[b] /\ bindings'[b].form # "lazy"
             /\ exec'.mode = "force" => exec'.rel # b
    <2>1. b \in 1..Len(plan) /\ b # pc /\ ~Lazy(b)
        BY <1>4, StepFacts, PlanFacts DEF Settled, TypeInv, TypeOK
    <2>2. bindings'[b].form # "lazy"
        BY <2>1 DEF Lazy
    <2>3. exec'.mode = "force" => exec'.rel # b
        BY <1>4, <2>1 DEF Settled
    <2> QED BY <2>2, <2>3
<1> QED BY <1>2, <1>3, <1>4, PriceMove

(* A query that has ended has nothing left to price but what it dropped.   *)
LEMMA PriceEnd ==
    ASSUME TypeInv, TypeInv', PriceInv, status' # "running", plan' = plan, size' = size,
           bindings' = [n \in DOMAIN bindings |-> Unbound],
           region' \in {region, EmptyRegion}, exec' \in {exec, NoExec}
    PROVE  PriceInv'
<1>1. \A b \in 1..Len(plan) : ~(bindings'[b].form = "lazy")
    BY DEF Unbound, Bind, TypeInv, TypeOK
<1>2. NoExec.region = EmptyRegion
    BY DEF NoExec
<1>3. region'.bytes = Price(size', region'.leaves)
    BY EmptyPriced DEF PriceInv, BytesPriced
<1>4. exec'.region.bytes = Price(size', exec'.region.leaves)
    BY <1>2, EmptyPriced DEF PriceInv, BytesPriced
<1> QED BY <1>1, <1>3, <1>4 DEF PriceInv, BytesPriced, Lazy

LEMMA PriceInit == Init => PriceInv
<1> SUFFICES ASSUME Init PROVE PriceInv
    OBVIOUS
<1>1. region = EmptyRegion /\ exec.region = EmptyRegion
    BY DEF Init, NoExec
<1>2. \A b \in 1..Len(plan) : bindings[b].form = "none"
    BY DEF Init, Unbound, Bind
<1> QED BY <1>1, <1>2, EmptyPriced DEF PriceInv, Known, RelationsSized, Relation, Lazy

LEMMA PriceStep == TypeInv /\ ReleasedInv /\ PriceInv /\ [Next]_vars => PriceInv'
<1> SUFFICES ASSUME TypeInv, ReleasedInv, PriceInv, [Next]_vars PROVE PriceInv'
    OBVIOUS
<1>0. TypeInv'
    BY TypeInvStep
<1>1. CASE UNCHANGED vars
    BY <1>1
       DEF vars, PriceInv, BytesPriced, LeavesSettled, Settled, RelationsSized, Relation, Lazy
<1>2. CASE status' # "running"
    <2>1. CASE /\ status' # "running" /\ plan' = plan /\ size' = size
               /\ bindings' = [n \in DOMAIN bindings |-> Unbound]
               /\ region' \in {region, EmptyRegion} /\ exec' \in {exec, NoExec}
        BY <1>0, <2>1, PriceEnd
    <2> QED BY <1>1, <1>2, <2>1
            DEF vars, Next, SourceScan, ForceInput, ForceMaterialized, ForceCompletes,
                OperatorExhausted, CollectDistinct, InjectedScan, Ship, RegisterView,
                RegisterSpilled, RegisterMemTable, RegisterFails, RunLazyFragment,
                BeginEagerFragment, GuardProbe, EagerCompletes, EagerExhausted, Return,
                NoReturn, ExternalFailure, MissingRelation, Fail, Idle, Running
<1>3. CASE SourceScan \/ (InjectedScan /\ status' = "running")
    <2>1. /\ Running /\ plan' = plan /\ pc' = pc + 1 /\ exec' = exec /\ exec.mode = "idle"
          /\ region' = EmptyRegion
        BY <1>3 DEF SourceScan, InjectedScan, Idle, Advance, Fail
    <2>2. pc \in 1..Len(plan) /\ pc \in Nat
        BY <2>1, StepFacts
    <2>3. \E bytes \in Nat, content \in SUBSET Nat : StoreRelation(pc, bytes, content)
        <3>1. CASE SourceScan
            BY <2>2, <3>1, SizesAssumption DEF SourceScan
        <3>2. CASE InjectedScan /\ status' = "running"
            <4>1. PICK content : content = {pc} \union UNION {bindings[b].region.content : b \in KeysRead}
                OBVIOUS
            <4>2. \E bytes \in Nat : StoreRelation(pc, bytes, content)
                BY <3>2, <4>1, SizesAssumption DEF InjectedScan, KeysRead, Fail, Idle, Running
            <4>3. \A b \in KeysRead : bindings[b].region.content \subseteq Nat
                <5>1. \A b \in KeysRead : b \in 1..Len(plan)
                    BY <2>1, StepFacts DEF KeysRead
                <5> QED BY <5>1 DEF TypeInv, TypeOK, RegionType
            <4>4. content \in SUBSET Nat
                BY <2>2, <4>1, <4>3
            <4> QED BY <4>2, <4>4
        <3> QED BY <1>3, <3>1, <3>2
    <2>4. ~Settled(pc)
        BY <2>2 DEF Settled
    <2>5. Known(region') /\ Known(exec'.region)
        BY <2>1, EmptyPriced, KnownNow
    <2> QED BY <1>0, <2>1, <2>2, <2>3, <2>4, <2>5, PriceStore
<1>4. CASE EagerCompletes
    <2>1. Running /\ plan' = plan /\ pc' = pc + 1 /\ exec' = NoExec /\ region' = EmptyRegion
        BY <1>4 DEF EagerCompletes, Advance
    <2>2. pc \in 1..Len(plan) /\ pc \in Nat
        BY <2>1, StepFacts
    <2>3. exec.region.content \in SUBSET Nat
        BY DEF TypeInv, TypeOK, RegionType
    <2>4. PICK bytes \in Nat : StoreRelation(pc, bytes, exec.region.content)
        BY <1>4, SizesAssumption DEF EagerCompletes
    <2>5. ~Settled(pc)
        BY <2>2 DEF Settled
    <2>6. Known(region') /\ Known(exec'.region) /\ exec'.mode = "idle"
        BY <2>1, EmptyPriced DEF NoExec
    <2> QED BY <1>0, <2>1, <2>2, <2>3, <2>4, <2>5, <2>6, PriceStore
<1>5. CASE ForceCompletes
    <2>1. /\ Running /\ plan' = plan /\ pc' = pc /\ exec' = NoExec /\ region' = region
          /\ exec.mode = "force"
        BY <1>5 DEF ForceCompletes
    <2>2. exec.rel \in 1..Len(plan)
        BY <2>1 DEF TypeInv, ControlOK
    <2>3. exec.region.content \in SUBSET Nat
        BY DEF TypeInv, TypeOK, RegionType
    <2>4. PICK bytes \in Nat : StoreRelation(exec.rel, bytes, exec.region.content)
        BY <1>5, SizesAssumption DEF ForceCompletes
    <2>5. ~Settled(exec.rel)
        BY <2>1 DEF Settled
    <2>6. Known(region') /\ Known(exec'.region) /\ exec'.mode = "idle"
        BY <2>1, EmptyPriced, KnownNow DEF NoExec
    <2> QED BY <1>0, <2>1, <2>2, <2>3, <2>4, <2>5, <2>6, PriceStore
<1>6. CASE RegisterView
    <2>1. /\ Idle /\ Registered(bindings[Input].region) /\ Lazy(Input)
          /\ bindings' = [bindings EXCEPT ![Input] = Unbound]
          /\ UNCHANGED <<plan, pc, exec, size>> /\ HasInput
        BY <1>6 DEF RegisterView
    <2>2. Known(bindings[Input].region)
        <3>1. Input \in 1..Len(plan) /\ Running
            BY <2>1, StepFacts DEF Idle
        <3> QED BY <2>1, <3>1, KnownNow
    <2> QED BY <1>0, <2>1, <2>2, PriceRegister
<1>7. CASE RegisterSpilled \/ RegisterMemTable
    <2>1. /\ Idle /\ Relation(Input) /\ UNCHANGED <<plan, pc, exec, size>> /\ HasInput
          /\ \/ bindings' = bindings
             \/ bindings' = [bindings EXCEPT ![Input] = Unbound]
        BY <1>7 DEF RegisterSpilled, RegisterMemTable, Release, Relation
    <2>2. PICK ram \in BOOLEAN : Registered(LeafRegion(Input, ram))
        BY <1>7 DEF RegisterSpilled, RegisterMemTable
    <2>3. Settled(Input)
        <3>1. Input \in 1..Len(plan) /\ Running /\ exec.mode = "idle" /\ bindings[Input].form # "none"
            BY <2>1, StepFacts DEF Idle, Relation
        <3> QED BY <2>1, <3>1, BoundIsBehind DEF Settled, Relation, Lazy
    <2>4. Known(LeafRegion(Input, ram))
        BY <2>1, <2>3, KnownLeaf, KnownNow DEF Idle
    <2> QED BY <1>0, <2>1, <2>2, <2>4, PriceRegister
<1>8. CASE (CollectDistinct \/ Ship) /\ status' = "running"
    <2>1. /\ Running /\ plan' = plan /\ pc' = pc + 1 /\ exec' = exec /\ exec.mode = "idle"
          /\ region' = EmptyRegion /\ size' = size
          /\ \/ bindings' = bindings
             \/ \E r : bindings' = [bindings EXCEPT ![pc] = Bind("keys", r)]
        BY <1>8 DEF CollectDistinct, Ship, Idle, Advance, MissingRelation, Fail
    <2>2. \A b \in 1..Len(plan) : bindings'[b] = bindings[b] \/ bindings'[b].form = "keys"
        BY <2>1 DEF Bind, TypeInv, TypeOK
    <2>3. Known(region') /\ Known(exec'.region)
        BY <2>1, EmptyPriced, KnownNow
    <2> QED BY <1>0, <2>1, <2>2, <2>3, PriceBind
<1>9. CASE RunLazyFragment
    <2>1. /\ Running /\ plan' = plan /\ pc' = pc + 1 /\ exec' = exec /\ exec.mode = "idle"
          /\ region' = EmptyRegion /\ size' = size
          /\ bindings' = [bindings EXCEPT ![pc] = Bind("lazy", Composed)]
        BY <1>9 DEF RunLazyFragment, Idle, Advance
    <2>2. \A b \in 1..Len(plan) :
             \/ bindings'[b] = bindings[b]
             \/ b = pc /\ bindings'[b].form = "lazy" /\ Known(bindings'[b].region)
        BY <2>1, KnownComposed DEF Bind, TypeInv, TypeOK
    <2>3. Known(region') /\ Known(exec'.region)
        BY <2>1, EmptyPriced, KnownNow
    <2> QED BY <1>0, <2>1, <2>2, <2>3, PriceBind
<1>10. CASE ForceInput
    <2>1. /\ Running /\ UNCHANGED <<plan, pc, region, size>> /\ Lazy(Input)
          /\ Input \in 1..Len(plan) /\ bindings' = [bindings EXCEPT ![Input] = Unbound]
          /\ exec'.mode = "force" /\ exec'.rel = Input /\ exec'.region = bindings[Input].region
        BY <1>10, StepFacts DEF ForceInput, ForceMaterialized, Idle
    <2>2. \A b \in 1..Len(plan) : bindings'[b] = bindings[b] \/ bindings'[b].form = "none"
        BY <2>1 DEF Unbound, Bind, TypeInv, TypeOK
    <2>3. Known(region') /\ Known(exec'.region)
        BY <2>1, KnownNow
    <2> QED BY <1>0, <2>1, <2>2, <2>3, PriceBind
<1>11. CASE (OperatorExhausted \/ GuardProbe) /\ status' = "running"
    <2>1. /\ Running /\ UNCHANGED <<plan, pc, region, bindings, size>>
          /\ exec'.region = exec.region /\ exec'.rel = exec.rel
          /\ exec'.mode = "force" => exec.mode = "force"
        BY <1>11 DEF OperatorExhausted, GuardProbe, Fail, TypeInv, TypeOK
    <2>2. Known(region') /\ Known(exec'.region)
        BY <2>1, KnownNow
    <2> QED BY <1>0, <2>1, <2>2, PriceBind
<1>12. CASE BeginEagerFragment
    <2>1. /\ Running /\ UNCHANGED <<plan, pc, region, bindings, size>>
          /\ exec'.mode # "force" /\ exec'.region = Composed
        BY <1>12 DEF BeginEagerFragment, Idle
    <2>2. Known(region') /\ Known(exec'.region)
        BY <2>1, KnownNow, KnownComposed
    <2> QED BY <1>0, <2>1, <2>2, PriceBind
<1>13. CASE EagerExhausted \/ RegisterFails \/ NoReturn \/ ExternalFailure \/ Return
    BY <1>2, <1>13
       DEF EagerExhausted, RegisterFails, NoReturn, ExternalFailure, Return,
           MissingRelation, Fail
<1> QED
    BY <1>1, <1>2, <1>3, <1>4, <1>5, <1>6, <1>7, <1>8, <1>9, <1>10, <1>11, <1>12, <1>13
       DEF Next

(* A region is priced at the measured size of every stored relation that   *)
(* feeds it: the choice of sort-merge joins (force_materialized,           *)
(* engine.rs) is made on that number.                                      *)
THEOREM RegionsArePriced == Spec => []PricedByItsLeaves
<1> QED
    BY TypeInvInit, TypeInvStep, UseCountsInit, UseCountsStep, ReleasedInit, ReleasedStep,
       PriceInit, PriceStep, PriceInvIsPriced, PTL DEF Spec

===========================================================================
