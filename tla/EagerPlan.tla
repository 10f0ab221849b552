----------------------------- MODULE EagerPlan -----------------------------
(***************************************************************************)
(* What running a plan promises (src/src/engine.rs: execute): steps are    *)
(* evaluated in order, each once and at once, every binding stays readable *)
(* for ever, and the query returns what its return step names, made of     *)
(* exactly the steps that relation depends on.  No regions, no spilling,   *)
(* no use counts.  A query may give up at any step, without a result.      *)
(***************************************************************************)
EXTENDS Naturals, Sequences

CONSTANT Plans
VARIABLES plan, pc, status, result

vars == <<plan, pc, status, result>>

(* The steps relation i is made of: its own and those of all its inputs.   *)
ContentOf(p) ==
    LET content[i \in 1..Len(p)] ==
            {i} \union UNION {content[b] : b \in
                {p[i].ins[k] : k \in 1..Len(p[i].ins)} \intersect 1..(i - 1)}
    IN content

Init == plan \in Plans /\ pc = 1 /\ status = "running" /\ result = {}

Evaluate ==
    /\ status = "running" /\ pc <= Len(plan) /\ plan[pc].op # "return"
    /\ pc' = pc + 1
    /\ UNCHANGED <<plan, status, result>>

Return ==
    /\ status = "running" /\ pc <= Len(plan) /\ plan[pc].op = "return"
    /\ status' = "returned"
    /\ result' = ContentOf(plan)[plan[pc].ins[1]]
    /\ UNCHANGED <<plan, pc>>

GiveUp ==
    /\ status = "running" /\ status' = "failed"
    /\ UNCHANGED <<plan, pc, result>>

Next == Evaluate \/ Return \/ GiveUp
Spec == Init /\ [][Next]_vars
============================================================================
