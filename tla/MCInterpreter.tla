--------------------------- MODULE MCInterpreter ---------------------------
(***************************************************************************)
(* Instances of Interpreter for TLC: every plan of a bounded length.       *)
(***************************************************************************)
EXTENDS Interpreter

CONSTANTS MaxSteps,   \* steps of a plan, its return not counted
          MergeKinds, \* the merge steps plans use
          OtherKinds  \* the other steps plans use

Scan == [op |-> "scan", ins |-> <<>>]
Do(op, ins) == [op |-> op, ins |-> ins]

(* The steps that may follow the prefix p when every input is written      *)
(* earlier and is what the step needs.                                     *)
RelationsOf(p) == {i \in 1..Len(p) : p[i].op \in RelationOps}
KeysOf(p) == {i \in 1..Len(p) : p[i].op = "collect"}
StepsAfter(p) ==
    [op : {"scan"}, ins : {<<>>}]
    \union [op : OtherKinds \intersect {"collect", "ship"}, ins : {<<i>> : i \in RelationsOf(p)}]
    \union [op : OtherKinds \intersect {"inject"},
            ins : {<<i>> : i \in KeysOf(p)} \union {<<i, j>> : i, j \in KeysOf(p)}]
    \union [op : MergeKinds, ins : {<<i>> : i \in RelationsOf(p)}]
    \union [op : MergeKinds \ {"guard"}, ins : {<<i, j>> : i, j \in RelationsOf(p)}]

Prefixes[n \in 0..MaxSteps] ==
    IF n = 0 THEN {<<>>}
    ELSE UNION {{Append(p, s) : s \in StepsAfter(p)} : p \in Prefixes[n - 1]}

(* Every binding but a shipped table is read by some later step.           *)
NothingUnread(p) == \A i \in 1..Len(p) : p[i].op \in {"ship", "return"} \/ Reads(p, i) # {}

Returning(p) == {Append(p, Do("return", <<i>>)) : i \in RelationsOf(p)}
AllShortPlans == {p \in UNION {UNION {Returning(p) : p \in Prefixes[n]} : n \in 1..MaxSteps} :
                     NothingUnread(p)}

(* Longer plans, one for each way lazy, shared and spilled bindings meet:  *)
(* a body with three readers over a chain of lazy fragments, a semi-join   *)
(* reduction from a shared build side, and more relations than fit.        *)
SharedBody == <<Scan, Do("compose", <<1>>), Do("compose", <<2>>), Do("dedup", <<2>>),
                Do("compose", <<2, 3>>), Do("compose", <<4, 5>>), Do("return", <<6>>)>>
SemiJoin   == <<Scan, Do("compose", <<1>>), Do("collect", <<2>>), Do("inject", <<3>>),
                Do("compose", <<2, 4>>), Do("guard", <<5>>), Do("return", <<6>>)>>
TwoKeys    == <<Scan, Do("collect", <<1>>), Scan, Do("collect", <<3>>),
                Do("inject", <<2, 4>>), Do("compose", <<1, 5>>), Do("return", <<6>>)>>
FourScans  == <<Scan, Scan, Scan, Scan, Do("compose", <<1, 2>>), Do("compose", <<5, 3, 4>>),
                Do("return", <<6>>)>>
LongPlans  == {SharedBody, SemiJoin, TwoKeys, FourScans}

(* Plans no planner should send: unknown and mistyped bindings, reads of   *)
(* what is not yet written, no return, steps after the return.             *)
Malformed ==
    {<<Scan>>, <<Do("return", <<1>>)>>, <<Do("compose", <<2>>), Scan>>,
     <<Scan, Do("inject", <<1>>), Do("return", <<2>>)>>,
     <<Scan, Do("collect", <<1>>), Do("compose", <<1, 2>>), Do("return", <<3>>)>>,
     <<Scan, Do("collect", <<1>>), Do("return", <<2>>)>>,
     <<Scan, Do("collect", <<1>>), Do("collect", <<2>>), Do("return", <<1>>)>>,
     <<Scan, Do("return", <<1>>), Do("compose", <<1>>), Do("return", <<3>>)>>,
     <<Scan, Do("compose", <<3>>), Scan, Do("return", <<2>>)>>}

(* The plan of the run that shows a disagreement.                          *)
ShipPlans  == {<<Scan, Scan, Do("ship", <<1>>), Do("compose", <<2>>), Do("return", <<4>>)>>}

MCPlans == AllShortPlans \union LongPlans \union Malformed
===========================================================================
