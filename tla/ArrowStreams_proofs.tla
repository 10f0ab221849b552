------------------------- MODULE ArrowStreams_proofs -------------------------
(***************************************************************************)
(* Every C stream has one owner until it is released, for any number of    *)
(* threads and streams.  The streams that exist form chains: an outermost  *)
(* struct, held by one object, and the streams it reads from, each held by *)
(* its wrapper alone.  Handing a struct on keeps the chain, a roundtrip    *)
(* puts a new stream in front of it, and dropping its holder releases all  *)
(* of it.                                                                  *)
(***************************************************************************)
EXTENDS ArrowStreams, FiniteSetTheorems, TLAPS

Held(s) == holders[s] # {}
Heads   == {s \in Streams : \E p \in Outermost : p \in holders[s]}

(* A stream that is not made yet has no history.                           *)
NotMadeYet == \A s \in Streams : s > made =>
    holders[s] = {} /\ wraps[s] = {} /\ releases[s] = 0 /\ consumers[s] = 0

(* What is held is not released, and what no longer is was released once.  *)
HeldOrReleased == \A s \in 1..made : releases[s] = IF Held(s) THEN 0 ELSE 1

OneHolder == \A s \in Streams : \A p, q \in holders[s] : p = q

(* A held stream is in one chain: its own, or that of one head.            *)
InChains ==
    /\ \A s \in Streams : Held(s) => \A x \in wraps[s] : holders[x] = {"wrapper"}
    /\ \A x \in Streams : "wrapper" \in holders[x] => \E t \in Heads : x \in wraps[t]
    /\ \A x \in Streams : \A t, u \in Heads : x \in wraps[t] /\ x \in wraps[u] => t = u

(* Nothing of a chain was handed to a consumer before its head is.         *)
NotConsumedYet ==
    \A s \in Heads : "consumer" \notin holders[s] => \A x \in Chain(s) : consumers[x] = 0

Inv ==
    /\ TypeOK /\ NotMadeYet /\ HeldOrReleased /\ OneHolder /\ InChains
    /\ NotConsumedYet /\ OneConsumer

---------------------------------------------------------------------------
(* Facts about chains *)

LEMMA HeadFacts ==
    ASSUME Inv, NEW s \in Streams, NEW p \in Outermost, p \in holders[s]
    PROVE  /\ s \in Heads /\ s \in 1..made /\ holders[s] = {p} /\ "wrapper" \notin holders[s]
           /\ \A t \in Streams : Held(t) => s \notin wraps[t]
           /\ \A x \in Chain(s) : x \in 1..made /\ Held(x) /\ releases[x] = 0
           /\ \A x \in wraps[s] : holders[x] = {"wrapper"} /\ x \in Streams /\ x # s
  <1>1. s \in Heads /\ holders[s] = {p} /\ p # "wrapper"
    BY DEF Heads, Inv, OneHolder, Outermost
  <1>2. s \in 1..made
    BY DEF Inv, NotMadeYet, Streams, TypeOK
  <1>3. \A t \in Streams : Held(t) => s \notin wraps[t]
    BY <1>1 DEF Inv, InChains
  <1>4. \A x \in wraps[s] : holders[x] = {"wrapper"} /\ x \in Streams /\ x # s /\ x \in 1..made
    <2>1. wraps[s] \subseteq Streams /\ \A x \in wraps[s] : x < s
      BY DEF Inv, TypeOK
    <2>2. \A x \in wraps[s] : holders[x] = {"wrapper"}
      BY <1>1, <1>2 DEF Inv, InChains, Held
    <2>3. \A x \in wraps[s] : x \in Nat /\ 1 <= x /\ x # s /\ x < made
      BY <1>2, <2>1 DEF Streams, Inv, TypeOK
    <2>4. made \in Nat
      BY ArrowAssumption DEF Inv, TypeOK
    <2>5. QED
      BY <2>1, <2>2, <2>3, <2>4
  <1>5. \A x \in Chain(s) : x \in 1..made /\ Held(x)
    BY <1>1, <1>2, <1>4 DEF Chain, Held
  <1>6. \A x \in Chain(s) : releases[x] = 0
    BY <1>5 DEF Inv, HeldOrReleased
  <1>7. QED
    BY <1>1, <1>2, <1>3, <1>4, <1>5, <1>6

(* Two heads have no stream in common.                                     *)
LEMMA ChainsDisjoint ==
    ASSUME Inv, NEW s \in Heads, NEW t \in Heads, NEW x \in Chain(s), x \in Chain(t)
    PROVE  s = t
  <1>1. PICK p \in Outermost : p \in holders[s]
    BY DEF Heads
  <1>2. PICK q \in Outermost : q \in holders[t]
    BY DEF Heads
  <1>3. s \in Streams /\ t \in Streams /\ Held(s) /\ Held(t)
    BY <1>1, <1>2 DEF Heads, Held
  <1>4. s \notin wraps[t] /\ t \notin wraps[s]
    BY <1>1, <1>2, <1>3, HeadFacts
  <1>5. CASE x \in wraps[s] /\ x \in wraps[t]
    <2>1. x \in Streams
      BY <1>1, <1>3, <1>5, HeadFacts
    <2>2. QED
      BY <1>5, <2>1 DEF Inv, InChains
  <1>6. QED
    BY <1>4, <1>5 DEF Chain

(* A held stream is a head or in the chain of one.                         *)
LEMMA HeadOf ==
    ASSUME Inv, NEW x \in Streams, Held(x)
    PROVE  \E t \in Heads : x \in Chain(t)
  <1>1. PICK p \in Places : p \in holders[x]
    BY DEF Inv, TypeOK, Held
  <1>2. CASE p = "wrapper"
    BY <1>1, <1>2 DEF Inv, InChains, Chain
  <1>3. CASE p \in Outermost
    BY <1>1, <1>3 DEF Heads, Chain
  <1>4. QED
    BY <1>1, <1>2, <1>3 DEF Places

(* Whatever holds a stream of a chain is in the same chain.                *)
LEMMA HeldInChain ==
    ASSUME Inv, NEW s \in Heads, NEW x \in Chain(s), NEW t \in Streams, Held(t), x \in Chain(t)
    PROVE  t \in Chain(s)
  <1>1. PICK h \in Heads : t \in Chain(h)
    BY HeadOf
  <1>2. Chain(t) \subseteq Chain(h)
    <2>1. h \in Streams
      BY DEF Heads
    <2>2. QED
      BY <1>1, <2>1 DEF Chain, Inv, TypeOK
  <1>3. h = s
    BY <1>2, ChainsDisjoint
  <1>4. QED
    BY <1>1, <1>3

---------------------------------------------------------------------------
(* What happens to chains *)

(* A stream nobody knew is given to an object.                             *)
LEMMA FreshInv ==
    ASSUME Inv, TypeOK', made < MaxStreams, made' = made + 1, NEW p \in Outermost,
           wraps' = [wraps EXCEPT ![made + 1] = {}],
           holders' = [holders EXCEPT ![made + 1] = {p}],
           UNCHANGED <<releases, consumers>>
    PROVE  Inv'
  <1>1. PICK n \in Streams : n = made + 1
    BY ArrowAssumption DEF Inv, TypeOK, Streams
  <1>2. /\ holders[n] = {} /\ wraps[n] = {} /\ releases[n] = 0 /\ consumers[n] = 0
        /\ made \in Nat /\ n \notin 1..made /\ 1..made' = (1..made) \union {n}
    BY <1>1 DEF Inv, NotMadeYet, TypeOK
  <1>3. wraps' = wraps
    BY <1>1, <1>2 DEF Inv, TypeOK
  <1>4. holders'[n] = {p} /\ \A x \in Streams : x # n => holders'[x] = holders[x]
    BY <1>1 DEF Inv, TypeOK
  <1>5. \A x \in Streams : n \notin wraps[x]
    <2>1. ASSUME NEW x \in Streams, n \in wraps[x] PROVE FALSE
      <3>1. n < x /\ x > made
        BY <1>1, <1>2, <2>1 DEF Inv, TypeOK, Streams
      <3>2. QED
        BY <2>1, <3>1 DEF Inv, NotMadeYet
    <2>2. QED
      BY <2>1
  <1>6. Heads' = Heads \union {n} /\ n \notin Heads
    BY <1>2, <1>4 DEF Heads
  <1>7. NotMadeYet'
    BY <1>1, <1>2, <1>3, <1>4 DEF Inv, NotMadeYet, Streams
  <1>8. HeldOrReleased'
    <2>1. \A x \in 1..made' : x \in Streams /\ (x # n => x \in 1..made)
      <3>1. 1..made \subseteq Streams
        BY ArrowAssumption DEF Inv, TypeOK, Streams
      <3>2. QED
        BY <1>1, <1>2, <3>1
    <2>2. \A x \in 1..made' : x # n => releases'[x] = IF Held(x)' THEN 0 ELSE 1
      <3>1. ASSUME NEW x \in 1..made', x # n PROVE releases'[x] = IF Held(x)' THEN 0 ELSE 1
        <4>1. x \in 1..made /\ holders'[x] = holders[x]
          BY <1>4, <2>1, <3>1
        <4>2. releases[x] = IF Held(x) THEN 0 ELSE 1
          BY <4>1 DEF Inv, HeldOrReleased
        <4>3. QED
          BY <4>1, <4>2 DEF Held
      <3>2. QED
        BY <3>1
    <2>3. releases'[n] = 0 /\ Held(n)'
      BY <1>2, <1>4 DEF Held
    <2>4. ASSUME NEW x \in 1..made' PROVE releases'[x] = IF Held(x)' THEN 0 ELSE 1
      <3>1. CASE x = n
        BY <2>3, <3>1
      <3>2. CASE x # n
        BY <2>2, <3>2
      <3>3. QED
        BY <3>1, <3>2
    <2>5. QED
      BY <2>4 DEF HeldOrReleased
  <1>9. OneHolder'
    BY <1>4 DEF Inv, OneHolder
  <1>10. InChains'
    <2>1. \A x \in Streams : Held(x)' => \A y \in wraps'[x] : holders'[y] = {"wrapper"}
      BY <1>2, <1>3, <1>4, <1>5 DEF Inv, InChains, Held, TypeOK
    <2>2. \A x \in Streams : "wrapper" \in holders'[x] => \E t \in Heads' : x \in wraps'[t]
      BY <1>3, <1>4, <1>6 DEF Inv, InChains, Outermost
    <2>3. \A x \in Streams : \A t, u \in Heads' : x \in wraps'[t] /\ x \in wraps'[u] => t = u
      BY <1>2, <1>3, <1>6 DEF Inv, InChains
    <2>4. QED
      BY <2>1, <2>2, <2>3 DEF InChains
  <1>11. NotConsumedYet'
    BY <1>2, <1>3, <1>4, <1>6 DEF Inv, NotConsumedYet, Chain, Heads
  <1>12. OneConsumer'
    BY DEF Inv, OneConsumer
  <1>13. QED
    BY <1>7, <1>8, <1>9, <1>10, <1>11, <1>12 DEF Inv

(* The head of a chain goes from one object to another; a consumer is      *)
(* handed all of the chain.                                                *)
LEMMA MoveInv ==
    ASSUME Inv, TypeOK', NEW s \in Streams, NEW p \in Outermost, NEW q \in Outermost,
           p \in holders[s], p # "consumer", holders' = [holders EXCEPT ![s] = {q}],
           UNCHANGED <<made, wraps, releases>>,
           \/ q # "consumer" /\ consumers' = consumers
           \/ q = "consumer" /\ consumers' = [x \in Streams |->
                     IF x \in Chain(s) THEN consumers[x] + 1 ELSE consumers[x]]
    PROVE  Inv'
  <1>1. /\ s \in Heads /\ s \in 1..made /\ holders[s] = {p}
        /\ \A t \in Streams : Held(t) => s \notin wraps[t]
    BY HeadFacts
  <1>2. holders'[s] = {q} /\ \A x \in Streams : x # s => holders'[x] = holders[x]
    BY DEF Inv, TypeOK
  <1>3. Heads' = Heads
    BY <1>1, <1>2 DEF Heads
  <1>4. \A x \in Streams : Held(x)' <=> Held(x)
    BY <1>1, <1>2 DEF Held
  <1>5. \A x : Chain(x)' = Chain(x)
    BY DEF Chain
  <1>6. \A x \in Chain(s) : consumers[x] = 0
    BY <1>1 DEF Inv, NotConsumedYet
  <1>7. NotMadeYet'
    <2>1. \A x \in Streams : x > made => consumers'[x] = 0
      <3>1. \A x \in Chain(s) : x \in 1..made
        BY HeadFacts
      <3>2. QED
        BY <3>1 DEF Inv, NotMadeYet, TypeOK
    <2>2. QED
      BY <1>1, <1>2, <2>1 DEF Inv, NotMadeYet
  <1>8. HeldOrReleased'
    <2>1. \A x \in 1..made : x \in Streams
      BY ArrowAssumption DEF Inv, TypeOK, Streams
    <2>2. QED
      BY <1>4, <2>1 DEF Inv, HeldOrReleased
  <1>9. OneHolder'
    BY <1>2 DEF Inv, OneHolder
  <1>10. InChains'
    <2>1. \A x \in Streams : Held(x)' => \A y \in wraps'[x] : holders'[y] = {"wrapper"}
      <3>0. \A x \in Streams : wraps[x] \subseteq Streams
        BY DEF Inv, TypeOK
      <3>1. \A x \in Streams : Held(x) => \A y \in wraps[x] : y \in Streams /\ y # s
        BY <1>1, <3>0
      <3>2. QED
        BY <1>2, <1>4, <3>1 DEF Inv, InChains
    <2>2. \A x \in Streams : "wrapper" \in holders'[x] => \E t \in Heads' : x \in wraps'[t]
      BY <1>2, <1>3 DEF Inv, InChains, Outermost
    <2>3. QED
      BY <1>3, <2>1, <2>2 DEF Inv, InChains
  <1>11. NotConsumedYet'
    <2>1. SUFFICES ASSUME NEW t \in Heads, "consumer" \notin holders'[t], NEW x \in Chain(t)
                   PROVE  consumers'[x] = 0
      BY <1>3, <1>5 DEF NotConsumedYet
    <2>2. t \in Streams /\ x \in Streams
      <3>1. t \in Streams
        BY DEF Heads
      <3>2. QED
        BY <2>1, <3>1 DEF Chain, Inv, TypeOK
    <2>3. consumers[x] = 0
      BY <1>1, <1>2, <1>6, <2>1, <2>2 DEF Inv, NotConsumedYet
    <2>4. CASE q # "consumer"
      BY <2>3, <2>4
    <2>5. CASE q = "consumer"
      <3>1. t # s
        BY <1>2, <2>1, <2>5
      <3>2. x \notin Chain(s)
        BY <1>1, <3>1, ChainsDisjoint
      <3>3. QED
        BY <2>2, <2>3, <2>5, <3>2
    <2>6. QED
      BY <2>4, <2>5
  <1>12. OneConsumer'
    BY <1>6 DEF Inv, OneConsumer, TypeOK
  <1>13. QED
    BY <1>7, <1>8, <1>9, <1>10, <1>11, <1>12 DEF Inv

(* The object that has the head is dropped, and the chain with it.         *)
LEMMA ReleaseInv ==
    ASSUME Inv, TypeOK', NEW s \in Streams, NEW p \in Outermost, p \in holders[s],
           releases' = Released(s), holders' = Without(s, p), UNCHANGED <<made, wraps, consumers>>
    PROVE  Inv'
  <1>1. /\ s \in Heads /\ s \in 1..made /\ holders[s] = {p}
        /\ \A t \in Streams : Held(t) => s \notin wraps[t]
        /\ \A x \in Chain(s) : x \in 1..made /\ Held(x) /\ releases[x] = 0
        /\ \A x \in wraps[s] : holders[x] = {"wrapper"} /\ x \in Streams /\ x # s
    BY HeadFacts
  <1>2. \A x \in Streams : holders'[x] = IF x \in Chain(s) THEN {} ELSE holders[x]
    BY <1>1 DEF Without, Chain
  <1>3. \A x \in Streams : releases'[x] = IF x \in Chain(s) THEN 1 ELSE releases[x]
    BY <1>1 DEF Released
  <1>4. Heads' = Heads \ {s}
    <2>1. \A x \in Heads : x # s => x \notin Chain(s)
      BY <1>1 DEF Heads, Chain, Outermost
    <2>2. s \in Chain(s)
      BY DEF Chain
    <2>3. QED
      BY <1>2, <2>1, <2>2 DEF Heads
  <1>5. \A x : Chain(x)' = Chain(x)
    BY DEF Chain
  <1>6. \A x \in Streams : Held(x)' <=> Held(x) /\ x \notin Chain(s)
    BY <1>2 DEF Held
  <1>7. NotMadeYet'
    <2>1. \A x \in Streams : x > made => x \notin Chain(s)
      BY <1>1 DEF Inv, TypeOK
    <2>2. QED
      BY <1>2, <1>3, <2>1 DEF Inv, NotMadeYet
  <1>8. HeldOrReleased'
    <2>1. \A x \in 1..made : x \in Streams
      BY ArrowAssumption DEF Inv, TypeOK, Streams
    <2>2. QED
      BY <1>1, <1>3, <1>6, <2>1 DEF Inv, HeldOrReleased
  <1>9. OneHolder'
    BY <1>2 DEF Inv, OneHolder
  <1>10. InChains'
    <2>1. ASSUME NEW x \in Streams, Held(x)', NEW y \in wraps[x]
          PROVE  holders'[y] = {"wrapper"}
      <3>1. Held(x) /\ x \notin Chain(s) /\ y \in Streams /\ holders[y] = {"wrapper"}
        BY <1>6, <2>1 DEF Inv, InChains, TypeOK
      <3>2. y \in Chain(x)
        BY <2>1 DEF Chain
      <3>3. y \notin Chain(s)
        BY <1>1, <3>1, <3>2, HeldInChain
      <3>4. QED
        BY <1>2, <3>1, <3>3
    <2>2. ASSUME NEW x \in Streams, "wrapper" \in holders'[x]
          PROVE  \E t \in Heads' : x \in wraps'[t]
      <3>1. "wrapper" \in holders[x] /\ x \notin Chain(s)
        BY <1>2, <2>2
      <3>2. PICK t \in Heads : x \in wraps[t]
        BY <3>1 DEF Inv, InChains
      <3>3. QED
        BY <1>4, <3>1, <3>2 DEF Chain
    <2>3. QED
      BY <1>4, <2>1, <2>2 DEF Inv, InChains
  <1>11. NotConsumedYet'
    <2>1. \A t \in Heads' : t \in Heads /\ holders'[t] = holders[t]
      <3>1. \A t \in Heads' : t \in Streams /\ t \in Heads /\ holders'[t] # {}
        BY <1>4 DEF Heads
      <3>2. QED
        BY <1>2, <3>1
    <2>2. QED
      BY <1>5, <2>1 DEF Inv, NotConsumedYet
  <1>12. OneConsumer'
    BY DEF Inv, OneConsumer
  <1>13. QED
    BY <1>7, <1>8, <1>9, <1>10, <1>11, <1>12 DEF Inv

(* An import moves the head out of its capsule, and the new stream around  *)
(* it is the head of the longer chain.                                     *)
LEMMA RoundtripInv ==
    ASSUME Inv, TypeOK', NEW s \in Streams, "capsule" \in holders[s],
           made < MaxStreams, made' = made + 1, wraps' = [wraps EXCEPT ![made + 1] = Chain(s)],
           holders' = [holders EXCEPT ![s] = {"wrapper"}, ![made + 1] = {"export"}],
           UNCHANGED <<releases, consumers>>
    PROVE  Inv'
  <1>1. PICK n \in Streams : n = made + 1
    BY ArrowAssumption DEF Inv, TypeOK, Streams
  <1>2. /\ holders[n] = {} /\ wraps[n] = {} /\ releases[n] = 0 /\ consumers[n] = 0
        /\ made \in Nat /\ n \notin 1..made /\ 1..made' = (1..made) \union {n}
    BY <1>1 DEF Inv, NotMadeYet, TypeOK
  <1>3. "capsule" \in Outermost /\ "export" \in Outermost /\ "wrapper" \notin Outermost
    BY DEF Outermost
  <1>4. /\ s \in Heads /\ s \in 1..made /\ holders[s] = {"capsule"}
        /\ \A t \in Streams : Held(t) => s \notin wraps[t]
        /\ \A x \in Chain(s) : x \in 1..made /\ Held(x) /\ releases[x] = 0
        /\ \A x \in wraps[s] : holders[x] = {"wrapper"} /\ x \in Streams /\ x # s
    BY <1>3, HeadFacts
  <1>5. n # s /\ n \notin Chain(s) /\ s \in Chain(s)
    BY <1>2, <1>4 DEF Chain
  <1>6. wraps'[n] = Chain(s) /\ \A x \in Streams : x # n => wraps'[x] = wraps[x]
    BY <1>1 DEF Inv, TypeOK
  <1>7. /\ holders'[n] = {"export"} /\ holders'[s] = {"wrapper"}
        /\ \A x \in Streams : x # n /\ x # s => holders'[x] = holders[x]
    BY <1>1, <1>5 DEF Inv, TypeOK
  <1>8. \A x \in Streams : n \notin wraps[x]
    <2>1. ASSUME NEW x \in Streams, n \in wraps[x] PROVE FALSE
      <3>1. n < x /\ x > made
        BY <1>1, <1>2, <2>1 DEF Inv, TypeOK, Streams
      <3>2. QED
        BY <2>1, <3>1 DEF Inv, NotMadeYet
    <2>2. QED
      BY <2>1
  <1>9. n \notin Heads /\ Heads' = (Heads \ {s}) \union {n}
    <2>1. n \notin Heads
      BY <1>2 DEF Heads
    <2>2. \A x \in Streams : x # n /\ x # s => (x \in Heads' <=> x \in Heads)
      BY <1>7 DEF Heads
    <2>3. n \in Heads' /\ s \notin Heads'
      BY <1>3, <1>7 DEF Heads
    <2>4. Heads \subseteq Streams /\ Heads' \subseteq Streams
      BY DEF Heads
    <2>5. QED
      BY <2>1, <2>2, <2>3, <2>4
  <1>10. \A x \in Streams : Held(x)' <=> Held(x) \/ x = n
    BY <1>4, <1>5, <1>7 DEF Held
  <1>11. \A t \in Heads : t # s => \A x \in Chain(s) : x \notin wraps[t]
    BY <1>4, ChainsDisjoint DEF Chain
  <1>12. NotMadeYet'
    <2>1. \A x \in Streams : x > made' => x # n /\ x # s /\ x > made
      BY <1>1, <1>4 DEF Inv, TypeOK, Streams
    <2>2. QED
      BY <1>6, <1>7, <2>1 DEF Inv, NotMadeYet
  <1>13. HeldOrReleased'
    <2>1. \A x \in 1..made : x \in Streams
      BY ArrowAssumption DEF Inv, TypeOK, Streams
    <2>2. Held(n)' /\ releases'[n] = 0
      BY <1>2, <1>10
    <2>3. \A x \in 1..made : releases'[x] = IF Held(x)' THEN 0 ELSE 1
      BY <1>2, <1>10, <2>1 DEF Inv, HeldOrReleased
    <2>4. QED
      BY <1>2, <2>2, <2>3 DEF HeldOrReleased
  <1>14. OneHolder'
    <2>1. \A p, q \in holders'[n] : p = q
      BY <1>7
    <2>2. \A p, q \in holders'[s] : p = q
      BY <1>7
    <2>3. \A x \in Streams : x # n /\ x # s => \A p, q \in holders'[x] : p = q
      BY <1>7 DEF Inv, OneHolder
    <2>4. QED
      BY <2>1, <2>2, <2>3 DEF OneHolder
  <1>15. InChains'
    <2>1. ASSUME NEW x \in Streams, Held(x)', NEW y \in wraps'[x]
          PROVE  holders'[y] = {"wrapper"}
      <3>1. CASE x = n
        <4>1. y = s \/ (y \in wraps[s] /\ y # n)
          BY <1>5, <1>6, <2>1, <3>1 DEF Chain
        <4>2. QED
          BY <1>4, <1>7, <4>1
      <3>2. CASE x # n
        <4>1. Held(x) /\ y \in wraps[x] /\ y # n /\ y # s /\ y \in Streams
          BY <1>4, <1>6, <1>8, <1>10, <2>1, <3>2 DEF Inv, TypeOK
        <4>2. QED
          BY <1>7, <2>1, <4>1 DEF Inv, InChains
      <3>3. QED
        BY <3>1, <3>2
    <2>2. ASSUME NEW x \in Streams, "wrapper" \in holders'[x]
          PROVE  \E t \in Heads' : x \in wraps'[t]
      <3>1. CASE x = s
        BY <1>5, <1>6, <1>9, <3>1
      <3>2. CASE x # s
        <4>1. "wrapper" \in holders[x]
          BY <1>3, <1>7, <2>2, <3>2
        <4>2. PICK t \in Heads : x \in wraps[t]
          BY <4>1 DEF Inv, InChains
        <4>3. CASE t = s
          BY <1>6, <1>9, <4>2, <4>3 DEF Chain
        <4>4. CASE t # s
          BY <1>6, <1>9, <4>2, <4>4 DEF Heads
        <4>5. QED
          BY <4>3, <4>4
      <3>3. QED
        BY <3>1, <3>2
    <2>3. ASSUME NEW x \in Streams, NEW t \in Heads', NEW u \in Heads', x \in wraps'[t], x \in wraps'[u]
          PROVE  t = u
      <3>1. \A h \in Heads' : h # n => h \in Heads /\ h # s /\ wraps'[h] = wraps[h]
        BY <1>6, <1>9 DEF Heads
      <3>2. \A h \in Heads' : h # n /\ x \in wraps'[h] => x \notin Chain(s)
        BY <1>11, <3>1
      <3>3. CASE t # n /\ u # n
        BY <2>3, <3>1, <3>3 DEF Inv, InChains
      <3>4. CASE t = n \/ u = n
        BY <1>6, <2>3, <3>2, <3>4
      <3>5. QED
        BY <3>3, <3>4
    <2>4. QED
      BY <2>1, <2>2, <2>3 DEF InChains
  <1>16. NotConsumedYet'
    <2>1. \A x \in Chain(s) : consumers[x] = 0
      BY <1>4 DEF Inv, NotConsumedYet
    <2>2. \A x \in Chain(n)' : consumers'[x] = 0
      BY <1>2, <1>6, <2>1 DEF Chain
    <2>3. \A h \in Heads' : h # n => h \in Heads /\ holders'[h] = holders[h] /\ Chain(h)' = Chain(h)
      BY <1>6, <1>7, <1>9 DEF Heads, Chain
    <2>4. QED
      BY <2>2, <2>3 DEF Inv, NotConsumedYet
  <1>17. OneConsumer'
    BY DEF Inv, OneConsumer
  <1>18. QED
    BY <1>12, <1>13, <1>14, <1>15, <1>16, <1>17 DEF Inv

---------------------------------------------------------------------------
(* Every step *)

LEMMA InitInv == Init => Inv
  BY ArrowAssumption DEF Init, Inv, TypeOK, NotMadeYet, HeldOrReleased, OneHolder, InChains,
     NotConsumedYet, OneConsumer, Heads, Held, Streams, Places, Outermost, Chain, None

LEMMA NewExportInv ==
    ASSUME Inv, NEW th \in Threads, NewExport(th)
    PROVE  Inv'
  <1>1. TypeOK'
    <2>1. made' \in 0..MaxStreams /\ made + 1 \in Streams
      BY ArrowAssumption DEF NewExport, Make, Inv, TypeOK, Streams
    <2>2. wraps' = wraps
      BY <2>1 DEF NewExport, Make, Inv, TypeOK, NotMadeYet, Streams
    <2>3. QED
      BY <2>1, <2>2 DEF NewExport, Make, Inv, TypeOK, Places, Outermost
  <1>2. "export" \in Outermost
    BY DEF Outermost
  <1>3. QED
    BY <1>1, <1>2, FreshInv DEF NewExport, Make

LEMMA ForeignStreamInv ==
    ASSUME Inv, ForeignStream
    PROVE  Inv'
  <1>1. TypeOK'
    <2>1. made' \in 0..MaxStreams /\ made + 1 \in Streams
      BY ArrowAssumption DEF ForeignStream, Make, Inv, TypeOK, Streams
    <2>2. wraps' = wraps
      BY <2>1 DEF ForeignStream, Make, Inv, TypeOK, NotMadeYet, Streams
    <2>3. capsules' \subseteq 1..made' /\ capsules \subseteq capsules'
      BY <2>1 DEF ForeignStream, Make, Inv, TypeOK, Streams
    <2>4. importing' \in [Threads -> capsules' \union {None}]
      BY <2>3 DEF ForeignStream, Inv, TypeOK
    <2>5. QED
      BY <2>1, <2>2, <2>3, <2>4 DEF ForeignStream, Make, Inv, TypeOK, Places, Outermost
  <1>2. "capsule" \in Outermost
    BY DEF Outermost
  <1>3. QED
    BY <1>1, <1>2, FreshInv DEF ForeignStream, Make

LEMMA ArrowCStreamInv ==
    ASSUME Inv, NEW th \in Threads, NEW s \in Streams, ArrowCStream(th, s)
    PROVE  Inv'
  <1>1. "export" \in Outermost /\ "capsule" \in Outermost
    BY DEF Outermost
  <1>2. s \in 1..made /\ holders[s] = {"export"}
    BY <1>1, HeadFacts DEF ArrowCStream
  <1>3. holders' = [holders EXCEPT ![s] = {"capsule"}]
    BY <1>2 DEF ArrowCStream, HandedOut
  <1>4. TypeOK'
    <2>1. importing' \in [Threads -> capsules' \union {None}]
      BY DEF ArrowCStream, Inv, TypeOK
    <2>2. QED
      BY <1>2, <1>3, <2>1 DEF ArrowCStream, Inv, TypeOK, Places, Outermost
  <1>5. QED
    BY <1>1, <1>3, <1>4, MoveInv DEF ArrowCStream

LEMMA ConsumeInv ==
    ASSUME Inv, NEW s \in Streams, Consume(s)
    PROVE  Inv'
  <1>1. "capsule" \in Outermost /\ "consumer" \in Outermost
    BY DEF Outermost
  <1>2. s \in 1..made /\ holders[s] = {"capsule"}
    BY <1>1, HeadFacts DEF Consume
  <1>3. holders' = [holders EXCEPT ![s] = {"consumer"}]
    BY <1>2 DEF Consume, Inv, TypeOK
  <1>4. TypeOK'
    BY <1>2, <1>3 DEF Consume, Inv, TypeOK, Places, Outermost
  <1>5. QED
    BY <1>1, <1>3, <1>4, MoveInv DEF Consume

(* An import is of a stream.                                               *)
LEMMA ImportsAStream ==
    ASSUME Inv, NEW th \in Threads, importing[th] # None
    PROVE  importing[th] \in Streams
  <1>1. importing[th] \in 1..made
    BY DEF Inv, TypeOK
  <1>2. QED
    BY <1>1, ArrowAssumption DEF Inv, TypeOK, Streams

(* What a release leaves is well typed.                                    *)
LEMMA ReleaseType ==
    ASSUME Inv, NEW s \in Streams, NEW p \in Outermost
    PROVE  Released(s) \in [Streams -> Nat] /\ Without(s, p) \in [Streams -> SUBSET Places]
  BY DEF Inv, TypeOK, Released, Without

LEMMA RefuseStreamInv ==
    ASSUME Inv, NEW th \in Threads, RefuseStream(th)
    PROVE  Inv'
  <1>1. PICK s \in Streams : s = importing[th]
    BY ImportsAStream DEF RefuseStream
  <1>2. "capsule" \in Outermost
    BY DEF Outermost
  <1>3. /\ "capsule" \in holders[s] /\ releases' = Released(s) /\ holders' = Without(s, "capsule")
        /\ importing' = [importing EXCEPT ![th] = None]
        /\ UNCHANGED <<made, wraps, home, capsules, consumers>>
    BY <1>1 DEF RefuseStream
  <1>4. TypeOK'
    BY <1>2, <1>3, ReleaseType DEF Inv, TypeOK
  <1>5. QED
    BY <1>2, <1>3, <1>4, ReleaseInv

LEMMA DropConsumerInv ==
    ASSUME Inv, NEW s \in Streams, DropConsumer(s)
    PROVE  Inv'
  <1>1. "consumer" \in Outermost
    BY DEF Outermost
  <1>2. TypeOK'
    BY <1>1, ReleaseType DEF DropConsumer, Inv, TypeOK
  <1>3. QED
    BY <1>1, <1>2, ReleaseInv DEF DropConsumer

(* A step that leaves the streams alone.                                   *)
LEMMA ElsewhereInv ==
    ASSUME Inv, TypeOK', UNCHANGED <<made, holders, wraps, releases, consumers>>
    PROVE  Inv'
  BY DEF Inv, NotMadeYet, HeldOrReleased, OneHolder, InChains, NotConsumedYet, OneConsumer,
     Heads, Held, Chain

LEMMA DropCapsuleInv ==
    ASSUME Inv, NEW s \in Streams, DropCapsule(s)
    PROVE  Inv'
  <1>1. "capsule" \in Outermost
    BY DEF Outermost
  <1>2. importing' \in [Threads -> capsules' \union {None}] /\ capsules' \subseteq 1..made'
    BY DEF DropCapsule, Inv, TypeOK
  <1>3. CASE "capsule" \in holders[s]
    <2>1. TypeOK'
      BY <1>1, <1>2, <1>3, ReleaseType DEF DropCapsule, Inv, TypeOK
    <2>2. QED
      BY <1>1, <1>3, <2>1, ReleaseInv DEF DropCapsule
  <1>4. CASE "capsule" \notin holders[s]
    <2>1. TypeOK'
      BY <1>2, <1>4 DEF DropCapsule, Inv, TypeOK
    <2>2. QED
      BY <1>4, <2>1, ElsewhereInv DEF DropCapsule
  <1>5. QED
    BY <1>3, <1>4

LEMMA DropExportInv ==
    ASSUME Inv, NEW th \in Threads, NEW s \in Streams, DropExport(th, s)
    PROVE  Inv'
  <1>1. "export" \in Outermost /\ "leak" \in Outermost
    BY DEF Outermost
  <1>2. CASE th = home[s]
    <2>1. TypeOK'
      BY <1>1, <1>2, ReleaseType DEF DropExport, Inv, TypeOK
    <2>2. QED
      BY <1>1, <1>2, <2>1, ReleaseInv DEF DropExport
  <1>3. CASE th # home[s]
    <2>1. holders[s] = {"export"}
      BY <1>1, HeadFacts DEF DropExport
    <2>2. holders' = [holders EXCEPT ![s] = {"leak"}]
      BY <1>3, <2>1 DEF DropExport, Inv, TypeOK
    <2>3. TypeOK'
      BY <1>3, <2>2 DEF DropExport, Inv, TypeOK, Places, Outermost
    <2>4. QED
      BY <1>1, <1>3, <2>2, <2>3, MoveInv DEF DropExport
  <1>4. QED
    BY <1>2, <1>3

LEMMA RoundtripStepInv ==
    ASSUME Inv, NEW th \in Threads, Roundtrip(th)
    PROVE  Inv'
  <1>1. PICK s \in Streams : s = importing[th]
    BY ImportsAStream DEF Roundtrip
  <1>2. "capsule" \in Outermost
    BY DEF Outermost
  <1>3. /\ "capsule" \in holders[s] /\ Make(th, Chain(s))
        /\ holders' = [holders EXCEPT ![s] = MovedOut(s), ![made + 1] = {"export"}]
        /\ importing' = [importing EXCEPT ![th] = None]
        /\ UNCHANGED <<capsules, releases, consumers>>
    BY <1>1 DEF Roundtrip
  <1>4. /\ holders[s] = {"capsule"} /\ \A x \in Chain(s) : x \in 1..made
    BY <1>2, <1>3, HeadFacts
  <1>5. holders' = [holders EXCEPT ![s] = {"wrapper"}, ![made + 1] = {"export"}]
    BY <1>3, <1>4 DEF MovedOut
  <1>6. TypeOK'
    <2>1. PICK n \in Streams : n = made + 1 /\ made' = n /\ made' \in 0..MaxStreams
      BY <1>3, ArrowAssumption DEF Make, Inv, TypeOK, Streams
    <2>2. /\ wraps' = [wraps EXCEPT ![n] = Chain(s)] /\ home' = [home EXCEPT ![n] = th]
      BY <1>3, <2>1 DEF Make
    <2>3. Chain(s) \subseteq Streams /\ \A x \in Chain(s) : x < n /\ wraps[x] \subseteq Chain(s)
      BY <1>4, <2>1 DEF Inv, TypeOK, Chain, Streams
    <2>4. wraps' \in [Streams -> SUBSET Streams]
      BY <2>2, <2>3 DEF Inv, TypeOK
    <2>5. ASSUME NEW t \in Streams, NEW x \in wraps'[t]
          PROVE  x < t /\ wraps'[x] \subseteq wraps'[t]
      <3>1. CASE t = n
        <4>1. x \in Chain(s) /\ x # n /\ wraps'[t] = Chain(s) /\ x \in Streams
          BY <2>1, <2>2, <2>3, <2>5, <3>1 DEF Inv, TypeOK, Streams
        <4>2. QED
          BY <2>2, <2>3, <3>1, <4>1 DEF Inv, TypeOK
      <3>2. CASE t # n
        <4>1. x \in wraps[t] /\ wraps'[t] = wraps[t] /\ x \in Streams /\ x < t
          BY <2>2, <2>5, <3>2 DEF Inv, TypeOK
        <4>2. x # n
          <5>1. t > made => wraps[t] = {}
            BY DEF Inv, NotMadeYet
          <5>2. QED
            BY <2>1, <4>1, <5>1 DEF Inv, TypeOK, Streams
        <4>3. QED
          BY <2>2, <4>1, <4>2 DEF Inv, TypeOK
      <3>3. QED
        BY <3>1, <3>2
    <2>6. home' \in [Streams -> Threads \union {NoThread}]
      BY <2>2 DEF Inv, TypeOK
    <2>7. holders' \in [Streams -> SUBSET Places]
      BY <1>5 DEF Inv, TypeOK, Places, Outermost
    <2>8. capsules' \subseteq 1..made' /\ importing' \in [Threads -> capsules' \union {None}]
      BY <1>3, <2>1 DEF Inv, TypeOK
    <2>9. QED
      BY <1>3, <2>1, <2>4, <2>5, <2>6, <2>7, <2>8 DEF Inv, TypeOK
  <1>7. QED
    BY <1>3, <1>5, <1>6, RoundtripInv DEF Make

LEMMA GetCapsuleInv ==
    ASSUME Inv, NEW th \in Threads, NEW s \in Streams, GetCapsule(th, s)
    PROVE  Inv'
  <1>1. TypeOK'
    BY DEF GetCapsule, Inv, TypeOK
  <1>2. QED
    BY <1>1, ElsewhereInv DEF GetCapsule

LEMMA RefuseEmptyInv ==
    ASSUME Inv, NEW th \in Threads, RefuseEmpty(th)
    PROVE  Inv'
  <1>1. TypeOK'
    BY DEF RefuseEmpty, Inv, TypeOK
  <1>2. QED
    BY <1>1, ElsewhereInv DEF RefuseEmpty

(* Inv is inductive.                                                       *)
LEMMA InvStep == Inv /\ [Next]_vars => Inv'
  <1> SUFFICES ASSUME Inv, [Next]_vars PROVE Inv'
    OBVIOUS
  <1>1. CASE ForeignStream
    BY <1>1, ForeignStreamInv
  <1>2. CASE \E th \in Threads : NewExport(th) \/ Roundtrip(th) \/ RefuseStream(th) \/ RefuseEmpty(th)
    BY <1>2, NewExportInv, RoundtripStepInv, RefuseStreamInv, RefuseEmptyInv
  <1>3. CASE \E th \in Threads, s \in Streams :
                ArrowCStream(th, s) \/ GetCapsule(th, s) \/ DropExport(th, s)
    BY <1>3, ArrowCStreamInv, GetCapsuleInv, DropExportInv
  <1>4. CASE \E s \in Streams : Consume(s) \/ DropConsumer(s) \/ DropCapsule(s)
    BY <1>4, ConsumeInv, DropConsumerInv, DropCapsuleInv
  <1>5. CASE UNCHANGED vars
    BY <1>5, ElsewhereInv DEF vars, Inv, TypeOK
  <1>6. QED
    BY <1>1, <1>2, <1>3, <1>4, <1>5 DEF Next

LEMMA SpecInv == Spec => []Inv
  BY InitInv, InvStep, PTL DEF Spec

---------------------------------------------------------------------------
(* Theorems *)

(* The state is well typed, and a stream reads only from earlier ones.     *)
THEOREM StreamsTypeCorrect == Spec => []TypeOK
  <1>1. Inv => TypeOK
    BY DEF Inv
  <1>2. QED
    BY <1>1, SpecInv, PTL

(* No release callback is called twice, and nothing has the struct of a    *)
(* stream that was released, for any number of streams, threads and        *)
(* roundtrips (ffi.rs:33).                                                 *)
THEOREM EachStreamReleasedOnce == Spec => []ReleasedOnce
  <1>1. Inv => ReleasedOnce
    <2> SUFFICES ASSUME Inv, NEW s \in Streams
                 PROVE  /\ releases[s] <= 1
                        /\ holders[s] # {} => \A x \in Chain(s) : releases[x] = 0
      BY DEF ReleasedOnce
    <2>1. releases[s] <= 1
      <3>1. CASE s \in 1..made
        BY <3>1 DEF Inv, HeldOrReleased
      <3>2. CASE s > made
        BY <3>2 DEF Inv, NotMadeYet
      <3>3. QED
        BY <3>1, <3>2, ArrowAssumption DEF Inv, TypeOK, Streams
    <2>2. ASSUME Held(s), NEW x \in Chain(s) PROVE releases[x] = 0
      <3>1. x \in Streams /\ Held(x)
        BY <2>2 DEF Inv, TypeOK, InChains, Chain, Held
      <3>2. x \in 1..made
        BY <3>1, ArrowAssumption DEF Inv, TypeOK, NotMadeYet, Held, Streams
      <3>3. QED
        BY <3>1, <3>2 DEF Inv, HeldOrReleased
    <2>3. QED
      BY <2>1, <2>2 DEF Held
  <1>2. QED
    BY <1>1, SpecInv, PTL

(* A stream that is not released has exactly one owner: the object that    *)
(* has the head of its chain.                                              *)
THEOREM EveryStreamOwned == Spec => []NoStreamIsLost
  <1>1. Inv => NoStreamIsLost
    <2> SUFFICES ASSUME Inv, NEW s \in 1..made, releases[s] = 0
                 PROVE  Cardinality(Owners(s)) = 1
      BY DEF NoStreamIsLost
    <2>1. s \in Streams /\ Held(s)
      BY ArrowAssumption DEF Inv, TypeOK, HeldOrReleased, Streams
    <2>2. PICK t \in Heads : s \in Chain(t)
      BY <2>1, HeadOf
    <2>3. PICK p \in Outermost : p \in holders[t]
      BY <2>2 DEF Heads
    <2>4. t \in Streams
      BY DEF Heads
    <2>5. ASSUME NEW u \in Streams, NEW q \in Outermost, q \in holders[u], s \in Chain(u)
          PROVE  u = t /\ q = p
      <3>1. u \in Heads
        BY <2>5 DEF Heads
      <3>2. u = t
        BY <2>2, <2>5, <3>1, ChainsDisjoint
      <3>3. QED
        BY <2>3, <2>4, <2>5, <3>2 DEF Inv, OneHolder
    <2>6. Owners(s) = {<<t, p>>}
      <3>1. <<t, p>> \in Owners(s)
        BY <2>2, <2>3, <2>4 DEF Owners
      <3>2. \A o \in Owners(s) : o = <<t, p>>
        BY <2>5 DEF Owners
      <3>3. QED
        BY <3>1, <3>2
    <2>7. QED
      BY <2>6, FS_Singleton
  <1>2. QED
    BY <1>1, SpecInv, PTL

(* A stream's batches are handed to at most one consumer (ffi.rs:60).      *)
THEOREM HandedToOneConsumer == Spec => []OneConsumer
  <1>1. Inv => OneConsumer
    BY DEF Inv
  <1>2. QED
    BY <1>1, SpecInv, PTL

=============================================================================
