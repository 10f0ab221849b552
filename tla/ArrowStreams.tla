---------------------------- MODULE ArrowStreams ----------------------------
(***************************************************************************)
(* Who owns an Arrow C stream as it crosses between the engine and Python  *)
(* (src/src/ffi.rs, src/src/lib.rs).  A stream is a C struct with a        *)
(* release callback; whatever has the struct when it is dropped calls it.  *)
(* An export object hands its struct to a capsule, an import moves it out  *)
(* of the capsule into a reader, and roundtrip wraps that reader in a new  *)
(* stream.  Python may keep the export and the capsule, share them between *)
(* threads, offer one capsule to several imports, and drop any of them     *)
(* whenever it likes.                                                      *)
(***************************************************************************)
EXTENDS Integers, FiniteSets

CONSTANTS
    Threads,   \* Python threads
    NoThread,
    MaxStreams \* bound: streams made

ASSUME ArrowAssumption == NoThread \notin Threads /\ MaxStreams \in Nat

Streams == 1..MaxStreams
None    == 0

VARIABLES
    made,      \* streams made so far: 1..made
    holders,   \* stream -> what has a struct of it
    wraps,     \* stream -> the streams it reads, through readers of its own
    home,      \* stream -> the thread its export object belongs to
    capsules,  \* the streams a capsule object was made for and still exists
    importing, \* thread -> the stream whose capsule its import has been given
    releases,  \* stream -> calls of its release callback
    consumers  \* history: stream -> consumers that were handed it

vars == <<made, holders, wraps, home, capsules, importing, releases, consumers>>

Outermost == {"export", "capsule", "consumer", "leak"}
Places    == Outermost \union {"wrapper"}

Chain(s) == {s} \union wraps[s]

---------------------------------------------------------------------------
(* The engine's side *)

(* FFI_ArrowArrayStream::new.                                              *)
Make(th, inside) ==
    /\ made < MaxStreams
    /\ made' = made + 1
    /\ wraps' = [wraps EXCEPT ![made + 1] = inside]
    /\ home' = [home EXCEPT ![made + 1] = th]

(* execute_ir, fetch_to_stream, fetch_parallel_to_stream.                  *)
NewExport(th) ==
    /\ Make(th, {})
    /\ holders' = [holders EXCEPT ![made + 1] = {"export"}]
    /\ UNCHANGED <<capsules, importing, releases, consumers>>

\* MUTANT of HandedOut: the export keeps its struct.
HandedOutCopy(s) == holders[s] \union {"capsule"}
HandedOut(s) == (holders[s] \ {"export"}) \union {"capsule"}

(* __arrow_c_stream__: the export's own thread takes the stream out, once; *)
(* on another thread, and the second time, it raises.                      *)
ArrowCStream(th, s) ==
    /\ "export" \in holders[s] /\ home[s] = th
    /\ holders' = [holders EXCEPT ![s] = HandedOut(s)]
    /\ capsules' = capsules \union {s}
    /\ UNCHANGED <<made, wraps, home, importing, releases, consumers>>

(* import_arrow_stream asks its source for a capsule: an export makes one  *)
(* (ArrowCStream), another object may give one it has given before.        *)
GetCapsule(th, s) ==
    /\ importing[th] = None /\ s \in capsules
    /\ importing' = [importing EXCEPT ![th] = s]
    /\ UNCHANGED <<made, holders, wraps, home, capsules, releases, consumers>>

(* ptr::replace leaves an empty struct in the capsule.                     *)
\* MUTANT of MovedOut: ptr::read, the capsule's struct stays as it was.
MovedOutCopy(s) == holders[s] \union {"wrapper"}
MovedOut(s) == (holders[s] \ {"capsule"}) \union {"wrapper"}

(* roundtrip: the reader of what was moved out, in a stream of its own.    *)
Roundtrip(th) ==
    LET s == importing[th]
    IN /\ s # None /\ "capsule" \in holders[s]
       /\ Make(th, Chain(s))
       /\ holders' = [holders EXCEPT ![s] = MovedOut(s), ![made + 1] = {"export"}]
       /\ importing' = [importing EXCEPT ![th] = None]
       /\ UNCHANGED <<capsules, releases, consumers>>

(* Dropping a struct releases its stream and all that it reads from.       *)
Released(s) == [x \in Streams |-> IF x \in Chain(s) THEN releases[x] + 1 ELSE releases[x]]
Without(s, place) ==
    [x \in Streams |-> IF x = s THEN holders[x] \ {place}
                       ELSE IF x \in wraps[s] THEN holders[x] \ {"wrapper"} ELSE holders[x]]

(* try_new refuses: the stream is dropped with its reader.                 *)
\* MUTANT of RefuseStream: what was moved out is forgotten.
RefuseStreamLeaks(th) ==
    LET s == importing[th]
    IN /\ s # None /\ "capsule" \in holders[s]
       /\ holders' = Without(s, "capsule")
       /\ importing' = [importing EXCEPT ![th] = None]
       /\ UNCHANGED <<made, wraps, home, capsules, releases, consumers>>
RefuseStream(th) ==
    LET s == importing[th]
    IN /\ s # None /\ "capsule" \in holders[s]
       /\ releases' = Released(s)
       /\ holders' = Without(s, "capsule")
       /\ importing' = [importing EXCEPT ![th] = None]
       /\ UNCHANGED <<made, wraps, home, capsules, consumers>>

(* The capsule was emptied since, or before: nothing to release.           *)
RefuseEmpty(th) ==
    /\ importing[th] # None /\ "capsule" \notin holders[importing[th]]
    /\ importing' = [importing EXCEPT ![th] = None]
    /\ UNCHANGED <<made, holders, wraps, home, capsules, releases, consumers>>

---------------------------------------------------------------------------
(* Python's side *)

(* Another producer offers a stream of its own.                            *)
ForeignStream ==
    /\ Make(NoThread, {})
    /\ holders' = [holders EXCEPT ![made + 1] = {"capsule"}]
    /\ capsules' = capsules \union {made + 1}
    /\ UNCHANGED <<importing, releases, consumers>>

(* RecordBatchReader.from_stream: moves the struct out, as an import does. *)
Consume(s) ==
    /\ s \in capsules /\ "capsule" \in holders[s]
    /\ holders' = [holders EXCEPT ![s] = (@ \ {"capsule"}) \union {"consumer"}]
    /\ consumers' = [x \in Streams |->
                        IF x \in Chain(s) THEN consumers[x] + 1 ELSE consumers[x]]
    /\ UNCHANGED <<made, wraps, home, capsules, importing, releases>>

DropConsumer(s) ==
    /\ "consumer" \in holders[s]
    /\ releases' = Released(s) /\ holders' = Without(s, "consumer")
    /\ UNCHANGED <<made, wraps, home, capsules, importing, consumers>>

(* The destructor of a capsule that nobody refers to any more drops its    *)
(* struct; an empty one has no callback to call.                           *)
\* MUTANT of DropCapsule: an import does not keep its capsule alive.
DropCapsuleInUse(s) ==
    /\ s \in capsules
    /\ capsules' = capsules \ {s}
    /\ IF "capsule" \in holders[s]
       THEN releases' = Released(s) /\ holders' = Without(s, "capsule")
       ELSE UNCHANGED <<releases, holders>>
    /\ UNCHANGED <<made, wraps, home, importing, consumers>>
DropCapsule(s) ==
    /\ s \in capsules /\ \A th \in Threads : importing[th] # s
    /\ capsules' = capsules \ {s}
    /\ IF "capsule" \in holders[s]
       THEN releases' = Released(s) /\ holders' = Without(s, "capsule")
       ELSE UNCHANGED <<releases, holders>>
    /\ UNCHANGED <<made, wraps, home, importing, consumers>>

(* An export that was never asked: unsendable, so dropped by another       *)
(* thread it is not destroyed but leaked.                                  *)
DropExport(th, s) ==
    /\ "export" \in holders[s]
    /\ IF th = home[s]
       THEN releases' = Released(s) /\ holders' = Without(s, "export")
       ELSE /\ holders' = [holders EXCEPT ![s] = (@ \ {"export"}) \union {"leak"}]
            /\ UNCHANGED releases
    /\ UNCHANGED <<made, wraps, home, capsules, importing, consumers>>

---------------------------------------------------------------------------

Init ==
    /\ made = 0 /\ capsules = {}
    /\ holders = [s \in Streams |-> {}] /\ wraps = [s \in Streams |-> {}]
    /\ home = [s \in Streams |-> NoThread]
    /\ importing = [th \in Threads |-> None]
    /\ releases = [s \in Streams |-> 0] /\ consumers = [s \in Streams |-> 0]

Next ==
    \/ ForeignStream
    \/ \E th \in Threads : NewExport(th) \/ Roundtrip(th) \/ RefuseStream(th) \/ RefuseEmpty(th)
    \/ \E th \in Threads, s \in Streams :
          ArrowCStream(th, s) \/ GetCapsule(th, s) \/ DropExport(th, s)
    \/ \E s \in Streams : Consume(s) \/ DropConsumer(s) \/ DropCapsule(s)

Spec == Init /\ [][Next]_vars

---------------------------------------------------------------------------
(* Properties *)

(* The state is well typed; a stream reads only from earlier ones.         *)
TypeOK ==
    /\ made \in 0..MaxStreams
    /\ holders \in [Streams -> SUBSET Places]
    /\ wraps \in [Streams -> SUBSET Streams]
    /\ \A s \in Streams : \A x \in wraps[s] : x < s /\ wraps[x] \subseteq wraps[s]
    /\ home \in [Streams -> Threads \union {NoThread}]
    /\ capsules \subseteq 1..made
    /\ importing \in [Threads -> capsules \union {None}]
    /\ releases \in [Streams -> Nat] /\ consumers \in [Streams -> Nat]

(* "the capsule's own destructor becomes a no-op and the stream is         *)
(* released exactly once" (ffi.rs:33): through every chain of exports,     *)
(* imports and wrappers, in whatever order Python drops them, no release   *)
(* callback is called twice, and nothing has the struct of a stream that   *)
(* was released, or of one that reads from it.                             *)
ReleasedOnce ==
    \A s \in Streams :
        /\ releases[s] <= 1
        /\ holders[s] # {} => \A x \in Chain(s) : releases[x] = 0

(* What holds s, by itself or around it.                                   *)
Owners(s) == {o \in Streams \X Outermost : o[2] \in holders[o[1]] /\ s \in Chain(o[1])}

(* A stream that is not released has one owner that will release it: no    *)
(* failed or refused import, shared capsule or dropped object loses one,   *)
(* except the export that pyo3 leaks.                                      *)
NoStreamIsLost ==
    \A s \in 1..made : releases[s] = 0 => Cardinality(Owners(s)) = 1

(* "a second export attempt raises rather than handing out a spent stream" *)
(* (ffi.rs:60): a stream's batches are handed to one consumer, whatever    *)
(* roundtrips they take and however often its capsule is offered.          *)
OneConsumer == \A s \in Streams : consumers[s] <= 1

=============================================================================
