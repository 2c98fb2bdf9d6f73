----------------------- MODULE SearchProjectionProofs -----------------------
(***************************************************************************)
(* Proofs about SearchProjection for any objects, writers, drainers, batch *)
(* size and bounds.                                                        *)
(*                                                                         *)
(* EntriesLocked: an entry a drainer works on is pending, and its alone.   *)
(* WritesApart: a transaction on K000 has its row alone, and has added an  *)
(* entry only if none is pending.  SnapshotsSound: the version a drainer   *)
(* is about to show is not older than the one the index shows, and it is   *)
(* the current one unless the change that came after is accounted for.     *)
(***************************************************************************)
EXTENDS SearchProjection, TLAPS

\* The parts of the type invariant, by the values of the variables.
Drain == [open : BOOLEAN, todo : SUBSET Objects, cur : Objects \cup {None},
          ver : Nat, applied : SUBSET Objects, shows : [Objects -> Nat],
          retry : SUBSET Objects]

\* A transaction on K000 is alone on its object.
WritesApart ==
  \A w \in Writers :
    /\ writer[w].pc # "idle" => writer[w].obj \in Objects
    /\ writer[w].pc = "open" =>
         /\ writer[w].obj \notin Remote
         /\ \A v \in Writers \ {w} : writer[v].obj # writer[w].obj
    /\ writer[w].pc \in {"enqueue", "project"} => writer[w].obj \in Remote
    /\ writer[w].adds => /\ writer[w].pc = "open"
                         /\ ~ pending[writer[w].obj]

\* A drainer's transaction has locked the entry.
Holds(d, o) ==
  o = drain[d].cur \/ o \in drain[d].todo \cup drain[d].applied \cup drain[d].retry

EntriesLocked ==
  \A d \in Drainers, o \in Objects : Holds(d, o) =>
    /\ pending[o]
    /\ \A e \in Drainers \ {d} : ~ Holds(e, o)

TypeInv == TypeOK /\ WritesApart

-----------------------------------------------------------------------------
(* Types                                                                   *)

LEMMA WriterTypes ==
  ASSUME TypeInv, NEW w \in Writers, WriterStep(w)
  PROVE  TypeInv'
<1> USE SearchProjectionAssumption
<1>1. ASSUME NEW o \in Objects, Write(w, o) PROVE TypeInv'
  <2>1. TypeOK' BY <1>1 DEF Write, TypeInv, TypeOK
  <2>2. WritesApart' BY <1>1 DEF Write, TypeInv, TypeOK, WritesApart
  <2> QED BY <2>1, <2>2 DEF TypeInv
<1>2. ASSUME NEW o \in Objects, RemoteWrite(w, o) PROVE TypeInv'
  <2>1. TypeOK' BY <1>2 DEF RemoteWrite, TypeInv, TypeOK
  <2>2. WritesApart' BY <1>2 DEF RemoteWrite, TypeInv, TypeOK, WritesApart
  <2> QED BY <2>1, <2>2 DEF TypeInv
<1>3. CASE Commit(w)
  <2>1. writer[w].obj \in Objects BY <1>3 DEF Commit, TypeInv, WritesApart
  <2>2. TypeOK' BY <1>3, <2>1 DEF Commit, NoWrite, Excuse, TypeInv, TypeOK
  <2>3. WritesApart'
    BY <1>3, <2>1 DEF Commit, NoWrite, TypeInv, TypeOK, WritesApart
  <2> QED BY <2>2, <2>3 DEF TypeInv
<1>4. CASE Abort(w)
  <2>1. TypeOK' BY <1>4 DEF Abort, NoWrite, TypeInv, TypeOK
  <2>2. WritesApart' BY <1>4 DEF Abort, NoWrite, TypeInv, TypeOK, WritesApart
  <2> QED BY <2>1, <2>2 DEF TypeInv
<1>5. CASE RemoteEnqueue(w)
  <2>1. writer[w].obj \in Objects
    BY <1>5 DEF RemoteEnqueue, TypeInv, WritesApart
  <2>2. TypeOK'
    BY <1>5, <2>1 DEF RemoteEnqueue, Queue, Excuse, TypeInv, TypeOK
  <2>3. WritesApart'
    BY <1>5, <2>1
    DEF RemoteEnqueue, Queue, Changing, TypeInv, TypeOK, WritesApart
  <2> QED BY <2>2, <2>3 DEF TypeInv
<1>6. CASE RemoteEnqueueFails(w)
  <2>1. writer[w].obj \in Objects
    BY <1>6 DEF RemoteEnqueueFails, TypeInv, WritesApart
  <2>2. TypeOK' BY <1>6, <2>1 DEF RemoteEnqueueFails, Excuse, TypeInv, TypeOK
  <2>3. WritesApart'
    BY <1>6, <2>1 DEF RemoteEnqueueFails, TypeInv, TypeOK, WritesApart
  <2> QED BY <2>2, <2>3 DEF TypeInv
<1>7. CASE RemoteProject(w)
  <2>1. writer[w].obj \in Objects
    BY <1>7 DEF RemoteProject, TypeInv, WritesApart
  <2>2. TypeOK' BY <1>7, <2>1 DEF RemoteProject, NoWrite, TypeInv, TypeOK
  <2>3. WritesApart'
    BY <1>7 DEF RemoteProject, NoWrite, TypeInv, TypeOK, WritesApart
  <2> QED BY <2>2, <2>3 DEF TypeInv
<1>8. CASE RemoteGivesUp(w)
  <2>1. writer[w].obj \in Objects
    BY <1>8 DEF RemoteGivesUp, TypeInv, WritesApart
  <2>2. TypeOK'
    BY <1>8, <2>1 DEF RemoteGivesUp, NoWrite, Excuse, TypeInv, TypeOK
  <2>3. WritesApart'
    BY <1>8 DEF RemoteGivesUp, NoWrite, TypeInv, TypeOK, WritesApart
  <2> QED BY <2>2, <2>3 DEF TypeInv
<1> QED BY <1>1, <1>2, <1>3, <1>4, <1>5, <1>6, <1>7, <1>8 DEF WriterStep

LEMMA DrainRows ==
  ASSUME NEW r \in Drain, NEW o \in Objects, NEW shows \in [Objects -> Nat]
  PROVE  /\ [r EXCEPT !.cur = None, !.applied = r.applied \cup {o},
                      !.shows = shows] \in Drain
         /\ [r EXCEPT !.cur = None, !.retry = r.retry \cup {o}] \in Drain
<1> r.applied \cup {o} \in SUBSET Objects /\ r.retry \cup {o} \in SUBSET Objects
  BY DEF Drain
<1> QED BY DEF Drain

LEMMA DrainTyped == ASSUME TypeInv PROVE drain \in [Drainers -> Drain]
BY DEF TypeInv, TypeOK, Drain

\* What a drainer may change, typed.
LEMMA TypeParts ==
  ASSUME TypeInv, drain' \in [Drainers -> Drain], index' \in [Objects -> Nat],
         pending' \in [Objects -> BOOLEAN], attempts' \in [Objects -> Nat],
         failed' \in [Objects -> Nat], crashes' \in Nat,
         excused' \subseteq Objects, UNCHANGED <<canon, writer, rebuild, repairs>>
  PROVE  TypeOK'
BY DEF TypeInv, TypeOK, Drain

\* A drainer's step leaves writers alone, so that only pending matters to
\* WritesApart, and pending entries only disappear.
LEMMA DrainerTypes ==
  ASSUME TypeInv, NEW d \in Drainers, DrainerStep(d)
  PROVE  TypeInv'
<1> USE SearchProjectionAssumption
<1>1. ASSUME NEW S \in SUBSET Objects, Take(d, S) PROVE TypeOK' /\ UNCHANGED pending
  BY <1>1 DEF Take, NoBatch, TypeInv, TypeOK
<1>2. ASSUME NEW o \in Objects, Read(d, o) PROVE TypeOK' /\ UNCHANGED pending
  BY <1>2 DEF Read, TypeInv, TypeOK
<1>3. ASSUME Apply(d) PROVE TypeOK' /\ UNCHANGED pending
  <2> DEFINE o == drain[d].cur
             shows == [drain[d].shows EXCEPT ![o] = drain[d].ver]
  <2>1. o \in Objects /\ drain[d].ver \in Nat
    BY <1>3, DrainTyped DEF Apply, Drain
  <2>2. index' \in [Objects -> Nat]
    BY <1>3, <2>1 DEF Apply, ShowNow, TypeInv, TypeOK
  <2>3. shows \in [Objects -> Nat] BY <2>1, DrainTyped DEF Drain
  <2>4. drain' = [drain EXCEPT ![d] =
          [drain[d] EXCEPT !.cur = None, !.applied = drain[d].applied \cup {o},
                           !.shows = shows]]
    BY <1>3 DEF Apply
  <2> HIDE DEF shows, o
  <2>5. drain' \in [Drainers -> Drain]
    BY <2>1, <2>3, <2>4, DrainTyped, DrainRows
  <2>6. UNCHANGED <<canon, pending, attempts, failed, writer, rebuild, crashes,
                    repairs, excused>>
    BY <1>3 DEF Apply
  <2> QED BY <2>2, <2>5, <2>6, TypeParts DEF TypeInv, TypeOK
<1>4. ASSUME NEW shown \in BOOLEAN, Refuse(d, shown)
      PROVE  TypeOK' /\ UNCHANGED pending
  <2>1. drain[d].cur \in Objects /\ drain[d].ver \in Nat
    BY <1>4, DrainTyped DEF Refuse, Drain
  <2>2. ShowNow(d) \in [Objects -> Nat] BY <2>1 DEF ShowNow, TypeInv, TypeOK
  <2>3. index' \in [Objects -> Nat]
    BY <1>4, <2>2 DEF Refuse, TypeInv, TypeOK
  <2>4. drain' \in [Drainers -> Drain]
    <3>1. drain[d] \in Drain /\ drain[d].shows \in [Objects -> Nat]
      BY DrainTyped DEF Drain
    <3>2. [drain[d] EXCEPT !.cur = None,
                           !.retry = drain[d].retry \cup {drain[d].cur}]
            \in Drain
      BY <2>1, <3>1, DrainRows
    <3> QED BY <1>4, <3>2, DrainTyped DEF Refuse
  <2>5. UNCHANGED <<canon, pending, attempts, failed, writer, rebuild, crashes,
                    repairs, excused>>
    BY <1>4 DEF Refuse
  <2> QED BY <2>3, <2>4, <2>5, TypeParts DEF TypeInv, TypeOK
<1>5. ASSUME CommitBatch(d)
      PROVE  TypeOK' /\ \A o \in Objects : pending'[o] => pending[o]
  <2> DEFINE final == {o \in drain[d].retry : attempts[o] + 1 >= MaxAttempts}
  <2>1. pending' = [o \in Objects |->
                      pending[o] /\ o \notin drain[d].applied \cup final]
    BY <1>5 DEF CommitBatch
  <2>2. failed' = [o \in Objects |->
                     IF o \in final THEN failed[o] + 1 ELSE failed[o]]
    BY <1>5 DEF CommitBatch
  <2>3. \A o \in Objects : /\ index[o] \in Nat /\ drain[d].shows[o] \in Nat
                           /\ attempts[o] \in Nat /\ failed[o] \in Nat
    BY DrainTyped DEF Drain, TypeInv, TypeOK
  <2>4. index' \in [Objects -> Nat] /\ attempts' \in [Objects -> Nat]
    BY <1>5, <2>3 DEF CommitBatch
  <2>5. failed' \in [Objects -> Nat] BY <2>2, <2>3
  <2>6. pending' \in [Objects -> BOOLEAN]
    BY <2>1, Zenon
  <2>7. NoBatch \in Drain
    BY DEF NoBatch, Drain
  <2>8. drain' \in [Drainers -> Drain]
    BY <1>5, <2>7, DrainTyped DEF CommitBatch
  <2>9. \A o \in Objects : pending'[o] => pending[o] BY <2>1
  <2>10. UNCHANGED <<canon, writer, rebuild, crashes, repairs, excused>>
    BY <1>5 DEF CommitBatch
  <2>11. TypeOK'
    BY <2>4, <2>5, <2>6, <2>8, <2>10, TypeParts DEF TypeInv, TypeOK
  <2> QED BY <2>9, <2>11
<1>6. ASSUME DrainerDies(d) PROVE TypeOK' /\ UNCHANGED pending
  <2>1. NoBatch \in Drain BY DEF NoBatch, Drain
  <2>2. drain' \in [Drainers -> Drain]
    BY <1>6, <2>1, DrainTyped DEF DrainerDies
  <2>3. /\ UNCHANGED <<canon, index, pending, attempts, failed, writer,
                       rebuild, repairs, excused>>
        /\ crashes' \in Nat
    BY <1>6 DEF DrainerDies, TypeInv, TypeOK
  <2> QED BY <2>2, <2>3, TypeParts DEF TypeInv, TypeOK
<1>7. TypeOK' /\ \A o \in Objects : pending'[o] => pending[o]
  BY <1>1, <1>2, <1>3, <1>4, <1>5, <1>6 DEF DrainerStep
<1>8. UNCHANGED writer
  BY DEF DrainerStep, Take, Read, Apply, Refuse, CommitBatch, DrainerDies
<1>9. WritesApart' BY <1>7, <1>8 DEF TypeInv, WritesApart
<1> QED BY <1>7, <1>9 DEF TypeInv

\* Operators leave writers alone, too, and an entry they add is not one that a
\* transaction has added.
LEMMA OperatorTypes ==
  ASSUME TypeInv, RetryFailed \/ ReindexList \/ ReindexQueue \/ ReindexOrphans
  PROVE  TypeInv'
<1> DEFINE S == {o \in Objects : failed[o] > 0 /\ ~ pending[o]}
<1>1. CASE RetryFailed
  <2>1. pending' = [o \in Objects |-> pending[o] \/ o \in S]
    BY <1>1 DEF RetryFailed
  <2>2. failed' = [o \in Objects |-> IF o \in S THEN 0 ELSE failed[o]]
    BY <1>1 DEF RetryFailed
  <2>3. attempts' = [o \in Objects |-> IF o \in S THEN 0 ELSE attempts[o]]
    BY <1>1 DEF RetryFailed
  <2>4. \A o \in S : ~ Changing(o) BY <1>1 DEF RetryFailed
  <2> HIDE DEF S
  <2>5. TypeOK' BY <1>1, <2>1, <2>2, <2>3 DEF RetryFailed, TypeInv, TypeOK
  <2>6. WritesApart'
    BY <1>1, <2>1, <2>4 DEF RetryFailed, Changing, TypeInv, WritesApart
  <2> QED BY <2>5, <2>6 DEF TypeInv
<1>2. CASE ReindexList
  BY <1>2 DEF ReindexList, TypeInv, TypeOK, WritesApart
<1>3. CASE ReindexQueue
  <2>1. TypeOK' BY <1>3 DEF ReindexQueue, Queue, TypeInv, TypeOK
  <2>2. WritesApart'
    BY <1>3 DEF ReindexQueue, Queue, Changing, TypeInv, WritesApart
  <2> QED BY <2>1, <2>2 DEF TypeInv
<1>4. CASE ReindexOrphans
  BY <1>4 DEF ReindexOrphans, TypeInv, TypeOK, WritesApart
<1> QED BY <1>1, <1>2, <1>3, <1>4

LEMMA TypesKept == ASSUME TypeInv, [Next]_vars PROVE TypeInv'
<1>1. CASE UNCHANGED vars BY <1>1 DEF vars, TypeInv, TypeOK, WritesApart
<1>2. CASE Next BY <1>2, WriterTypes, DrainerTypes, OperatorTypes DEF Next
<1> QED BY <1>1, <1>2

LEMMA TypesAlways == Spec => []TypeInv
<1>1. Init => TypeInv
  <2> SUFFICES ASSUME Init PROVE TypeInv OBVIOUS
  <2>1. TypeOK BY DEF Init, TypeOK, NoWrite, NoBatch
  <2>2. WritesApart BY DEF Init, WritesApart, NoWrite
  <2> QED BY <2>1, <2>2 DEF TypeInv
<1>2. TypeInv /\ [Next]_vars => TypeInv' BY TypesKept
<1> QED BY <1>1, <1>2, PTL DEF Spec

\* Versions, entries and transactions keep their types.
THEOREM TypeCorrect == Spec => []TypeOK
<1>1. TypeInv => TypeOK BY DEF TypeInv
<1> QED BY <1>1, TypesAlways, PTL

-----------------------------------------------------------------------------
(* Entries                                                                 *)

\* Whoever takes no part leaves drainers alone and takes no entry away.
LEMMA OthersKeepEntries ==
  ASSUME TypeInv,
         \/ \E w \in Writers : WriterStep(w)
         \/ RetryFailed \/ ReindexList \/ ReindexQueue \/ ReindexOrphans
         \/ UNCHANGED vars
  PROVE  UNCHANGED drain /\ \A o \in Objects : pending[o] => pending'[o]
<1>1. ASSUME NEW w \in Writers, WriterStep(w)
      PROVE  UNCHANGED drain /\ \A o \in Objects : pending[o] => pending'[o]
  <2>1. UNCHANGED drain
    BY <1>1 DEF WriterStep, Write, RemoteWrite, Commit, Abort, RemoteEnqueue,
                RemoteEnqueueFails, RemoteProject, RemoteGivesUp
  <2>2. CASE Commit(w)
    BY <2>2, <2>1 DEF Commit, TypeInv, TypeOK
  <2>3. CASE RemoteEnqueue(w)
    BY <2>3, <2>1 DEF RemoteEnqueue, Queue
  <2>4. CASE ~ Commit(w) /\ ~ RemoteEnqueue(w)
    BY <1>1, <2>1, <2>4 DEF WriterStep, Write, RemoteWrite, Abort,
       RemoteEnqueueFails, RemoteProject, RemoteGivesUp
  <2> QED BY <2>2, <2>3, <2>4
<1>2. CASE RetryFailed BY <1>2 DEF RetryFailed
<1>3. CASE ReindexList BY <1>3 DEF ReindexList
<1>4. CASE ReindexQueue BY <1>4 DEF ReindexQueue, Queue
<1>5. CASE ReindexOrphans BY <1>5 DEF ReindexOrphans
<1>6. CASE UNCHANGED vars BY <1>6 DEF vars
<1> QED BY <1>1, <1>2, <1>3, <1>4, <1>5, <1>6

\* A drainer that does not take a batch holds no entry it did not hold, and
\* only takes away entries it holds, and gives them up with it.
LEMMA DrainerKeepsEntries ==
  ASSUME TypeInv, NEW d \in Drainers, DrainerStep(d),
         ~ \E S \in SUBSET Objects : Take(d, S), NEW o \in Objects
  PROVE  /\ \A e \in Drainers \ {d} : drain'[e] = drain[e]
         /\ Holds(d, o)' => Holds(d, o) /\ (pending[o] => pending'[o])
         /\ ~ Holds(d, o) => (pending[o] => pending'[o])
<1> DEFINE Goal == /\ \A e \in Drainers \ {d} : drain'[e] = drain[e]
                   /\ Holds(d, o)' => Holds(d, o) /\ (pending[o] => pending'[o])
                   /\ ~ Holds(d, o) => (pending[o] => pending'[o])
<1> drain \in [Drainers -> Drain] /\ d \in Drainers BY DrainTyped
<1> o # None BY SearchProjectionAssumption
<1>1. ASSUME NEW p \in Objects, Read(d, p) PROVE Goal
  BY <1>1 DEF Read, Holds, Drain
<1>2. ASSUME Apply(d) PROVE Goal BY <1>2 DEF Apply, Holds, Drain
<1>3. ASSUME NEW shown \in BOOLEAN, Refuse(d, shown) PROVE Goal
  BY <1>3 DEF Refuse, Holds, Drain
<1>4. ASSUME CommitBatch(d) PROVE Goal
  <2> DEFINE final == {p \in drain[d].retry : attempts[p] + 1 >= MaxAttempts}
  <2>1. pending' = [p \in Objects |->
                      pending[p] /\ p \notin drain[d].applied \cup final]
    BY <1>4 DEF CommitBatch
  <2>2. drain' = [drain EXCEPT ![d] = NoBatch] BY <1>4 DEF CommitBatch
  <2>3. ~ Holds(d, o)' BY <2>2 DEF Holds, NoBatch
  <2>4. ~ Holds(d, o) => (pending[o] => pending'[o]) BY <2>1 DEF Holds
  <2> QED BY <2>2, <2>3, <2>4
<1>5. ASSUME DrainerDies(d) PROVE Goal
  BY <1>5 DEF DrainerDies, Holds, NoBatch
<1> QED BY <1>1, <1>2, <1>3, <1>4, <1>5 DEF DrainerStep

LEMMA EntriesKept ==
  ASSUME TypeInv, EntriesLocked, [Next]_vars
  PROVE  EntriesLocked'
<1>1. CASE UNCHANGED drain /\ \A o \in Objects : pending[o] => pending'[o]
  BY <1>1 DEF EntriesLocked, Holds
<1>2. ASSUME NEW d \in Drainers, NEW S \in SUBSET Objects, Take(d, S)
      PROVE  EntriesLocked'
  <2> drain \in [Drainers -> Drain] BY DrainTyped
  <2>1. UNCHANGED pending BY <1>2 DEF Take
  <2>2. \A e \in Drainers \ {d} : drain'[e] = drain[e] BY <1>2 DEF Take
  <2>3. \A o \in Objects : Holds(d, o)' => o \in S
    BY <1>2, SearchProjectionAssumption DEF Take, Holds, NoBatch
  <2>4. \A o \in S : pending[o] /\ \A e \in Drainers : ~ Holds(e, o)
    BY <1>2 DEF Take, Unlocked, Holds
  <2>5. \A e \in Drainers \ {d}, o \in Objects : Holds(e, o)' <=> Holds(e, o)
    BY <2>2 DEF Holds
  <2> QED BY <2>1, <2>3, <2>4, <2>5 DEF EntriesLocked
<1>3. ASSUME NEW d \in Drainers, DrainerStep(d),
             ~ \E S \in SUBSET Objects : Take(d, S)
      PROVE  EntriesLocked'
  <2>1. \A e \in Drainers \ {d}, o \in Objects : Holds(e, o)' <=> Holds(e, o)
    BY <1>3, DrainerKeepsEntries DEF Holds
  <2>2. \A o \in Objects :
          /\ Holds(d, o)' => Holds(d, o) /\ (pending[o] => pending'[o])
          /\ ~ Holds(d, o) => (pending[o] => pending'[o])
    BY <1>3, DrainerKeepsEntries
  <2> QED BY <2>1, <2>2 DEF EntriesLocked
<1> QED BY <1>1, <1>2, <1>3, OthersKeepEntries DEF Next

-----------------------------------------------------------------------------
(* Snapshots                                                               *)

\* A remote writer has still to queue an entry for the object.
Due(o) == \E w \in Writers : writer[w].obj = o /\ writer[w].pc = "enqueue"

\* Version v of the object is the current one, or someone will see to it.
Accounted(o, v) == v = canon[o] \/ o \in excused \/ Due(o)

\* What the drainer has read, or is going to show, of the object.
ReadSound(d, o) ==
  drain[d].cur = o =>
    /\ o \notin drain[d].applied
    /\ index[o] <= drain[d].ver /\ drain[d].ver <= canon[o]
    /\ Accounted(o, drain[d].ver)

AppliedSound(d, o) ==
  o \in drain[d].applied =>
    /\ index[o] <= drain[d].shows[o] /\ drain[d].shows[o] <= canon[o]
    /\ Accounted(o, drain[d].shows[o])
    /\ o \in OnSearch => index[o] = drain[d].shows[o] \/ o \in excused

SnapshotsSound ==
  /\ \A o \in Objects : index[o] <= canon[o]
  /\ \A d \in Drainers, o \in Objects : ReadSound(d, o) /\ AppliedSound(d, o)

Inv == TypeInv /\ EntriesLocked /\ SnapshotsSound

\* Numbers, for the arithmetic.
LEMMA Numbers ==
  ASSUME TypeInv, NEW o \in Objects
  PROVE  /\ index[o] \in Nat /\ canon[o] \in Nat
         /\ \A d \in Drainers : drain[d].ver \in Nat /\ drain[d].shows[o] \in Nat
         /\ o # None
BY SearchProjectionAssumption DEF TypeInv, TypeOK

\* When o is excused for want of cover of its current version, every version
\* a drainer knows is accounted for afterwards.
LEMMA ExcuseAccounts ==
  ASSUME Inv, NEW o \in Objects, NEW d \in Drainers
  PROVE  /\ drain[d].cur = o =>
              drain[d].ver = canon[o] \/ o \in Excuse(o, canon[o])
         /\ o \in drain[d].applied =>
              drain[d].shows[o] = canon[o] \/ o \in Excuse(o, canon[o])
BY Numbers
DEF Inv, SnapshotsSound, ReadSound, AppliedSound, Excuse, Uncovered

\* A new version that adds no entry leaves every drainer that knows an older
\* one behind.
LEMMA NewVersionExcused ==
  ASSUME Inv, NEW o \in Objects, NEW d \in Drainers,
         drain[d].cur = o \/ o \in drain[d].applied
  PROVE  o \in Excuse(o, canon[o] + 1)
BY Numbers
DEF Inv, SnapshotsSound, ReadSound, AppliedSound, Excuse, Uncovered

LEMMA ExcuseAdds ==
  ASSUME NEW o, NEW v PROVE excused \subseteq Excuse(o, v)
BY DEF Excuse

LEMMA WriterSnapshots ==
  ASSUME Inv, NEW w \in Writers, WriterStep(w)
  PROVE  SnapshotsSound'
<1> USE DEF Inv
<1> TypeInv' BY WriterTypes
<1>0. UNCHANGED drain BY OthersKeepEntries
<1>t. writer \in [Writers -> [pc : {"idle", "open", "enqueue", "project"},
                              obj : Objects \cup {None}, adds : BOOLEAN]]
  BY DEF TypeInv, TypeOK
<1> SUFFICES ASSUME NEW o \in Objects
             PROVE  /\ index'[o] <= canon'[o]
                    /\ \A d \in Drainers : ReadSound(d, o)' /\ AppliedSound(d, o)'
  BY DEF SnapshotsSound
<1> DEFINE Goal == /\ index'[o] <= canon'[o]
                   /\ \A d \in Drainers : ReadSound(d, o)' /\ AppliedSound(d, o)'
<1>n. index[o] <= canon[o] /\ index[o] \in Nat /\ canon[o] \in Nat
  BY Numbers DEF SnapshotsSound
<1>s. \A d \in Drainers : ReadSound(d, o) /\ AppliedSound(d, o)
  BY DEF SnapshotsSound
<1>1. ASSUME canon'[o] = canon[o], index'[o] = index[o],
             excused \subseteq excused', Due(o) => Due(o)'
      PROVE  Goal
  BY <1>0, <1>1, <1>n, <1>s DEF ReadSound, AppliedSound, Accounted
<1>2. CASE \E p \in Objects : Write(w, p)
  <2>1. Due(o) => Due(o)' BY <1>2, <1>t DEF Write, Due
  <2> QED BY <1>1, <1>2, <2>1 DEF Write
<1>3. CASE Abort(w)
  <2>1. Due(o) => Due(o)' BY <1>3, <1>t DEF Abort, Due
  <2> QED BY <1>1, <1>3, <2>1 DEF Abort
<1>4. CASE Commit(w)
  <2>1. Due(o) => Due(o)' BY <1>4, <1>t DEF Commit, Due
  <2>2. excused \subseteq excused' BY <1>4, ExcuseAdds DEF Commit
  <2>3. UNCHANGED index BY <1>4 DEF Commit
  <2>4. CASE writer[w].obj # o
    <3>1. canon'[o] = canon[o] BY <1>4, <2>4 DEF Commit, TypeInv, TypeOK
    <3> QED BY <1>1, <2>1, <2>2, <2>3, <3>1
  <2>5. CASE writer[w].obj = o
    <3>1. canon'[o] = canon[o] + 1
      BY <1>4, <2>5 DEF Commit, TypeInv, TypeOK
    <3>2. ASSUME NEW d \in Drainers, drain[d].cur = o \/ o \in drain[d].applied
          PROVE  o \in excused'
      <4>1. pending[o] BY <3>2 DEF EntriesLocked, Holds
      <4>2. ~ writer[w].adds BY <2>5, <4>1 DEF TypeInv, WritesApart
      <4>3. excused' = Excuse(o, canon[o] + 1) BY <1>4, <2>5, <4>2 DEF Commit
      <4> QED BY <3>2, <4>3, NewVersionExcused
    <3> QED BY <1>0, <1>n, <1>s, <2>3, <3>1, <3>2, Numbers
            DEF ReadSound, AppliedSound, Accounted
  <2> QED BY <2>4, <2>5
<1>5. ASSUME NEW p \in Objects, RemoteWrite(w, p) PROVE Goal
  <2>1. Due(o) => Due(o)' BY <1>5, <1>t DEF RemoteWrite, Due
  <2>2. UNCHANGED <<index, excused>> BY <1>5 DEF RemoteWrite
  <2>3. CASE p # o
    <3>1. canon'[o] = canon[o] BY <1>5, <2>3 DEF RemoteWrite, TypeInv, TypeOK
    <3> QED BY <1>1, <2>1, <2>2, <3>1
  <2>4. CASE p = o
    <3>1. canon'[o] = canon[o] + 1
      BY <1>5, <2>4 DEF RemoteWrite, TypeInv, TypeOK
    <3>2. Due(o)' BY <1>5, <2>4, <1>t DEF RemoteWrite, Due
    <3> QED BY <1>0, <1>n, <1>s, <2>2, <3>1, <3>2, Numbers
            DEF ReadSound, AppliedSound, Accounted
  <2> QED BY <2>3, <2>4
<1>6. CASE RemoteProject(w)
  <2>1. Due(o) => Due(o)' BY <1>6, <1>t DEF RemoteProject, Due
  <2>2. UNCHANGED <<canon, excused>> BY <1>6 DEF RemoteProject
  <2>3. CASE writer[w].obj # o
    <3>1. index'[o] = index[o]
      BY <1>6, <2>3 DEF RemoteProject, TypeInv, TypeOK
    <3> QED BY <1>1, <2>1, <2>2, <3>1
  <2>4. CASE writer[w].obj = o
    <3>1. index'[o] = canon[o]
      BY <1>6, <2>4 DEF RemoteProject, TypeInv, TypeOK
    <3>2. \A d \in Drainers : drain[d].cur # o /\ o \notin drain[d].applied
      BY <1>6, <2>4 DEF RemoteProject, Locked
    <3> QED BY <1>0, <1>n, <2>2, <3>1, <3>2 DEF ReadSound, AppliedSound
  <2> QED BY <2>3, <2>4
<1>7. CASE RemoteEnqueue(w) \/ RemoteEnqueueFails(w) \/ RemoteGivesUp(w)
  <2>1. UNCHANGED <<canon, index>>
    BY <1>7 DEF RemoteEnqueue, RemoteEnqueueFails, RemoteGivesUp
  <2>2. excused \subseteq excused'
    BY <1>7, ExcuseAdds DEF RemoteEnqueue, RemoteEnqueueFails, RemoteGivesUp
  <2>3. CASE writer[w].obj # o \/ writer[w].pc = "project"
    <3>1. Due(o) => Due(o)'
      BY <1>7, <2>3, <1>t
      DEF RemoteEnqueue, RemoteEnqueueFails, RemoteGivesUp, Due
    <3> QED BY <1>1, <2>1, <2>2, <3>1
  <2>4. CASE writer[w].obj = o /\ writer[w].pc # "project"
    <3>1. \/ excused' = Excuse(o, canon[o])
          \/ ~ pending[o]
      BY <1>7, <2>4 DEF RemoteEnqueue, RemoteEnqueueFails, RemoteGivesUp
    <3>2. ASSUME NEW d \in Drainers
          PROVE  /\ drain[d].cur = o =>
                      drain[d].ver = canon[o] \/ o \in excused'
                 /\ o \in drain[d].applied =>
                      drain[d].shows[o] = canon[o] \/ o \in excused'
      <4>1. CASE excused' = Excuse(o, canon[o]) BY <4>1, ExcuseAccounts
      <4>2. CASE ~ pending[o] BY <4>2 DEF EntriesLocked, Holds
      <4> QED BY <3>1, <4>1, <4>2
    <3> QED BY <1>0, <1>n, <1>s, <2>1, <2>2, <3>2
            DEF ReadSound, AppliedSound, Accounted
  <2> QED BY <2>3, <2>4
<1> QED BY <1>2, <1>3, <1>4, <1>5, <1>6, <1>7 DEF WriterStep

\* What a drainer does to an object it has locked for projection concerns no
\* other drainer.
LEMMA OthersUntouched ==
  ASSUME Inv, NEW d \in Drainers, NEW e \in Drainers \ {d}, NEW o \in Objects,
         Holds(d, o)
  PROVE  drain[e].cur # o /\ o \notin drain[e].applied
BY DEF Inv, EntriesLocked, Holds

LEMMA DrainerSnapshots ==
  ASSUME Inv, NEW d \in Drainers, DrainerStep(d)
  PROVE  SnapshotsSound'
<1> USE DEF Inv
<1> drain \in [Drainers -> Drain] BY DrainTyped
<1> SUFFICES ASSUME NEW o \in Objects
             PROVE  /\ index'[o] <= canon'[o]
                    /\ \A e \in Drainers : ReadSound(e, o)' /\ AppliedSound(e, o)'
  BY DEF SnapshotsSound
<1> DEFINE Goal == /\ index'[o] <= canon'[o]
                   /\ \A e \in Drainers : ReadSound(e, o)' /\ AppliedSound(e, o)'
<1>n. index[o] <= canon[o] /\ index[o] \in Nat /\ canon[o] \in Nat /\ o # None
  BY Numbers DEF SnapshotsSound
<1>s. \A e \in Drainers : ReadSound(e, o) /\ AppliedSound(e, o)
  BY DEF SnapshotsSound
<1>w. /\ UNCHANGED <<canon, writer>>
      /\ \A e \in Drainers \ {d} : drain'[e] = drain[e]
  BY DEF DrainerStep, Take, Read, Apply, Refuse, CommitBatch, DrainerDies
<1>1. ASSUME index'[o] = index[o], UNCHANGED excused
      PROVE  \A e \in Drainers \ {d} : ReadSound(e, o)' /\ AppliedSound(e, o)'
  BY <1>1, <1>s, <1>w DEF ReadSound, AppliedSound, Accounted, Due
<1>2. ASSUME Holds(d, o)
      PROVE  \A e \in Drainers \ {d} : ReadSound(e, o)' /\ AppliedSound(e, o)'
  BY <1>2, <1>w, OthersUntouched DEF ReadSound, AppliedSound
<1>3. ASSUME drain'[d] = NoBatch PROVE ReadSound(d, o)' /\ AppliedSound(d, o)'
  BY <1>3, <1>n DEF ReadSound, AppliedSound, NoBatch
<1>4. ASSUME NEW S \in SUBSET Objects, Take(d, S) PROVE Goal
  <2>1. UNCHANGED <<index, excused>> BY <1>4 DEF Take
  <2>2. ReadSound(d, o)' /\ AppliedSound(d, o)'
    BY <1>4, <1>n DEF Take, NoBatch, ReadSound, AppliedSound
  <2> QED BY <1>1, <1>n, <1>w, <2>1, <2>2
<1>5. ASSUME NEW p \in Objects, Read(d, p) PROVE Goal
  <2>1. UNCHANGED index /\ excused' = excused \ {p} BY <1>5 DEF Read
  <2>2. /\ drain'[d].cur = p /\ drain'[d].ver = canon[p]
        /\ drain'[d].applied = drain[d].applied
        /\ drain'[d].shows = drain[d].shows
    BY <1>5 DEF Read, Drain
  <2>3. CASE p # o
    <3>1. \A e \in Drainers \ {d} : ReadSound(e, o)' /\ AppliedSound(e, o)'
      BY <1>s, <1>w, <2>1, <2>3 DEF ReadSound, AppliedSound, Accounted, Due
    <3>2. ReadSound(d, o)' BY <2>2, <2>3 DEF ReadSound
    <3>3. AppliedSound(d, o)'
      BY <1>s, <1>w, <2>1, <2>2, <2>3 DEF AppliedSound, Accounted, Due
    <3> QED BY <1>n, <1>w, <2>1, <3>1, <3>2, <3>3
  <2>4. CASE p = o
    <3>1. \A e \in Drainers : drain[e].cur # o /\ o \notin drain[e].applied
      BY <1>5, <2>4 DEF Read, Locked
    <3>2. \A e \in Drainers \ {d} : ReadSound(e, o)' /\ AppliedSound(e, o)'
      BY <1>w, <3>1 DEF ReadSound, AppliedSound
    <3>3. ReadSound(d, o)' /\ AppliedSound(d, o)'
      BY <1>n, <1>w, <2>1, <2>2, <2>4, <3>1
      DEF ReadSound, AppliedSound, Accounted
    <3> QED BY <1>n, <1>w, <2>1, <3>2, <3>3
  <2> QED BY <2>3, <2>4
<1>6. ASSUME Apply(d) PROVE Goal
  <2> DEFINE p == drain[d].cur
  <2>1. p \in Objects BY <1>6 DEF Apply, Drain
  <2>2. /\ index' = ShowNow(d) /\ UNCHANGED excused
        /\ drain'[d].cur = None
        /\ drain'[d].applied = drain[d].applied \cup {p}
        /\ drain'[d].shows = [drain[d].shows EXCEPT ![p] = drain[d].ver]
    BY <1>6 DEF Apply, Drain
  <2>3. ReadSound(d, o)' BY <1>n, <2>2 DEF ReadSound
  <2>4. CASE p # o
    <3>1. index'[o] = index[o]
      BY <2>1, <2>2, <2>4 DEF ShowNow, TypeInv, TypeOK
    <3>2. drain'[d].shows[o] = drain[d].shows[o]
      BY <2>1, <2>2, <2>4 DEF Drain
    <3>3. AppliedSound(d, o)'
      BY <1>s, <1>w, <2>2, <2>4, <3>1, <3>2 DEF AppliedSound, Accounted, Due
    <3> QED BY <1>1, <1>n, <1>w, <2>2, <2>3, <3>1, <3>3
  <2>5. CASE p = o
    <3>1. index'[o] = IF o \in OnSearch THEN drain[d].ver ELSE index[o]
      BY <2>2, <2>5 DEF ShowNow, TypeInv, TypeOK
    <3>2. drain'[d].shows[o] = drain[d].ver BY <2>2, <2>5 DEF Drain
    <3>3. /\ index[o] <= drain[d].ver /\ drain[d].ver <= canon[o]
          /\ Accounted(o, drain[d].ver) /\ drain[d].ver \in Nat
      BY <1>s, <2>5, Numbers DEF ReadSound
    <3>4. AppliedSound(d, o)' /\ index'[o] <= canon'[o]
      BY <1>n, <1>w, <2>2, <3>1, <3>2, <3>3 DEF AppliedSound, Accounted, Due
    <3>5. Holds(d, o) BY <2>5 DEF Holds
    <3> QED BY <1>2, <2>3, <3>4, <3>5
  <2> QED BY <2>4, <2>5
<1>7. ASSUME NEW shown \in BOOLEAN, Refuse(d, shown) PROVE Goal
  <2> DEFINE p == drain[d].cur
  <2>1. p \in Objects BY <1>7 DEF Refuse, Drain
  <2>2. /\ index' \in {index, ShowNow(d)} /\ UNCHANGED excused
        /\ drain'[d].cur = None
        /\ drain'[d].applied = drain[d].applied
        /\ drain'[d].shows = drain[d].shows
    BY <1>7 DEF Refuse, Drain
  <2>3. ReadSound(d, o)' BY <1>n, <2>2 DEF ReadSound
  <2>4. CASE p # o
    <3>1. index'[o] = index[o]
      BY <2>1, <2>2, <2>4 DEF ShowNow, TypeInv, TypeOK
    <3>2. AppliedSound(d, o)'
      BY <1>s, <1>w, <2>2, <3>1 DEF AppliedSound, Accounted, Due
    <3> QED BY <1>1, <1>n, <1>w, <2>2, <2>3, <3>1, <3>2
  <2>5. CASE p = o
    <3>1. index'[o] \in {index[o], drain[d].ver}
      BY <2>2, <2>5 DEF ShowNow, TypeInv, TypeOK
    <3>2. /\ index[o] <= drain[d].ver /\ drain[d].ver <= canon[o]
          /\ o \notin drain[d].applied
      BY <1>s, <2>5 DEF ReadSound
    <3>3. AppliedSound(d, o)' /\ index'[o] <= canon'[o]
      BY <1>n, <1>w, <2>2, <3>1, <3>2 DEF AppliedSound
    <3>4. Holds(d, o) BY <2>5 DEF Holds
    <3> QED BY <1>2, <2>3, <3>3, <3>4
  <2> QED BY <2>4, <2>5
<1>8. ASSUME CommitBatch(d) PROVE Goal
  <2>1. /\ drain'[d] = NoBatch /\ UNCHANGED excused
        /\ index'[o] = IF o \in drain[d].applied \ OnSearch
                       THEN drain[d].shows[o] ELSE index[o]
    BY <1>8 DEF CommitBatch
  <2>2. CASE o \in drain[d].applied
    <3>1. index'[o] <= canon'[o]
      BY <1>n, <1>s, <1>w, <2>1, <2>2 DEF AppliedSound
    <3>2. Holds(d, o) BY <2>2 DEF Holds
    <3> QED BY <1>2, <1>3, <2>1, <3>1, <3>2
  <2>3. CASE o \notin drain[d].applied
    <3>1. index'[o] = index[o] BY <2>1, <2>3
    <3> QED BY <1>1, <1>3, <1>n, <1>w, <2>1, <3>1
  <2> QED BY <2>2, <2>3
<1>9. ASSUME DrainerDies(d) PROVE Goal
  <2>1. drain'[d] = NoBatch /\ UNCHANGED <<index, excused>>
    BY <1>9 DEF DrainerDies
  <2> QED BY <1>1, <1>3, <1>n, <1>w, <2>1
<1> QED BY <1>4, <1>5, <1>6, <1>7, <1>8, <1>9 DEF DrainerStep

\* Operators touch the index in one way: reindex removes what it had not
\* listed, and that is excused if it existed.
LEMMA OperatorSnapshots ==
  ASSUME Inv, \/ RetryFailed \/ ReindexList \/ ReindexQueue \/ ReindexOrphans
              \/ UNCHANGED vars
  PROVE  SnapshotsSound'
<1> USE DEF Inv
<1>1. UNCHANGED <<canon, writer, drain>>
  BY DEF RetryFailed, ReindexList, ReindexQueue, ReindexOrphans, vars
<1>2. CASE UNCHANGED <<index, excused>>
  BY <1>1, <1>2
  DEF SnapshotsSound, ReadSound, AppliedSound, Accounted, Due
<1>3. CASE ReindexOrphans
  <2> SUFFICES ASSUME NEW o \in Objects
               PROVE  /\ index'[o] <= canon'[o]
                      /\ \A d \in Drainers : ReadSound(d, o)' /\ AppliedSound(d, o)'
    BY DEF SnapshotsSound
  <2>1. /\ index'[o] = IF o \in rebuild.ids THEN index[o] ELSE 0
        /\ excused' = excused \cup {p \in Objects \ rebuild.ids : canon[p] > 0}
    BY <1>3 DEF ReindexOrphans
  <2>2. index[o] <= canon[o] /\ index[o] \in Nat /\ canon[o] \in Nat
    BY Numbers DEF SnapshotsSound
  <2>3. \A d \in Drainers : ReadSound(d, o) /\ AppliedSound(d, o)
    BY DEF SnapshotsSound
  <2>4. CASE o \in rebuild.ids
    BY <1>1, <2>1, <2>2, <2>3, <2>4
    DEF ReadSound, AppliedSound, Accounted, Due
  <2>5. CASE o \notin rebuild.ids
    <3>1. index'[o] = 0 /\ (canon[o] > 0 => o \in excused') BY <2>1, <2>5
    <3>2. \A d \in Drainers : drain[d].ver \in Nat /\ drain[d].shows[o] \in Nat
      BY Numbers
    <3> QED BY <1>1, <2>1, <2>2, <2>3, <3>1, <3>2
            DEF ReadSound, AppliedSound, Accounted, Due
  <2> QED BY <2>4, <2>5
<1> QED BY <1>2, <1>3 DEF RetryFailed, ReindexList, ReindexQueue, vars

LEMMA InvKept == ASSUME Inv, [Next]_vars PROVE Inv'
<1>1. TypeInv' /\ EntriesLocked' BY TypesKept, EntriesKept DEF Inv
<1>2. SnapshotsSound'
  BY WriterSnapshots, DrainerSnapshots, OperatorSnapshots DEF Next
<1> QED BY <1>1, <1>2 DEF Inv

LEMMA InvAlways == Spec => []Inv
<1>1. Init => Inv
  <2> SUFFICES ASSUME Init PROVE Inv OBVIOUS
  <2>1. TypeOK BY DEF Init, TypeOK, NoWrite, NoBatch
  <2>2. WritesApart BY DEF Init, WritesApart, NoWrite
  <2>3. EntriesLocked
    BY SearchProjectionAssumption DEF Init, EntriesLocked, Holds, NoBatch
  <2>4. SnapshotsSound
    BY SearchProjectionAssumption
    DEF Init, SnapshotsSound, ReadSound, AppliedSound, NoBatch
  <2> QED BY <2>1, <2>2, <2>3, <2>4 DEF Inv, TypeInv
<1>2. Inv /\ [Next]_vars => Inv' BY InvKept
<1> QED BY <1>1, <1>2, PTL DEF Spec
-----------------------------------------------------------------------------
(* The projected view                                                      *)

\* A projection is brought forward or removed, while versions stand still.
LEMMA DrainerRefreshes ==
  ASSUME Inv, NEW d \in Drainers, DrainerStep(d), NEW o \in Objects
  PROVE  UNCHANGED canon /\ index[o] <= index'[o]
<1> USE DEF Inv
<1> DEFINE Goal == UNCHANGED canon /\ index[o] <= index'[o]
<1>n. index[o] \in Nat /\ o # None BY Numbers
<1>s. ReadSound(d, o) /\ AppliedSound(d, o) BY DEF SnapshotsSound
<1>1. ASSUME NEW S \in SUBSET Objects, Take(d, S) PROVE Goal
  BY <1>1, <1>n DEF Take
<1>2. ASSUME NEW p \in Objects, Read(d, p) PROVE Goal BY <1>2, <1>n DEF Read
<1>3. ASSUME index' \in {index, ShowNow(d)}, UNCHANGED canon PROVE Goal
  <2>1. index'[o] = index[o] \/ (drain[d].cur = o /\ index'[o] = drain[d].ver)
    BY <1>3 DEF ShowNow, TypeInv, TypeOK
  <2> QED BY <1>3, <1>n, <1>s, <2>1 DEF ReadSound
<1>4. ASSUME Apply(d) PROVE Goal BY <1>3, <1>4 DEF Apply
<1>5. ASSUME NEW shown \in BOOLEAN, Refuse(d, shown) PROVE Goal
  BY <1>3, <1>5 DEF Refuse
<1>6. ASSUME CommitBatch(d) PROVE Goal
  <2>1. /\ UNCHANGED canon
        /\ index'[o] = IF o \in drain[d].applied \ OnSearch
                       THEN drain[d].shows[o] ELSE index[o]
    BY <1>6 DEF CommitBatch
  <2> QED BY <1>n, <1>s, <2>1 DEF AppliedSound
<1>7. ASSUME DrainerDies(d) PROVE Goal BY <1>7, <1>n DEF DrainerDies
<1> QED BY <1>1, <1>2, <1>4, <1>5, <1>6, <1>7 DEF DrainerStep

\* Projections that do not go back, or go away, are a Refresh.
LEMMA RefreshImplemented ==
  ASSUME Inv, Inv', UNCHANGED canon,
         \A o \in Objects : index'[o] = 0 \/ index[o] <= index'[o]
  PROVE  View!Next
<1>1. index' \in [Objects -> Nat] BY DEF Inv, TypeInv, TypeOK
<1>2. \A o \in Objects : index'[o] <= canon[o]
  BY DEF Inv, SnapshotsSound
<1> QED BY <1>1, <1>2 DEF View!Next, View!Refresh

LEMMA WriterImplements ==
  ASSUME Inv, Inv', NEW w \in Writers, WriterStep(w)
  PROVE  View!Next \/ UNCHANGED <<canon, index>>
<1>t. TypeInv BY DEF Inv
<1>1. CASE Commit(w)
  <2>1. writer[w].obj \in Objects BY <1>1, <1>t DEF Commit, TypeInv, WritesApart
  <2>2. View!Publish(writer[w].obj) BY <1>1 DEF Commit, View!Publish
  <2> QED BY <2>1, <2>2 DEF View!Next
<1>2. ASSUME NEW o \in Objects, RemoteWrite(w, o) PROVE View!Next
  <2>1. View!Publish(o) BY <1>2 DEF RemoteWrite, View!Publish
  <2> QED BY <2>1 DEF View!Next
<1>3. CASE RemoteProject(w)
  <2>1. UNCHANGED canon BY <1>3 DEF RemoteProject
  <2>2. ASSUME NEW o \in Objects PROVE index[o] <= index'[o]
    <3>1. index'[o] \in {index[o], canon[o]}
      BY <1>3, <1>t DEF RemoteProject, TypeInv, TypeOK
    <3>2. index[o] <= canon[o] BY DEF Inv, SnapshotsSound
    <3> QED BY <1>t, <3>1, <3>2, Numbers
  <2> QED BY <2>1, <2>2, RefreshImplemented
<1>4. CASE \/ \E o \in Objects : Write(w, o)
           \/ Abort(w) \/ RemoteEnqueue(w) \/ RemoteEnqueueFails(w)
           \/ RemoteGivesUp(w)
  BY <1>4
  DEF Write, Abort, RemoteEnqueue, RemoteEnqueueFails, RemoteGivesUp
<1> QED BY <1>1, <1>2, <1>3, <1>4 DEF WriterStep

LEMMA StepImplemented ==
  ASSUME Inv, Inv', [Next]_vars
  PROVE  [View!Next]_<<canon, index>>
<1>1. ASSUME NEW w \in Writers, WriterStep(w)
      PROVE  View!Next \/ UNCHANGED <<canon, index>>
  BY <1>1, WriterImplements
<1>2. ASSUME NEW d \in Drainers, DrainerStep(d) PROVE View!Next
  <2>1. UNCHANGED canon
    BY <1>2
    DEF DrainerStep, Take, Read, Apply, Refuse, CommitBatch, DrainerDies
  <2>2. \A o \in Objects : index[o] <= index'[o] BY <1>2, DrainerRefreshes
  <2> QED BY <2>1, <2>2, RefreshImplemented
<1>3. CASE ReindexOrphans
  <2>1. UNCHANGED canon BY <1>3 DEF ReindexOrphans
  <2>2. \A o \in Objects : index'[o] = 0 \/ index'[o] = index[o]
    BY <1>3 DEF ReindexOrphans
  <2>3. \A o \in Objects : index[o] <= index[o]
    BY Numbers DEF Inv
  <2>4. \A o \in Objects : index'[o] = 0 \/ index[o] <= index'[o]
    BY <2>2, <2>3
  <2> QED BY <2>1, <2>4, RefreshImplemented
<1>4. CASE RetryFailed \/ ReindexList \/ ReindexQueue \/ UNCHANGED vars
  BY <1>4 DEF RetryFailed, ReindexList, ReindexQueue, vars
<1> QED BY <1>1, <1>2, <1>3, <1>4 DEF Next

\* Whatever writers, drainers and operators race, a projection shows committed
\* versions and never goes back: the advisory lock of project_object, taken
\* before the canonical row is read and kept to the end, is enough for it.
THEOREM ViewImplemented == Spec => ViewSpec
<1>1. Init => View!Init BY DEF Init, View!Init
<1>2. Inv /\ Inv' /\ [Next]_vars => [View!Next]_<<canon, index>>
  BY StepImplemented
<1> QED BY <1>1, <1>2, InvAlways, PTL DEF Spec, ViewSpec, View!Spec

-----------------------------------------------------------------------------
(* Gaps                                                                    *)

\* The index shows the object, or what will bring it there is known.
Known(o) ==
  index[o] < canon[o] => pending[o] \/ failed[o] > 0 \/ o \in excused \/ Due(o)

LEMMA KnownGaps == GapsExcused <=> \A o \in Objects : Known(o)
BY DEF GapsExcused, Known, Due

LEMMA WriterGaps ==
  ASSUME Inv, GapsExcused, NEW w \in Writers, WriterStep(w), NEW o \in Objects
  PROVE  Known(o)'
<1>t. TypeInv /\ TypeOK /\ WritesApart BY DEF Inv, TypeInv
<1>w. writer \in [Writers -> [pc : {"idle", "open", "enqueue", "project"},
                              obj : Objects \cup {None}, adds : BOOLEAN]]
  BY <1>t DEF TypeOK
<1>n. index[o] \in Nat /\ canon[o] \in Nat BY <1>t, Numbers
<1>k. Known(o) BY KnownGaps
<1>p. pending[o] => pending'[o] BY <1>t, OthersKeepEntries
<1>f. UNCHANGED failed
  BY DEF WriterStep, Write, RemoteWrite, Commit, Abort, RemoteEnqueue,
         RemoteEnqueueFails, RemoteProject, RemoteGivesUp
<1>1. ASSUME canon'[o] = canon[o], index'[o] = index[o],
             excused \subseteq excused', Due(o) => Due(o)'
      PROVE  Known(o)'
  BY <1>1, <1>k, <1>p, <1>f DEF Known
<1>2. ASSUME NEW p \in Objects, Write(w, p) PROVE Known(o)'
  <2>1. Due(o) => Due(o)' BY <1>2, <1>w DEF Write, Due
  <2> QED BY <1>1, <1>2, <2>1 DEF Write
<1>3. CASE Abort(w)
  <2>1. Due(o) => Due(o)' BY <1>3, <1>w DEF Abort, Due
  <2> QED BY <1>1, <1>3, <2>1 DEF Abort
<1>4. CASE Commit(w)
  <2>1. CASE writer[w].obj # o
    <3>1. Due(o) => Due(o)' BY <1>4, <1>w DEF Commit, Due
    <3>2. canon'[o] = canon[o] /\ index'[o] = index[o]
      BY <1>4, <1>t, <2>1 DEF Commit, TypeOK
    <3>3. excused \subseteq excused' BY <1>4, ExcuseAdds DEF Commit
    <3> QED BY <1>1, <3>1, <3>2, <3>3
  <2>2. CASE writer[w].obj = o /\ writer[w].adds
    <3>1. pending'[o] BY <1>4, <1>t, <2>2 DEF Commit, TypeOK
    <3> QED BY <3>1 DEF Known
  <2>3. CASE writer[w].obj = o /\ ~ writer[w].adds
    <3>1. excused' = Excuse(o, canon[o] + 1) BY <1>4, <2>3 DEF Commit
    <3>2. pending[o] \/ o \in excused' BY <3>1 DEF Excuse, Uncovered
    <3> QED BY <1>p, <3>2 DEF Known
  <2> QED BY <2>1, <2>2, <2>3
<1>5. ASSUME NEW p \in Objects, RemoteWrite(w, p) PROVE Known(o)'
  <2>1. Due(o) => Due(o)' BY <1>5, <1>w DEF RemoteWrite, Due
  <2>2. CASE p = o
    <3>1. Due(o)' BY <1>5, <1>w, <2>2 DEF RemoteWrite, Due
    <3> QED BY <3>1 DEF Known
  <2>3. CASE p # o
    <3>1. canon'[o] = canon[o] BY <1>5, <1>t, <2>3 DEF RemoteWrite, TypeOK
    <3> QED BY <1>1, <1>5, <2>1, <3>1 DEF RemoteWrite
  <2> QED BY <2>2, <2>3
<1>6. CASE RemoteProject(w)
  <2>1. Due(o) => Due(o)' BY <1>6, <1>w DEF RemoteProject, Due
  <2>2. UNCHANGED <<canon, excused>> BY <1>6 DEF RemoteProject
  <2>3. CASE writer[w].obj = o
    <3>1. index'[o] = canon[o] BY <1>6, <1>t, <2>3 DEF RemoteProject, TypeOK
    <3> QED BY <1>n, <2>2, <3>1 DEF Known
  <2>4. CASE writer[w].obj # o
    <3>1. index'[o] = index[o] BY <1>6, <1>t, <2>4 DEF RemoteProject, TypeOK
    <3> QED BY <1>1, <2>1, <2>2, <3>1
  <2> QED BY <2>3, <2>4
<1>7. CASE RemoteEnqueue(w)
  <2>1. UNCHANGED <<canon, index>> /\ excused \subseteq excused'
    BY <1>7, ExcuseAdds DEF RemoteEnqueue
  <2>2. CASE writer[w].obj = o
    <3>1. pending'[o] BY <1>7, <2>2 DEF RemoteEnqueue, Queue
    <3> QED BY <3>1 DEF Known
  <2>3. CASE writer[w].obj # o
    <3>1. Due(o) => Due(o)' BY <1>7, <1>w, <2>3 DEF RemoteEnqueue, Due
    <3> QED BY <1>1, <2>1, <3>1
  <2> QED BY <2>2, <2>3
<1>8. CASE RemoteEnqueueFails(w) \/ RemoteGivesUp(w)
  <2>1. UNCHANGED <<canon, index>> /\ excused \subseteq excused'
    BY <1>8, ExcuseAdds DEF RemoteEnqueueFails, RemoteGivesUp
  <2>2. CASE writer[w].obj = o /\ writer[w].pc = "enqueue"
    <3>1. excused' = Excuse(o, canon[o])
      BY <1>8, <2>2 DEF RemoteEnqueueFails, RemoteGivesUp
    <3>2. pending[o] \/ o \in excused' BY <3>1 DEF Excuse, Uncovered
    <3> QED BY <1>p, <3>2 DEF Known
  <2>3. CASE ~ (writer[w].obj = o /\ writer[w].pc = "enqueue")
    <3>1. Due(o) => Due(o)'
      BY <1>8, <1>w, <2>3 DEF RemoteEnqueueFails, RemoteGivesUp, Due
    <3> QED BY <1>1, <2>1, <3>1
  <2> QED BY <2>2, <2>3
<1> QED BY <1>2, <1>3, <1>4, <1>5, <1>6, <1>7, <1>8 DEF WriterStep

LEMMA DrainerGaps ==
  ASSUME Inv, GapsExcused, NEW d \in Drainers, DrainerStep(d), NEW o \in Objects
  PROVE  Known(o)'
<1>t. TypeInv /\ TypeOK BY DEF Inv, TypeInv
<1>n. /\ index[o] \in Nat /\ canon[o] \in Nat /\ o # None
      /\ index'[o] \in Nat /\ failed[o] \in Nat
  BY <1>t, Numbers, DrainerTypes DEF TypeInv, TypeOK
<1>k. Known(o) BY KnownGaps
<1>g. UNCHANGED canon /\ index[o] <= index'[o] BY DrainerRefreshes
<1>d. Due(o)' <=> Due(o)
  BY DEF Due, DrainerStep, Take, Read, Apply, Refuse, CommitBatch, DrainerDies
<1>h. Holds(d, o) => pending[o] BY DEF Inv, EntriesLocked
<1>1. ASSUME UNCHANGED <<pending, failed>>,
             excused' = excused \/ (Holds(d, o) /\ pending[o])
      PROVE  Known(o)'
  BY <1>1, <1>n, <1>k, <1>g, <1>d DEF Known
<1>2. ASSUME NEW S \in SUBSET Objects, Take(d, S) PROVE Known(o)'
  BY <1>1, <1>2 DEF Take
<1>3. ASSUME NEW p \in Objects, Read(d, p) PROVE Known(o)'
  <2>1. UNCHANGED <<pending, failed>> /\ excused' = excused \ {p}
    BY <1>3 DEF Read
  <2>2. CASE p = o
    <3>1. Holds(d, o) BY <1>3, <2>2 DEF Read, Holds
    <3> QED BY <1>1, <1>h, <2>1, <3>1
  <2>3. CASE p # o
    BY <1>n, <1>k, <1>g, <1>d, <2>1, <2>3 DEF Known
  <2> QED BY <2>2, <2>3
<1>4. ASSUME Apply(d) PROVE Known(o)' BY <1>1, <1>4 DEF Apply
<1>5. ASSUME NEW shown \in BOOLEAN, Refuse(d, shown) PROVE Known(o)'
  BY <1>1, <1>5 DEF Refuse
<1>6. ASSUME CommitBatch(d) PROVE Known(o)'
  <2> DEFINE final == {p \in drain[d].retry : attempts[p] + 1 >= MaxAttempts}
  <2>1. pending'[o] <=> pending[o] /\ o \notin drain[d].applied \cup final
    BY <1>6 DEF CommitBatch
  <2>2. failed'[o] = IF o \in final THEN failed[o] + 1 ELSE failed[o]
    BY <1>6 DEF CommitBatch
  <2>3. /\ UNCHANGED excused
        /\ index'[o] = IF o \in drain[d].applied \ OnSearch
                       THEN drain[d].shows[o] ELSE index[o]
    BY <1>6 DEF CommitBatch
  <2> HIDE DEF final
  <2>4. CASE o \in drain[d].applied
    <3>1. AppliedSound(d, o) BY DEF Inv, SnapshotsSound
    <3>2. index'[o] = drain[d].shows[o] \/ o \in excused
      BY <2>3, <2>4, <3>1 DEF AppliedSound
    <3>3. drain[d].shows[o] = canon[o] \/ o \in excused \/ Due(o)
      BY <2>4, <3>1 DEF AppliedSound, Accounted
    <3> QED BY <1>n, <1>g, <1>d, <2>3, <3>2, <3>3 DEF Known
  <2>5. CASE o \notin drain[d].applied /\ o \in final
    <3>1. failed'[o] > 0 BY <1>n, <2>2, <2>5
    <3> QED BY <3>1 DEF Known
  <2>6. CASE o \notin drain[d].applied /\ o \notin final
    <3>1. (pending'[o] <=> pending[o]) /\ failed'[o] = failed[o]
      BY <2>1, <2>2, <2>6
    <3> QED BY <1>n, <1>k, <1>g, <1>d, <2>3, <3>1 DEF Known
  <2> QED BY <2>4, <2>5, <2>6
<1>7. ASSUME DrainerDies(d) PROVE Known(o)' BY <1>1, <1>7 DEF DrainerDies
<1> QED BY <1>2, <1>3, <1>4, <1>5, <1>6, <1>7 DEF DrainerStep

LEMMA OperatorGaps ==
  ASSUME Inv, GapsExcused, NEW o \in Objects,
         \/ RetryFailed \/ ReindexList \/ ReindexQueue \/ ReindexOrphans
         \/ UNCHANGED vars
  PROVE  Known(o)'
<1>t. TypeInv BY DEF Inv
<1>n. index[o] \in Nat /\ canon[o] \in Nat BY <1>t, Numbers
<1>k. Known(o) BY KnownGaps
<1>p. pending[o] => pending'[o] BY <1>t, OthersKeepEntries
<1>w. UNCHANGED <<canon, writer>>
  BY DEF RetryFailed, ReindexList, ReindexQueue, ReindexOrphans, vars
<1>1. ASSUME UNCHANGED <<index, failed, excused>> PROVE Known(o)'
  BY <1>1, <1>k, <1>p, <1>w DEF Known, Due
<1>2. CASE RetryFailed
  <2> DEFINE S == {p \in Objects : failed[p] > 0 /\ ~ pending[p]}
  <2>1. /\ UNCHANGED <<index, excused>>
        /\ pending'[o] <=> pending[o] \/ o \in S
        /\ failed'[o] = IF o \in S THEN 0 ELSE failed[o]
    BY <1>2 DEF RetryFailed
  <2> HIDE DEF S
  <2>2. CASE o \in S BY <2>1, <2>2 DEF Known
  <2>3. CASE o \notin S BY <1>k, <1>w, <2>1, <2>3 DEF Known, Due
  <2> QED BY <2>2, <2>3
<1>3. CASE ReindexOrphans
  <2>1. /\ UNCHANGED failed
        /\ index'[o] = IF o \in rebuild.ids THEN index[o] ELSE 0
        /\ excused' = excused \cup {p \in Objects \ rebuild.ids : canon[p] > 0}
    BY <1>3 DEF ReindexOrphans
  <2>2. CASE o \in rebuild.ids
    BY <1>k, <1>p, <1>w, <2>1, <2>2 DEF Known, Due
  <2>3. CASE o \notin rebuild.ids
    BY <1>n, <1>w, <2>1, <2>3 DEF Known
  <2> QED BY <2>2, <2>3
<1> QED BY <1>1, <1>2, <1>3 DEF RetryFailed, ReindexList, ReindexQueue, vars

\* No change of a canonical object is lost without a trace but for the three
\* causes GapsExcused names, in any number of objects, writers and drainers.
THEOREM GapsAlwaysExcused == Spec => []GapsExcused
<1>1. Init => GapsExcused BY DEF Init, GapsExcused
<1>2. Inv /\ GapsExcused /\ [Next]_vars => GapsExcused'
  <2> SUFFICES ASSUME Inv, GapsExcused, [Next]_vars, NEW o \in Objects
               PROVE  Known(o)'
    BY DEF GapsExcused, Known, Due
  <2> QED BY WriterGaps, DrainerGaps, OperatorGaps DEF Next
<1> QED BY <1>1, <1>2, InvAlways, PTL DEF Spec
=============================================================================
