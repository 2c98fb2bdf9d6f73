-------------------------- MODULE SearchProjection --------------------------
(***************************************************************************)
(* The search projections and their outbox                                 *)
(* (backend/app/services/search_projection.py, trigger sl_canonical_touch  *)
(* of migrations 95 and 133).                                              *)
(*                                                                         *)
(* A canonical object is the number of the version last committed, its     *)
(* projection the number of the version the search index shows.  A write   *)
(* is a transaction: its trigger queues ONE pending outbox entry unless    *)
(* one is there already.  A drainer's transaction locks a batch of pending *)
(* entries (SKIP LOCKED), projects the canonical row it reads for each,    *)
(* marks the entries and commits.  READ COMMITTED: nobody sees what an     *)
(* open transaction wrote, but an INSERT into the outbox waits for a       *)
(* transaction that has changed the entry it conflicts with; one that has  *)
(* only locked it (FOR UPDATE) is a conflict at once: DO NOTHING.          *)
(***************************************************************************)
EXTENDS Integers, FiniteSets

CONSTANTS
  Objects,      \* canonical goals, claims, procedures
  Remote,       \* those homed on another shard than K000
  OnSearch,     \* those projected into the search database, not control
  Writers,      \* transactions that write canonical rows
  Drainers,     \* calls of drain_outbox
  Batch,        \* its batch size
  None,         \* no object
  MaxAttempts,  \* MAX_OUTBOX_ATTEMPTS
  MaxWrites,    \* [Objects -> Nat], bound: versions of each object
  MaxCrashes,   \* bound: drainers that die
  MaxRepairs    \* bound: operator calls of retry_failed and reindex

ASSUME SearchProjectionAssumption ==
  /\ Remote \subseteq Objects /\ OnSearch \subseteq Objects
  /\ None \notin Objects
  /\ Writers \cap Drainers = {}
  /\ Batch \in Nat \ {0} /\ MaxAttempts \in Nat \ {0}
  /\ MaxWrites \in [Objects -> Nat]
  /\ MaxCrashes \in Nat /\ MaxRepairs \in Nat

VARIABLES
  canon,     \* the committed version of each canonical object
  index,     \* the version its projection shows, 0: no projection
  pending,   \* whether the object has a committed pending entry
  attempts,  \* that entry's attempts
  failed,    \* how many failed entries the object has
  writer,    \* each writer's transaction
  drain,     \* each drainer's transaction
  rebuild,   \* the operator's reindex
  crashes,   \* how many drainers died
  repairs,   \* how often an operator stepped in
  excused    \* history: objects whose change was left without an entry

vars == <<canon, index, pending, attempts, failed, writer, drain, rebuild,
          crashes, repairs, excused>>

\* A drainer's transaction: the locked entries still to do, the object being
\* projected and the version read for it, the entries marked applied with the
\* version shown for each, the entries marked for a retry.
NoBatch == [open |-> FALSE, todo |-> {}, cur |-> None, ver |-> 0,
            applied |-> {}, shows |-> [o \in Objects |-> 0], retry |-> {}]

NoWrite == [pc |-> "idle", obj |-> None, adds |-> FALSE]

TypeOK ==
  /\ canon \in [Objects -> Nat] /\ index \in [Objects -> Nat]
  /\ pending \in [Objects -> BOOLEAN]
  /\ attempts \in [Objects -> Nat] /\ failed \in [Objects -> Nat]
  /\ writer \in [Writers -> [pc : {"idle", "open", "enqueue", "project"},
                             obj : Objects \cup {None}, adds : BOOLEAN]]
  /\ drain \in [Drainers -> [open : BOOLEAN, todo : SUBSET Objects,
                             cur : Objects \cup {None}, ver : Nat,
                             applied : SUBSET Objects,
                             shows : [Objects -> Nat],
                             retry : SUBSET Objects]]
  /\ rebuild \in [pc : {"idle", "listed", "queued"}, ids : SUBSET Objects]
  /\ crashes \in Nat /\ repairs \in Nat
  /\ excused \subseteq Objects

Init ==
  /\ canon = [o \in Objects |-> 0] /\ index = [o \in Objects |-> 0]
  /\ pending = [o \in Objects |-> FALSE]
  /\ attempts = [o \in Objects |-> 0] /\ failed = [o \in Objects |-> 0]
  /\ writer = [w \in Writers |-> NoWrite]
  /\ drain = [d \in Drainers |-> NoBatch]
  /\ rebuild = [pc |-> "idle", ids |-> {}]
  /\ crashes = 0 /\ repairs = 0
  /\ excused = {}

-----------------------------------------------------------------------------
(* The outbox                                                              *)

\* Some open transaction has inserted or changed o's entry: an INSERT that
\* conflicts with it waits.
Changing(o) ==
  \/ \E w \in Writers : writer[w].obj = o /\ writer[w].adds
  \/ \E d \in Drainers : o \in drain[d].applied \cup drain[d].retry

\* INSERT ... ON CONFLICT DO NOTHING, outside or at the end of a transaction.
Queue(S) ==
  /\ \A o \in S : ~ Changing(o)
  /\ pending' = [o \in Objects |-> pending[o] \/ o \in S]
  /\ attempts' = [o \in Objects |->
                    IF o \in S /\ ~ pending[o] THEN 0 ELSE attempts[o]]

\* No entry will bring version v of o to the index: there is none, or its
\* drainer has read the canonical row before v was committed.
Uncovered(o, v) ==
  \/ ~ pending[o]
  \/ \E d \in Drainers : \/ (drain[d].cur = o /\ drain[d].ver < v)
                        \/ (o \in drain[d].applied /\ drain[d].shows[o] < v)

\* History: version v of o has been committed, if it is Uncovered unnoticed.
Excuse(o, v) == IF Uncovered(o, v) THEN excused \cup {o} ELSE excused

-----------------------------------------------------------------------------
(* Canonical writes                                                        *)

\* A row homed on K000 is written: the trigger queues an entry in the same
\* transaction, unless a committed one is pending.  The row stays locked.
Write(w, o) ==
  /\ o \notin Remote
  /\ writer[w].pc = "idle"
  /\ canon[o] < MaxWrites[o]
  /\ \A v \in Writers : writer[v].obj # o
  /\ ~ Changing(o)
  /\ writer' = [writer EXCEPT ![w] = [pc |-> "open", obj |-> o,
                                      adds |-> ~ pending[o]]]
  /\ UNCHANGED <<canon, index, pending, attempts, failed, drain, rebuild,
                 crashes, repairs, excused>>

\* mutant: the trigger forgets its entry
CommitUnqueued(w) ==
  /\ writer[w].pc = "open"
  /\ LET o == writer[w].obj IN
     /\ canon' = [canon EXCEPT ![o] = @ + 1]
     /\ excused' = IF writer[w].adds THEN excused
                                     ELSE Excuse(o, canon[o] + 1)
  /\ writer' = [writer EXCEPT ![w] = NoWrite]
  /\ UNCHANGED <<index, pending, attempts, failed, drain, rebuild, crashes,
                 repairs>>

\* The transaction commits: the version, and the entry it added.
Commit(w) ==
  /\ writer[w].pc = "open"
  /\ LET o == writer[w].obj IN
     /\ canon' = [canon EXCEPT ![o] = @ + 1]
     /\ pending' = [pending EXCEPT ![o] = @ \/ writer[w].adds]
     /\ attempts' = [attempts EXCEPT ![o] = IF writer[w].adds THEN 0 ELSE @]
     /\ excused' = IF writer[w].adds THEN excused
                                     ELSE Excuse(o, canon[o] + 1)
  /\ writer' = [writer EXCEPT ![w] = NoWrite]
  /\ UNCHANGED <<index, failed, drain, rebuild, crashes, repairs>>

\* It rolls back, or its client dies: nothing happened.
Abort(w) ==
  /\ writer[w].pc = "open"
  /\ writer' = [writer EXCEPT ![w] = NoWrite]
  /\ UNCHANGED <<canon, index, pending, attempts, failed, drain, rebuild,
                 crashes, repairs, excused>>

\* A row homed on a remote shard commits there; the entry is still to come.
RemoteWrite(w, o) ==
  /\ o \in Remote
  /\ writer[w].pc = "idle"
  /\ canon[o] < MaxWrites[o]
  /\ canon' = [canon EXCEPT ![o] = @ + 1]
  /\ writer' = [writer EXCEPT ![w] = [pc |-> "enqueue", obj |-> o,
                                      adds |-> FALSE]]
  /\ UNCHANGED <<index, pending, attempts, failed, drain, rebuild, crashes,
                 repairs, excused>>

\* enqueue after the remote commit.
RemoteEnqueue(w) ==
  /\ writer[w].pc = "enqueue"
  /\ LET o == writer[w].obj IN
     /\ Queue({o})
     /\ excused' = IF pending[o] THEN Excuse(o, canon[o]) ELSE excused
  /\ writer' = [writer EXCEPT ![w].pc = "project"]
  /\ UNCHANGED <<canon, index, failed, drain, rebuild, crashes, repairs>>

\* enqueue failed and was swallowed (_finish_remote_goal): project anyway.
RemoteEnqueueFails(w) ==
  /\ writer[w].pc = "enqueue"
  /\ excused' = Excuse(writer[w].obj, canon[writer[w].obj])
  /\ writer' = [writer EXCEPT ![w].pc = "project"]
  /\ UNCHANGED <<canon, index, pending, attempts, failed, drain, rebuild,
                 crashes, repairs>>

\* The advisory lock of project_object, held to the transaction's end.
Locked(o) ==
  \E d \in Drainers : drain[d].cur = o \/ o \in drain[d].applied

\* mutant: the immediate projection takes no advisory lock
RemoteProjectUnlocked(w) ==
  /\ writer[w].pc = "project"
  /\ index' = [index EXCEPT ![writer[w].obj] = canon[writer[w].obj]]
  /\ writer' = [writer EXCEPT ![w] = NoWrite]
  /\ UNCHANGED <<canon, pending, attempts, failed, drain, rebuild, crashes,
                 repairs, excused>>

\* The writer projects the object at once (best effort), entry or no entry.
RemoteProject(w) ==
  /\ writer[w].pc = "project"
  /\ ~ Locked(writer[w].obj)
  /\ index' = [index EXCEPT ![writer[w].obj] = canon[writer[w].obj]]
  /\ writer' = [writer EXCEPT ![w] = NoWrite]
  /\ UNCHANGED <<canon, pending, attempts, failed, drain, rebuild, crashes,
                 repairs, excused>>

\* The writer dies, or its projection fails and is swallowed.
RemoteGivesUp(w) ==
  /\ writer[w].pc \in {"enqueue", "project"}
  /\ excused' = IF writer[w].pc = "enqueue"
                THEN Excuse(writer[w].obj, canon[writer[w].obj])
                ELSE excused
  /\ writer' = [writer EXCEPT ![w] = NoWrite]
  /\ UNCHANGED <<canon, index, pending, attempts, failed, drain, rebuild,
                 crashes, repairs>>

-----------------------------------------------------------------------------
(* drain_outbox                                                            *)

\* The entries no other drainer has locked.
Unlocked ==
  {o \in Objects : /\ pending[o]
                   /\ \A d \in Drainers : o \notin drain[d].todo
                                     \cup {drain[d].cur}
                                     \cup drain[d].applied \cup drain[d].retry}

\* BEGIN; SELECT ... WHERE pending LIMIT batch FOR UPDATE SKIP LOCKED.
Take(d, S) ==
  /\ ~ drain[d].open
  /\ S \subseteq Unlocked /\ S # {}
  /\ IF Cardinality(Unlocked) <= Batch THEN S = Unlocked
                                       ELSE Cardinality(S) = Batch
  /\ drain' = [drain EXCEPT ![d] = [NoBatch EXCEPT !.open = TRUE,
                                                   !.todo = S]]
  /\ UNCHANGED <<canon, index, pending, attempts, failed, writer, rebuild,
                 crashes, repairs, excused>>

\* project_object takes the advisory lock, then reads the canonical row.
Read(d, o) ==
  /\ o \in drain[d].todo /\ drain[d].cur = None
  /\ ~ Locked(o)
  /\ drain' = [drain EXCEPT ![d].todo = drain[d].todo \ {o}, ![d].cur = o,
                            ![d].ver = canon[o]]
  /\ excused' = excused \ {o}
  /\ UNCHANGED <<canon, index, pending, attempts, failed, writer, rebuild,
                 crashes, repairs>>

\* The search database commits a projection at once, control with the batch.
ShowNow(d) ==
  IF drain[d].cur \in OnSearch
  THEN [index EXCEPT ![drain[d].cur] = drain[d].ver] ELSE index

\* The projection is written and the entry marked applied.
Apply(d) ==
  /\ drain[d].cur # None
  /\ index' = ShowNow(d)
  /\ LET o == drain[d].cur IN
     drain' = [drain EXCEPT ![d] =
       [drain[d] EXCEPT
          !.cur = None,
          !.applied = drain[d].applied \cup {o},
          !.shows = [drain[d].shows EXCEPT ![o] = drain[d].ver]]]
  /\ UNCHANGED <<canon, pending, attempts, failed, writer, rebuild, crashes,
                 repairs, excused>>

\* project_object raised, before or after it wrote to the search database:
\* the savepoint is rolled back and the entry's failure recorded.
Refuse(d, shown) ==
  /\ drain[d].cur # None
  /\ index' = IF shown THEN ShowNow(d) ELSE index
  /\ drain' = [drain EXCEPT ![d] =
       [drain[d] EXCEPT !.cur = None,
                        !.retry = drain[d].retry \cup {drain[d].cur}]]
  /\ UNCHANGED <<canon, pending, attempts, failed, writer, rebuild, crashes,
                 repairs, excused>>

\* mutant: entries are marked applied, their projection is rolled back
CommitMarks(d) ==
  /\ drain[d].open /\ drain[d].todo = {} /\ drain[d].cur = None
  /\ LET done == drain[d].applied \cup drain[d].retry
     IN pending' = [o \in Objects |-> pending[o] /\ o \notin done]
  /\ drain' = [drain EXCEPT ![d] = NoBatch]
  /\ UNCHANGED <<canon, index, attempts, failed, writer, rebuild, crashes,
                 repairs, excused>>

\* The batch commits: applied entries are gone, the others have one attempt
\* more, and at MAX_OUTBOX_ATTEMPTS they are failed.
CommitBatch(d) ==
  /\ drain[d].open /\ drain[d].todo = {} /\ drain[d].cur = None
  /\ LET final == {o \in drain[d].retry : attempts[o] + 1 >= MaxAttempts} IN
     /\ pending' = [o \in Objects |->
                      pending[o] /\ o \notin drain[d].applied \cup final]
     /\ attempts' = [o \in Objects |->
                       IF o \in drain[d].retry THEN attempts[o] + 1
                                               ELSE attempts[o]]
     /\ failed' = [o \in Objects |->
                     IF o \in final THEN failed[o] + 1 ELSE failed[o]]
  /\ index' = [o \in Objects |->
                 IF o \in drain[d].applied \ OnSearch THEN drain[d].shows[o]
                                                      ELSE index[o]]
  /\ drain' = [drain EXCEPT ![d] = NoBatch]
  /\ UNCHANGED <<canon, writer, rebuild, crashes, repairs, excused>>

\* The drainer dies: its transaction rolls back, the search database keeps
\* what it was sent.
DrainerDies(d) ==
  /\ drain[d].open
  /\ crashes < MaxCrashes
  /\ drain' = [drain EXCEPT ![d] = NoBatch]
  /\ crashes' = crashes + 1
  /\ UNCHANGED <<canon, index, pending, attempts, failed, writer, rebuild,
                 repairs, excused>>

-----------------------------------------------------------------------------
(* Repairs by an operator                                                  *)

\* mutant: the retried entries keep the mark of their failure
RetryUncounted ==
  LET S == {o \in Objects : failed[o] > 0 /\ ~ pending[o]} IN
  /\ repairs < MaxRepairs
  /\ pending' = [o \in Objects |-> pending[o] \/ o \in S]
  /\ failed' = [o \in Objects |-> failed[o] - 1]
  /\ repairs' = repairs + 1
  /\ UNCHANGED <<canon, index, attempts, writer, drain, rebuild, crashes,
                 excused>>

\* retry_failed: one UPDATE over every failed entry without a pending one.
\* Two failed entries of one object would both become pending: the unique
\* index refuses the whole statement.
RetryFailed ==
  LET S == {o \in Objects : failed[o] > 0 /\ ~ pending[o]} IN
  /\ repairs < MaxRepairs
  /\ S # {}
  /\ \A o \in S : failed[o] = 1 /\ ~ Changing(o)
  /\ pending' = [o \in Objects |-> pending[o] \/ o \in S]
  /\ attempts' = [o \in Objects |-> IF o \in S THEN 0 ELSE attempts[o]]
  /\ failed' = [o \in Objects |-> IF o \in S THEN 0 ELSE failed[o]]
  /\ repairs' = repairs + 1
  /\ UNCHANGED <<canon, index, writer, drain, rebuild, crashes, excused>>

\* reindex: list the canonical ids,
ReindexList ==
  /\ rebuild.pc = "idle"
  /\ repairs < MaxRepairs
  /\ rebuild' = [pc |-> "listed", ids |-> {o \in Objects : canon[o] > 0}]
  /\ repairs' = repairs + 1
  /\ UNCHANGED <<canon, index, pending, attempts, failed, writer, drain,
                 crashes, excused>>

\* queue them all,
ReindexQueue ==
  /\ rebuild.pc = "listed"
  /\ Queue(rebuild.ids)
  /\ rebuild' = [rebuild EXCEPT !.pc = "queued"]
  /\ UNCHANGED <<canon, index, failed, writer, drain, crashes, repairs,
                 excused>>

\* delete the projections of ids that were not listed, and drain.
ReindexOrphans ==
  /\ rebuild.pc = "queued"
  /\ index' = [o \in Objects |-> IF o \in rebuild.ids THEN index[o] ELSE 0]
  /\ excused' = excused \cup {o \in Objects \ rebuild.ids : canon[o] > 0}
  /\ rebuild' = [pc |-> "idle", ids |-> {}]
  /\ UNCHANGED <<canon, pending, attempts, failed, writer, drain, crashes,
                 repairs>>

-----------------------------------------------------------------------------

WriterStep(w) ==
  \/ \E o \in Objects : Write(w, o) \/ RemoteWrite(w, o)
  \/ Commit(w) \/ Abort(w)
  \/ RemoteEnqueue(w) \/ RemoteEnqueueFails(w) \/ RemoteProject(w)
  \/ RemoteGivesUp(w)

DrainerStep(d) ==
  \/ \E S \in SUBSET Objects : Take(d, S)
  \/ \E o \in Objects : Read(d, o)
  \/ Apply(d)
  \/ \E shown \in BOOLEAN : Refuse(d, shown)
  \/ CommitBatch(d)
  \/ DrainerDies(d)

Next ==
  \/ \E w \in Writers : WriterStep(w)
  \/ \E d \in Drainers : DrainerStep(d)
  \/ RetryFailed \/ ReindexList \/ ReindexQueue \/ ReindexOrphans

\* Servers and workers drain for ever (start_background_drain), and open
\* transactions of writers end one way or the other.
Fairness ==
  /\ \A d \in Drainers : WF_vars(DrainerStep(d))
  /\ \A w \in Writers : WF_vars(Commit(w) \/ Abort(w))
                          /\ WF_vars(RemoteEnqueue(w) \/ RemoteProject(w)
                                       \/ RemoteGivesUp(w))
  /\ WF_vars(ReindexQueue \/ ReindexOrphans)

Spec == Init /\ [][Next]_vars
FairSpec == Spec /\ Fairness

-----------------------------------------------------------------------------
(* Properties                                                              *)

\* What migration 95 says of a canonical write on K000: until the index shows
\* it there is an entry (pending, or failed for all to see), never a silent
\* gap.
NoSilentGap ==
  \A o \in Objects \ Remote :
    index[o] < canon[o] => pending[o] \/ failed[o] > 0

\* The gaps there are have three causes only: a write that coalesced with an
\* entry whose drainer had read the row before, a remote writer that dies
\* before its enqueue, and reindex deleting a projection it had not listed.
GapsExcused ==
  \A o \in Objects :
    index[o] < canon[o] =>
      \/ pending[o] \/ failed[o] > 0
      \/ o \in excused
      \/ \E w \in Writers : writer[w].obj = o /\ writer[w].pc = "enqueue"

\* Every other change reaches the index in the end: replays, crashes, failed
\* attempts, duplicate drainers and immediate projections all converge.
Converges ==
  \A o \in Objects :
    <>[](index[o] = canon[o] \/ failed[o] > 0 \/ o \in excused)

\* Whatever drainers and writers race, a projection shows committed versions
\* and never goes back to an older one.
View == INSTANCE ProjectedView
ViewSpec == View!Spec
=============================================================================
