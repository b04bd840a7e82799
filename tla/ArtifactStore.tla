---------------------------- MODULE ArtifactStore ----------------------------
(***************************************************************************)
(* Artifacts are kept twice: a row in PostgreSQL and an object in R2.      *)
(* There is no transaction over both, so that every handler orders its two *)
(* writes: create_artifact puts the object before the row and deletes it   *)
(* again when the row is refused; the retention sweep and the deletion of  *)
(* a session delete the objects first, under row locks, then the rows.     *)
(***************************************************************************)
EXTENDS Naturals

CONSTANTS
    Sessions,   \* session identifiers
    Artifacts,  \* artifact identifiers, each made by one call (uuid4)
    SessionOf,  \* SessionOf[a]: the session a is created in
    WaysOf,     \* WaysOf[a]: the ways its client may create a
    Sweepers,   \* tasks that run aux.retention_sweep
    Deleters,   \* requests that run DELETE /v1/sessions/...
    MaxFaults,  \* bound on crashes and on errors of either store
    Nobody      \* holder of a row lock that is free

\* A row is made with its object; or it is reserved for an upload, by one
\* presigned PUT or in parts, and only then has an expected_size.
Reserved == {"presigned", "multipart"}
Ways == {"made"} \cup Reserved

ASSUME StoreAssumption ==
    /\ SessionOf \in [Artifacts -> Sessions]
    /\ WaysOf \in [Artifacts -> SUBSET Ways]
    /\ MaxFaults \in Nat
    /\ Nobody \notin Sweepers \cup Deleters
    /\ Sweepers \cap Deleters = {}

VARIABLES
    sessions,   \* the sessions that exist
    row,        \* the row of each artifact
    lock,       \* the transaction that holds each row (FOR UPDATE)
    object,     \* what the bucket holds under each artifact's key
    creator,    \* the request that creates each artifact, and the way it took
    grant,      \* what a client may still write to the key: a presigned PUT, parts
    completer,  \* the request that completes each upload, one at a time
    sweeper,    \* the transaction of each sweep
    deleter,    \* the transaction of each deletion of a session
    faults

storeVars == <<sessions, row, lock, object, creator, grant, completer, sweeper, deleter, faults>>
uploads == <<grant, completer>>
deletions == <<sweeper, deleter>>

-----------------------------------------------------------------------------
\* No row; or the row with its upload_status.
Absent == [upload |-> "absent", pinned |-> FALSE, expired |-> FALSE]
Row == [upload : {"direct", "pending", "complete"}, pinned : BOOLEAN, expired : BOOLEAN]
NewRow(upload) == [upload |-> upload, pinned |-> FALSE, expired |-> FALSE]
Exists(a) == row[a] # Absent

\* "other": an object whose size is not the reserved one.
Size == {"whole", "other"}
NoObject == "none"

CreatorPc == {"unused", "put", "insert", "compensate", "failed", "crashed"} \cup Ways

\* A transaction that deletes: the rows it has locked, the objects it has
\* still to delete; "rows" is the DELETE and the commit.
Deletion == [pc : {"objects", "rows"}, locked : SUBSET Artifacts, todo : SUBSET Artifacts]
NoDeletion == [pc |-> "idle", locked |-> {}, todo |-> {}]

StoreTypeOK ==
    /\ sessions \in SUBSET Sessions
    /\ row \in [Artifacts -> Row \cup {Absent}]
    /\ lock \in [Artifacts -> Sweepers \cup Deleters \cup {Nobody}]
    /\ object \in [Artifacts -> Size \cup {NoObject}]
    /\ creator \in [Artifacts -> CreatorPc]
    /\ grant \in [Artifacts -> {"none", "put", "parts"}]
    /\ completer \in [Artifacts -> {"idle", "assemble", "size", "update"}]
    /\ sweeper \in [Sweepers -> Deletion \cup {NoDeletion}]
    /\ deleter \in [Deleters -> [session : Sessions, tx : Deletion \cup {NoDeletion}]]
    /\ faults \in 0 .. MaxFaults

StoreInit ==
    /\ sessions = Sessions
    /\ row = [a \in Artifacts |-> Absent]
    /\ lock = [a \in Artifacts |-> Nobody]
    /\ object = [a \in Artifacts |-> NoObject]
    /\ creator = [a \in Artifacts |-> "unused"]
    /\ grant = [a \in Artifacts |-> "none"]
    /\ completer = [a \in Artifacts |-> "idle"]
    /\ sweeper = [s \in Sweepers |-> NoDeletion]
    /\ deleter \in [Deleters -> [session : Sessions, tx : {NoDeletion}]]
    /\ faults = MaxFaults

Fault == faults > 0 /\ faults' = faults - 1
WriteRow(a, r) == row' = [row EXCEPT ![a] = r]
SetObject(a, o) == object' = [object EXCEPT ![a] = o]
Creator(a, pc) == creator' = [creator EXCEPT ![a] = pc]
Completer(a, pc) == completer' = [completer EXCEPT ![a] = pc]

-----------------------------------------------------------------------------
(* create_artifact: the object, then the row.                              *)

CreateRead(a) ==
    /\ creator[a] = "unused" /\ "made" \in WaysOf[a]
    /\ SessionOf[a] \in sessions
    /\ Creator(a, "put")
    /\ UNCHANGED <<sessions, row, lock, object, uploads, deletions, faults>>

PutObject(a) ==
    /\ creator[a] = "put"
    /\ SetObject(a, "whole")
    /\ Creator(a, "insert")
    /\ UNCHANGED <<sessions, row, lock, uploads, deletions, faults>>

\* The foreign key wants the session.
Insert(a) ==
    /\ creator[a] = "insert"
    /\ SessionOf[a] \in sessions
    /\ WriteRow(a, NewRow("direct"))
    /\ Creator(a, "made")
    /\ UNCHANGED <<sessions, lock, object, uploads, deletions, faults>>

\* Mutant of InsertRefused: no compensation.
InsertRefusedOnly(a) ==
    /\ creator[a] = "insert"
    /\ IF SessionOf[a] \in sessions THEN Fault ELSE UNCHANGED faults
    /\ Creator(a, "failed")
    /\ UNCHANGED <<sessions, row, lock, object, uploads, deletions>>

InsertRefused(a) ==
    /\ creator[a] = "insert"
    /\ IF SessionOf[a] \in sessions THEN Fault ELSE UNCHANGED faults
    /\ Creator(a, "compensate")
    /\ UNCHANGED <<sessions, row, lock, object, uploads, deletions>>

Compensate(a) ==
    /\ creator[a] = "compensate"
    /\ SetObject(a, NoObject)
    /\ Creator(a, "failed")
    /\ UNCHANGED <<sessions, row, lock, uploads, deletions, faults>>

\* The process dies, or the put or the compensating delete raises.
CreateCrashes(a) ==
    /\ creator[a] \in {"put", "insert", "compensate"}
    /\ Fault
    /\ Creator(a, "crashed")
    /\ UNCHANGED <<sessions, row, lock, object, uploads, deletions>>

-----------------------------------------------------------------------------
(* Uploads: a pending row, the client's object, the check of its size.     *)

\* reserve_artifact, and the URL or the upload's identifier; either call may
\* raise and leave the row without one.
Reserve(a, way, granted) ==
    /\ creator[a] = "unused" /\ way \in WaysOf[a]
    /\ SessionOf[a] \in sessions
    /\ WriteRow(a, NewRow("pending"))
    /\ Creator(a, way)
    /\ grant' = [grant EXCEPT ![a] = IF ~ granted THEN "none"
                                     ELSE IF way = "presigned" THEN "put" ELSE "parts"]
    /\ UNCHANGED <<sessions, lock, object, completer, deletions, faults>>

\* The client puts an object of any size under the key, as often as it likes
\* while the URL is good: whether or not a request completes the upload, and
\* after it was told "complete".
Upload(a, size) ==
    /\ grant[a] = "put"
    /\ SetObject(a, size)
    /\ UNCHANGED <<sessions, row, lock, creator, uploads, deletions, faults>>

\* A presigned URL is good for fifteen minutes; the bucket aborts an upload
\* in parts after some days.
Lapse(a) ==
    /\ grant[a] # "none"
    /\ grant' = [grant EXCEPT ![a] = "none"]
    /\ UNCHANGED <<sessions, row, lock, object, creator, completer, deletions, faults>>

\* Mutant of CompleteRead: an upload in parts is not measured.
CompleteReadParts(a, parts) ==
    /\ completer[a] = "idle"
    /\ Exists(a)
    /\ Completer(a, IF parts THEN "assemble"
                    ELSE IF creator[a] = "presigned" THEN "size" ELSE "update")
    /\ UNCHANGED <<sessions, row, lock, object, creator, grant, deletions, faults>>

\* complete_upload, of any artifact and as often as a client calls it, with
\* the identifier of an upload in parts or without.
CompleteRead(a, parts) ==
    /\ completer[a] = "idle"
    /\ Exists(a)
    /\ Completer(a, IF parts THEN "assemble"
                    ELSE IF creator[a] \in Reserved THEN "size" ELSE "update")
    /\ UNCHANGED <<sessions, row, lock, object, creator, grant, deletions, faults>>

\* complete_multipart makes the object of the parts.
Assemble(a, size) ==
    /\ completer[a] = "assemble"
    /\ grant[a] = "parts"
    /\ SetObject(a, size)
    /\ grant' = [grant EXCEPT ![a] = "none"]
    /\ Completer(a, "size")
    /\ UNCHANGED <<sessions, row, lock, creator, deletions, faults>>

\* There is no such upload, or not any more.
AssembleRefused(a) ==
    /\ completer[a] = "assemble"
    /\ grant[a] # "parts"
    /\ Completer(a, "idle")
    /\ UNCHANGED <<sessions, row, lock, object, creator, grant, deletions, faults>>

\* Mutant of CheckSize: an object is enough.
CheckObject(a) ==
    /\ completer[a] = "size"
    /\ Completer(a, IF object[a] # NoObject THEN "update" ELSE "idle")
    /\ UNCHANGED <<sessions, row, lock, object, creator, grant, deletions, faults>>

CheckSize(a) ==
    /\ completer[a] = "size"
    /\ Completer(a, IF object[a] = "whole" THEN "update" ELSE "idle")
    /\ UNCHANGED <<sessions, row, lock, object, creator, grant, deletions, faults>>

\* UPDATE waits for the row and finds it, or not any more.
MarkComplete(a) ==
    /\ completer[a] = "update"
    /\ lock[a] = Nobody
    /\ WriteRow(a, IF Exists(a) THEN [row[a] EXCEPT !.upload = "complete"] ELSE Absent)
    /\ Completer(a, "idle")
    /\ UNCHANGED <<sessions, lock, object, creator, grant, deletions, faults>>

\* The request fails: the client may call again.
CompleteFails(a) ==
    /\ completer[a] # "idle"
    /\ Fault
    /\ Completer(a, "idle")
    /\ UNCHANGED <<sessions, row, lock, object, creator, grant, deletions>>

-----------------------------------------------------------------------------
(* Retention.                                                              *)

\* Mutant of Pin: a row that is gone is pinned, too.
PinBlindly(a, pinned) ==
    /\ lock[a] = Nobody
    /\ WriteRow(a, [row[a] EXCEPT !.pinned = pinned])
    /\ UNCHANGED <<sessions, lock, object, creator, uploads, deletions, faults>>

\* The UPDATE waits for the row and finds it, or not any more.
Pin(a, pinned) ==
    /\ Exists(a)
    /\ lock[a] = Nobody
    /\ WriteRow(a, [row[a] EXCEPT !.pinned = pinned])
    /\ UNCHANGED <<sessions, lock, object, creator, uploads, deletions, faults>>

\* expires_at passes, 30 or 180 days after the creation: long after what the
\* client was granted has lapsed.
Expire(a) ==
    /\ Exists(a)
    /\ grant[a] = "none" /\ completer[a] = "idle"
    /\ WriteRow(a, [row[a] EXCEPT !.expired = TRUE])
    /\ UNCHANGED <<sessions, lock, object, creator, uploads, deletions, faults>>

Expired == {a \in Artifacts : row[a].expired /\ ~ row[a].pinned /\ lock[a] = Nobody}
Held(as, p) == lock' = [a \in Artifacts |-> IF a \in as THEN p ELSE lock[a]]
Deleting(as) == [pc |-> "objects", locked |-> as, todo |-> as]

\* Mutants of SweepSelect: the rows are not locked; uploads are left out.
SweepSelectUnlocked(s) ==
    /\ sweeper[s] = NoDeletion
    /\ Expired # {}
    /\ sweeper' = [sweeper EXCEPT ![s] = Deleting(Expired)]
    /\ UNCHANGED <<sessions, row, lock, object, creator, uploads, deleter, faults>>
SweepSelectUploaded(s) ==
    LET found == {a \in Expired : row[a].upload # "pending"} IN
    /\ sweeper[s] = NoDeletion
    /\ found # {}
    /\ Held(found, s)
    /\ sweeper' = [sweeper EXCEPT ![s] = Deleting(found)]
    /\ UNCHANGED <<sessions, row, object, creator, uploads, deleter, faults>>

\* SELECT ... FOR UPDATE SKIP LOCKED.
SweepSelect(s) ==
    /\ sweeper[s] = NoDeletion
    /\ Expired # {}
    /\ Held(Expired, s)
    /\ sweeper' = [sweeper EXCEPT ![s] = Deleting(Expired)]
    /\ UNCHANGED <<sessions, row, object, creator, uploads, deleter, faults>>

\* The transaction tx once the object of a is deleted.
HavingDeleted(tx, a) ==
    [tx EXCEPT !.todo = tx.todo \ {a},
               !.pc = IF tx.todo = {a} THEN "rows" ELSE "objects"]

SweepObject(s, a) ==
    /\ sweeper[s].pc = "objects"
    /\ a \in sweeper[s].todo
    /\ SetObject(a, NoObject)
    /\ sweeper' = [sweeper EXCEPT ![s] = HavingDeleted(sweeper[s], a)]
    /\ UNCHANGED <<sessions, row, lock, creator, uploads, deleter, faults>>

SweepRows(s) ==
    /\ sweeper[s].pc = "rows"
    /\ row' = [a \in Artifacts |-> IF a \in sweeper[s].locked THEN Absent ELSE row[a]]
    /\ Held(sweeper[s].locked, Nobody)
    /\ sweeper' = [sweeper EXCEPT ![s] = NoDeletion]
    /\ UNCHANGED <<sessions, object, creator, uploads, deleter, faults>>

\* Either store raises or the worker dies: the transaction is rolled back,
\* the objects that are deleted stay deleted.
SweepFails(s) ==
    /\ sweeper[s] # NoDeletion
    /\ Fault
    /\ Held(sweeper[s].locked, Nobody)
    /\ sweeper' = [sweeper EXCEPT ![s] = NoDeletion]
    /\ UNCHANGED <<sessions, row, object, creator, uploads, deleter>>

-----------------------------------------------------------------------------
(* delete_session.                                                         *)

RowsOf(s) == {a \in Artifacts : SessionOf[a] = s /\ Exists(a)}
Tx(d, tx) == deleter' = [deleter EXCEPT ![d].tx = tx]

\* SELECT ... FOR UPDATE waits for the rows others hold.
DeleteSelect(d) ==
    LET found == RowsOf(deleter[d].session) IN
    /\ deleter[d].tx = NoDeletion
    /\ deleter[d].session \in sessions
    /\ \A a \in found : lock[a] = Nobody
    /\ Held(found, d)
    /\ Tx(d, [Deleting(found) EXCEPT !.pc = IF found = {} THEN "rows" ELSE "objects"])
    /\ UNCHANGED <<sessions, row, object, creator, uploads, sweeper, faults>>

DeleteObject(d, a) ==
    /\ deleter[d].tx.pc = "objects"
    /\ a \in deleter[d].tx.todo
    /\ SetObject(a, NoObject)
    /\ Tx(d, HavingDeleted(deleter[d].tx, a))
    /\ UNCHANGED <<sessions, row, lock, creator, uploads, sweeper, faults>>

\* DELETE FROM sessions cascades to the rows there are by now.
DeleteRows(d) ==
    /\ deleter[d].tx.pc = "rows"
    /\ \A a \in RowsOf(deleter[d].session) : lock[a] \in {Nobody, d}
    /\ sessions' = sessions \ {deleter[d].session}
    /\ row' = [a \in Artifacts |-> IF SessionOf[a] = deleter[d].session THEN Absent
                                   ELSE row[a]]
    /\ Held(deleter[d].tx.locked, Nobody)
    /\ Tx(d, NoDeletion)
    /\ UNCHANGED <<object, creator, uploads, sweeper, faults>>

DeleteFails(d) ==
    /\ deleter[d].tx # NoDeletion
    /\ Fault
    /\ Held(deleter[d].tx.locked, Nobody)
    /\ Tx(d, NoDeletion)
    /\ UNCHANGED <<sessions, row, object, creator, uploads, sweeper>>

-----------------------------------------------------------------------------
CreateStep(a) == PutObject(a) \/ Insert(a) \/ InsertRefused(a) \/ Compensate(a)
SweepStep(s) == (\E a \in Artifacts : SweepObject(s, a)) \/ SweepRows(s)
DeleteStep(d) == (\E a \in Artifacts : DeleteObject(d, a)) \/ DeleteRows(d)

StoreNext ==
    \/ \E a \in Artifacts :
         \/ CreateRead(a) \/ CreateStep(a) \/ CreateCrashes(a)
         \/ \E way \in Reserved, granted \in BOOLEAN : Reserve(a, way, granted)
         \/ \E size \in Size : Upload(a, size) \/ Assemble(a, size)
         \/ \E parts \in BOOLEAN : CompleteRead(a, parts)
         \/ Lapse(a) \/ AssembleRefused(a) \/ CheckSize(a) \/ MarkComplete(a) \/ CompleteFails(a)
         \/ \E pinned \in BOOLEAN : Pin(a, pinned)
         \/ Expire(a)
    \/ \E s \in Sweepers : SweepSelect(s) \/ SweepStep(s) \/ SweepFails(s)
    \/ \E d \in Deleters : DeleteSelect(d) \/ DeleteStep(d) \/ DeleteFails(d)

StoreSpec == StoreInit /\ [][StoreNext]_storeVars

\* A transaction under way goes on; nothing is owed to the requests of the
\* clients, nor to the start of a sweep: the beat publishes one every hour to
\* Celery's default queue, which the worker of docker-compose.yml (-Q jobs)
\* does not consume.
StoreFairness ==
    /\ \A s \in Sweepers : WF_storeVars(SweepStep(s))
    /\ \A d \in Deleters : WF_storeVars(DeleteStep(d))

FairStoreSpec == StoreSpec /\ StoreFairness

-----------------------------------------------------------------------------
(* Properties.                                                             *)

\* An object without a row is in the hands of the request that creates it,
\* or was left by one that crashed, as long as its session exists: neither
\* a refused row nor a sweep, finished or failed, leaves one behind.
ObjectsHaveRows ==
    \A a \in Artifacts : object[a] # NoObject /\ ~ Exists(a) =>
        \/ creator[a] \in {"insert", "compensate", "crashed"}
        \/ SessionOf[a] \notin sessions

\* No step but the deletion of its session takes the row or the content of
\* an artifact that is pinned, whatever sweep is under way when it is pinned.
PinnedIsKept ==
    [][\A a \in Artifacts :
         row[a].pinned /\ (row'[a] = Absent \/ (object[a] # NoObject /\ object'[a] = NoObject))
           => \E d \in Deleters : deleter[d].tx # NoDeletion
                                  /\ deleter[d].session = SessionOf[a]]_storeVars

\* An upload in parts that is marked complete has the size that was reserved,
\* and keeps it: what was assembled cannot be written any more, so that the
\* mark may come long after the check, of another request even.
AssembledIsWhole ==
    \A a \in Artifacts :
        row[a].upload = "complete" /\ creator[a] # "presigned" => object[a] # "other"

\* What has expired and is not pinned is swept in the end, if only sweeps are
\* started whenever there is something to sweep: not those that skipped its
\* locked row nor one that failed half way leave it behind for good.
ExpiredIsSwept ==
    \A a \in Artifacts :
        (row[a].expired /\ ~ row[a].pinned) ~> (~ Exists(a) \/ row[a].pinned)
SweepsReachAll == (\A s \in Sweepers : WF_storeVars(SweepSelect(s))) => ExpiredIsSwept

-----------------------------------------------------------------------------
(* What the source says and the code does not do.                          *)

\* "Uploaded object size does not match reservation" refuses to complete an
\* upload (main.py:245): one that is marked complete has the reserved size.
CompleteIsWhole ==
    \A a \in Artifacts : row[a].upload = "complete" => object[a] # "other"

=============================================================================
