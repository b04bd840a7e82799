------------------------- MODULE ArtifactStoreProofs -------------------------
(***************************************************************************)
(* Theorems about ArtifactStore, for every set of sessions, artifacts,     *)
(* sweeps and deletions and every number of faults: rows and objects stay  *)
(* together, what is assembled is whole, and what is pinned is kept.       *)
(***************************************************************************)
EXTENDS ArtifactStore, TLAPS

-----------------------------------------------------------------------------
(* The inductive invariant.                                                *)

\* A row comes from a request that is over; once it has expired nobody may
\* write its object any more; and what was granted for a row that is gone was
\* granted in a session that is gone.
RowInv == \A a \in Artifacts :
    /\ Exists(a) => creator[a] \in Ways
    /\ row[a].expired => grant[a] = "none"
    /\ grant[a] # "none" /\ ~ Exists(a) => SessionOf[a] \notin sessions

\* A sweep holds the rows it has selected, which are expired and not pinned,
\* and what it has not still to delete is deleted.
SweepInv == \A s \in Sweepers :
    /\ sweeper[s].todo \subseteq sweeper[s].locked
    /\ sweeper[s].pc = "rows" => sweeper[s].todo = {}
    /\ \A a \in sweeper[s].locked :
         /\ lock[a] = s
         /\ row[a].expired /\ ~ row[a].pinned
         /\ a \notin sweeper[s].todo => object[a] = NoObject

\* The deletion of a session holds rows of that session.
DeleteInv == \A d \in Deleters :
    /\ deleter[d].tx.todo \subseteq deleter[d].tx.locked
    /\ \A a \in deleter[d].tx.locked : lock[a] = d /\ SessionOf[a] = deleter[d].session

\* Only what was reserved may be written by its client; parts are assembled
\* once, before the check that precedes the mark.
UploadInv == \A a \in Artifacts :
    /\ creator[a] = "unused" => object[a] = NoObject /\ completer[a] = "idle"
    /\ creator[a] \notin Reserved => grant[a] = "none" /\ object[a] # "other"
    /\ grant[a] = "put" => creator[a] = "presigned"
    /\ grant[a] = "parts" =>
         /\ object[a] = NoObject
         /\ completer[a] # "update" /\ row[a].upload # "complete"
    /\ completer[a] = "update" /\ creator[a] # "presigned" => object[a] # "other"

IInv == /\ StoreTypeOK /\ RowInv /\ SweepInv /\ DeleteInv /\ UploadInv
        /\ ObjectsHaveRows /\ AssembledIsWhole

-----------------------------------------------------------------------------
(* Lemmas about the transactions.                                          *)

\* A deletion stays one when an object of it is deleted.
LEMMA HavingDeletedType ==
    ASSUME NEW tx \in Deletion, NEW a
    PROVE  HavingDeleted(tx, a) \in Deletion
  BY DEF HavingDeleted, Deletion

\* A deletion starts with its objects, or with its rows if there are none.
LEMMA DeletingType ==
    ASSUME NEW as \in SUBSET Artifacts, NEW pc \in {"objects", "rows"}
    PROVE  [Deleting(as) EXCEPT !.pc = pc] \in Deletion
  BY DEF Deleting, Deletion

\* A request's record stays one when its transaction changes.
LEMMA TxType ==
    ASSUME StoreTypeOK, NEW d \in Deleters, NEW tx \in Deletion \cup {NoDeletion}, Tx(d, tx)
    PROVE  deleter' \in [Deleters -> [session : Sessions, tx : Deletion \cup {NoDeletion}]]
  BY DEF StoreTypeOK, Tx

-----------------------------------------------------------------------------
(* Every action keeps the invariant.                                       *)

\* Nobody else has the key, and there is no row yet.
LEMMA CreateReadKeeps ==
    ASSUME IInv, NEW a \in Artifacts, CreateRead(a)
    PROVE  IInv'
  <1>. USE StoreAssumption DEF IInv
  <1>. USE DEF CreateRead, Creator, uploads, deletions
  <1>1. StoreTypeOK'
    BY DEF StoreTypeOK, CreatorPc, Ways, Reserved
  <1>2. RowInv'
    BY DEF RowInv, Ways, Reserved, Exists
  <1>3. SweepInv'
    BY DEF SweepInv, Row
  <1>4. DeleteInv'
    BY DEF DeleteInv
  <1>5. UploadInv' /\ AssembledIsWhole'
    BY DEF UploadInv, AssembledIsWhole, Reserved, StoreTypeOK
  <1>6. ObjectsHaveRows'
    BY DEF ObjectsHaveRows, RowInv, Exists
  <1>. QED  BY <1>1, <1>2, <1>3, <1>4, <1>5, <1>6

\* The object is in the hands of the request that put it.
LEMMA PutObjectKeeps ==
    ASSUME IInv, NEW a \in Artifacts, PutObject(a)
    PROVE  IInv'
  <1>. USE StoreAssumption DEF IInv
  <1>. USE DEF PutObject, SetObject, Creator, uploads, deletions
  <1>1. StoreTypeOK'
    BY DEF StoreTypeOK, Size, CreatorPc, Ways, Reserved
  <1>2. RowInv'
    BY DEF RowInv, Ways, Reserved, Exists, Absent
  <1>3. SweepInv'
    BY DEF SweepInv, RowInv, Row, Ways, Reserved, Exists, Absent
  <1>4. DeleteInv'
    BY DEF DeleteInv, StoreTypeOK
  <1>5. UploadInv' /\ AssembledIsWhole'
    BY DEF UploadInv, AssembledIsWhole, Reserved, StoreTypeOK
  <1>6. ObjectsHaveRows'
    BY DEF ObjectsHaveRows, RowInv, StoreTypeOK, Exists
  <1>. QED  BY <1>1, <1>2, <1>3, <1>4, <1>5, <1>6

\* The row is of a request that is over, and of an object that is whole.
LEMMA InsertKeeps ==
    ASSUME IInv, NEW a \in Artifacts, Insert(a)
    PROVE  IInv'
  <1>. USE StoreAssumption DEF IInv
  <1>. USE DEF Insert, WriteRow, Creator, uploads, deletions
  <1>1. StoreTypeOK'
    BY DEF StoreTypeOK, Row, NewRow, CreatorPc, Ways, Reserved
  <1>2. RowInv'
    BY DEF RowInv, Ways, Reserved, StoreTypeOK, Exists
  <1>3. SweepInv'
    BY DEF SweepInv, RowInv, Row, Ways, Reserved, Exists, Absent
  <1>4. DeleteInv'
    BY DEF DeleteInv, StoreTypeOK
  <1>5. UploadInv' /\ AssembledIsWhole'
    BY DEF UploadInv, AssembledIsWhole, Reserved, StoreTypeOK, NewRow
  <1>6. ObjectsHaveRows'
    BY DEF ObjectsHaveRows, RowInv, StoreTypeOK, Exists, Absent, NewRow
  <1>. QED  BY <1>1, <1>2, <1>3, <1>4, <1>5, <1>6

\* The object stays with the request, which goes on to compensate.
LEMMA InsertRefusedKeeps ==
    ASSUME IInv, NEW a \in Artifacts, InsertRefused(a)
    PROVE  IInv'
  <1>. USE StoreAssumption DEF IInv
  <1>. USE DEF InsertRefused, Fault, Creator, uploads, deletions
  <1>1. StoreTypeOK'
    BY DEF StoreTypeOK, CreatorPc, Ways, Reserved
  <1>2. RowInv'
    BY DEF RowInv, Ways, Reserved, Exists
  <1>3. SweepInv'
    BY DEF SweepInv, Row
  <1>4. DeleteInv'
    BY DEF DeleteInv
  <1>5. UploadInv' /\ AssembledIsWhole'
    BY DEF UploadInv, AssembledIsWhole, Reserved, StoreTypeOK
  <1>6. ObjectsHaveRows'
    BY DEF ObjectsHaveRows, RowInv, Exists
  <1>. QED  BY <1>1, <1>2, <1>3, <1>4, <1>5, <1>6

\* The object of a request that compensates has no row.
LEMMA CompensateKeeps ==
    ASSUME IInv, NEW a \in Artifacts, Compensate(a)
    PROVE  IInv'
  <1>. USE StoreAssumption DEF IInv
  <1>. USE DEF Compensate, SetObject, Creator, uploads, deletions
  <1>1. StoreTypeOK'
    BY DEF StoreTypeOK, CreatorPc, Ways, Reserved
  <1>2. RowInv'
    BY DEF RowInv, Ways, Reserved, Exists
  <1>3. SweepInv'
    BY DEF SweepInv, Row
  <1>4. DeleteInv'
    BY DEF DeleteInv
  <1>5. UploadInv' /\ AssembledIsWhole'
    BY DEF UploadInv, AssembledIsWhole, Reserved, StoreTypeOK, NoObject
  <1>6. ObjectsHaveRows'
    BY DEF ObjectsHaveRows, RowInv, StoreTypeOK, Exists, NoObject
  <1>. QED  BY <1>1, <1>2, <1>3, <1>4, <1>5, <1>6

\* What a crash leaves behind is named by ObjectsHaveRows.
LEMMA CreateCrashesKeeps ==
    ASSUME IInv, NEW a \in Artifacts, CreateCrashes(a)
    PROVE  IInv'
  <1>. USE StoreAssumption DEF IInv
  <1>. USE DEF CreateCrashes, Fault, Creator, uploads, deletions
  <1>1. StoreTypeOK'
    BY DEF StoreTypeOK, CreatorPc, Ways, Reserved
  <1>2. RowInv'
    BY DEF RowInv, Ways, Reserved, Exists
  <1>3. SweepInv'
    BY DEF SweepInv, Row
  <1>4. DeleteInv'
    BY DEF DeleteInv
  <1>5. UploadInv' /\ AssembledIsWhole'
    BY DEF UploadInv, AssembledIsWhole, Reserved, StoreTypeOK
  <1>6. ObjectsHaveRows'
    BY DEF ObjectsHaveRows, RowInv, Exists
  <1>. QED  BY <1>1, <1>2, <1>3, <1>4, <1>5, <1>6

\* A pending row has no object yet, and a grant to make one.
LEMMA ReserveKeeps ==
    ASSUME IInv, NEW a \in Artifacts, NEW way \in Reserved, NEW granted \in BOOLEAN,
           Reserve(a, way, granted)
    PROVE  IInv'
  <1>. USE StoreAssumption DEF IInv
  <1>. USE DEF Reserve, WriteRow, Creator, deletions
  <1>1. StoreTypeOK'
    BY DEF StoreTypeOK, Row, NewRow, CreatorPc, Ways, Reserved
  <1>2. RowInv'
    BY DEF RowInv, Ways, Reserved, StoreTypeOK, Exists, Absent, NewRow
  <1>3. SweepInv'
    BY DEF SweepInv, RowInv, Row, Ways, Reserved, Exists, Absent
  <1>4. DeleteInv'
    BY DEF DeleteInv, StoreTypeOK
  <1>5. UploadInv' /\ AssembledIsWhole'
    BY DEF UploadInv, AssembledIsWhole, Reserved, StoreTypeOK, NewRow
  <1>6. ObjectsHaveRows'
    BY DEF ObjectsHaveRows, RowInv, StoreTypeOK, Reserved, Exists, Absent, NewRow
  <1>. QED  BY <1>1, <1>2, <1>3, <1>4, <1>5, <1>6

\* A grant is for a row that has not expired, or whose session is gone.
LEMMA UploadKeeps ==
    ASSUME IInv, NEW a \in Artifacts, NEW size \in Size, Upload(a, size)
    PROVE  IInv'
  <1>. USE StoreAssumption DEF IInv
  <1>. USE DEF Upload, SetObject, uploads, deletions
  <1>1. StoreTypeOK'
    BY DEF StoreTypeOK
  <1>2. RowInv'
    BY DEF RowInv, Ways, Reserved, Exists
  <1>3. SweepInv'
    BY DEF SweepInv, RowInv, Row
  <1>4. DeleteInv'
    BY DEF DeleteInv, StoreTypeOK
  <1>5. UploadInv' /\ AssembledIsWhole'
    BY DEF UploadInv, AssembledIsWhole, Reserved, StoreTypeOK
  <1>6. ObjectsHaveRows'
    BY DEF ObjectsHaveRows, RowInv, Exists
  <1>. QED  BY <1>1, <1>2, <1>3, <1>4, <1>5, <1>6

\* The parts are granted as a presigned URL is: the object has a row, or no session.
LEMMA AssembleKeeps ==
    ASSUME IInv, NEW a \in Artifacts, NEW size \in Size, Assemble(a, size)
    PROVE  IInv'
  <1>. USE StoreAssumption DEF IInv
  <1>. USE DEF Assemble, SetObject, Completer, deletions
  <1>1. StoreTypeOK'
    BY DEF StoreTypeOK
  <1>2. RowInv'
    BY DEF RowInv, Ways, Reserved, Exists
  <1>3. SweepInv'
    BY DEF SweepInv, RowInv, Row
  <1>4. DeleteInv'
    BY DEF DeleteInv, StoreTypeOK
  <1>5. UploadInv' /\ AssembledIsWhole'
    BY DEF UploadInv, AssembledIsWhole, Reserved, StoreTypeOK
  <1>6. ObjectsHaveRows'
    BY DEF ObjectsHaveRows, RowInv, Exists
  <1>. QED  BY <1>1, <1>2, <1>3, <1>4, <1>5, <1>6

\* There is less to write.
LEMMA LapseKeeps ==
    ASSUME IInv, NEW a \in Artifacts, Lapse(a)
    PROVE  IInv'
  <1>. USE StoreAssumption DEF IInv
  <1>. USE DEF Lapse, deletions
  <1>1. StoreTypeOK'
    BY DEF StoreTypeOK
  <1>2. RowInv'
    BY DEF RowInv, Ways, Reserved, Exists
  <1>3. SweepInv'
    BY DEF SweepInv, Row
  <1>4. DeleteInv'
    BY DEF DeleteInv
  <1>5. UploadInv' /\ AssembledIsWhole'
    BY DEF UploadInv, AssembledIsWhole, Reserved, StoreTypeOK
  <1>6. ObjectsHaveRows'
    BY DEF ObjectsHaveRows, RowInv, Exists
  <1>. QED  BY <1>1, <1>2, <1>3, <1>4, <1>5, <1>6

\* An artifact that has no expected size was made whole.
LEMMA CompleteReadKeeps ==
    ASSUME IInv, NEW a \in Artifacts, NEW parts \in BOOLEAN, CompleteRead(a, parts)
    PROVE  IInv'
  <1>. USE StoreAssumption DEF IInv
  <1>. USE DEF CompleteRead, Completer, deletions
  <1>1. StoreTypeOK'
    BY DEF StoreTypeOK
  <1>2. RowInv'
    BY DEF RowInv, Ways, Reserved, Exists
  <1>3. SweepInv'
    BY DEF SweepInv, Row
  <1>4. DeleteInv'
    BY DEF DeleteInv
  <1>5. UploadInv' /\ AssembledIsWhole'
    BY DEF UploadInv, AssembledIsWhole, RowInv, Ways, Reserved, StoreTypeOK
  <1>6. ObjectsHaveRows'
    BY DEF ObjectsHaveRows, RowInv, Exists
  <1>. QED  BY <1>1, <1>2, <1>3, <1>4, <1>5, <1>6

\* The request is over.
LEMMA AssembleRefusedKeeps ==
    ASSUME IInv, NEW a \in Artifacts, AssembleRefused(a)
    PROVE  IInv'
  <1>. USE StoreAssumption DEF IInv
  <1>. USE DEF AssembleRefused, Completer, deletions
  <1>1. StoreTypeOK'
    BY DEF StoreTypeOK
  <1>2. RowInv'
    BY DEF RowInv, Ways, Reserved, Exists
  <1>3. SweepInv'
    BY DEF SweepInv, Row
  <1>4. DeleteInv'
    BY DEF DeleteInv
  <1>5. UploadInv' /\ AssembledIsWhole'
    BY DEF UploadInv, AssembledIsWhole, Reserved, StoreTypeOK
  <1>6. ObjectsHaveRows'
    BY DEF ObjectsHaveRows, RowInv, Exists
  <1>. QED  BY <1>1, <1>2, <1>3, <1>4, <1>5, <1>6

\* Parts that are not assembled have no object to check; what is assembled
\* nobody writes any more.
LEMMA CheckSizeKeeps ==
    ASSUME IInv, NEW a \in Artifacts, CheckSize(a)
    PROVE  IInv'
  <1>. USE StoreAssumption DEF IInv
  <1>. USE DEF CheckSize, Completer, deletions
  <1>1. StoreTypeOK'
    BY DEF StoreTypeOK
  <1>2. RowInv'
    BY DEF RowInv, Ways, Reserved, Exists
  <1>3. SweepInv'
    BY DEF SweepInv, Row
  <1>4. DeleteInv'
    BY DEF DeleteInv
  <1>5. UploadInv' /\ AssembledIsWhole'
    BY DEF UploadInv, AssembledIsWhole, Reserved, StoreTypeOK, NoObject
  <1>6. ObjectsHaveRows'
    BY DEF ObjectsHaveRows, RowInv, Exists
  <1>. QED  BY <1>1, <1>2, <1>3, <1>4, <1>5, <1>6

\* The object is the one whose size was checked, or none, unless the client
\* may put another.
LEMMA MarkCompleteKeeps ==
    ASSUME IInv, NEW a \in Artifacts, MarkComplete(a)
    PROVE  IInv'
  <1>. USE StoreAssumption DEF IInv
  <1>. USE DEF MarkComplete, WriteRow, Completer, deletions
  <1>1. StoreTypeOK'
    <2>1. row[a] \in Row \cup {Absent}
      BY DEF StoreTypeOK
    <2>2. row'[a] \in Row \cup {Absent}
      BY <2>1 DEF StoreTypeOK, Row, Exists
    <2>3. row' \in [Artifacts -> Row \cup {Absent}]
      BY <2>2 DEF StoreTypeOK
    <2>. QED  BY <2>3 DEF StoreTypeOK
  <1>2. RowInv'
    BY DEF RowInv, Ways, Reserved, Exists, Absent
  <1>3. SweepInv'
    BY DEF SweepInv, Row, Exists
  <1>4. DeleteInv'
    BY DEF DeleteInv
  <1>5. UploadInv' /\ AssembledIsWhole'
    BY DEF UploadInv, AssembledIsWhole, Reserved, StoreTypeOK
  <1>6. ObjectsHaveRows'
    BY DEF ObjectsHaveRows, RowInv, StoreTypeOK, Exists, Absent
  <1>. QED  BY <1>1, <1>2, <1>3, <1>4, <1>5, <1>6

\* The request is over.
LEMMA CompleteFailsKeeps ==
    ASSUME IInv, NEW a \in Artifacts, CompleteFails(a)
    PROVE  IInv'
  <1>. USE StoreAssumption DEF IInv
  <1>. USE DEF CompleteFails, Fault, Completer, deletions
  <1>1. StoreTypeOK'
    BY DEF StoreTypeOK
  <1>2. RowInv'
    BY DEF RowInv, Ways, Reserved, Exists
  <1>3. SweepInv'
    BY DEF SweepInv, Row
  <1>4. DeleteInv'
    BY DEF DeleteInv
  <1>5. UploadInv' /\ AssembledIsWhole'
    BY DEF UploadInv, AssembledIsWhole, Reserved, StoreTypeOK
  <1>6. ObjectsHaveRows'
    BY DEF ObjectsHaveRows, RowInv, Exists
  <1>. QED  BY <1>1, <1>2, <1>3, <1>4, <1>5, <1>6

\* A row that a sweep holds is locked, so that it is not pinned meanwhile.
LEMMA PinKeeps ==
    ASSUME IInv, NEW a \in Artifacts, NEW pinned \in BOOLEAN, Pin(a, pinned)
    PROVE  IInv'
  <1>. USE StoreAssumption DEF IInv
  <1>. USE DEF Pin, WriteRow, uploads, deletions
  <1>1. StoreTypeOK'
    <2>1. row[a] \in Row \cup {Absent}
      BY DEF StoreTypeOK
    <2>2. row'[a] \in Row \cup {Absent}
      BY <2>1 DEF StoreTypeOK, Row, Exists
    <2>3. row' \in [Artifacts -> Row \cup {Absent}]
      BY <2>2 DEF StoreTypeOK
    <2>. QED  BY <2>3 DEF StoreTypeOK
  <1>2. RowInv'
    BY ZenonT(30) DEF RowInv, StoreTypeOK, Row, Exists, Absent
  <1>3. SweepInv'
    BY DEF SweepInv, RowInv, StoreTypeOK, Row, Exists
  <1>4. DeleteInv'
    BY DEF DeleteInv
  <1>5. UploadInv' /\ AssembledIsWhole'
    BY DEF UploadInv, AssembledIsWhole, Reserved, StoreTypeOK
  <1>6. ObjectsHaveRows'
    BY DEF ObjectsHaveRows, RowInv, StoreTypeOK, Row, Exists, Absent
  <1>. QED  BY <1>1, <1>2, <1>3, <1>4, <1>5, <1>6

\* Nobody may write the object of a row that expires.
LEMMA ExpireKeeps ==
    ASSUME IInv, NEW a \in Artifacts, Expire(a)
    PROVE  IInv'
  <1>. USE StoreAssumption DEF IInv
  <1>. USE DEF Expire, WriteRow, uploads, deletions
  <1>1. StoreTypeOK'
    <2>1. row[a] \in Row \cup {Absent}
      BY DEF StoreTypeOK
    <2>2. row'[a] \in Row \cup {Absent}
      BY <2>1 DEF StoreTypeOK, Row, Exists
    <2>3. row' \in [Artifacts -> Row \cup {Absent}]
      BY <2>2 DEF StoreTypeOK
    <2>. QED  BY <2>3 DEF StoreTypeOK
  <1>2. RowInv'
    BY DEF RowInv, Ways, Reserved, Exists
  <1>3. SweepInv'
    BY DEF SweepInv, Row
  <1>4. DeleteInv'
    BY DEF DeleteInv
  <1>5. UploadInv' /\ AssembledIsWhole'
    BY DEF UploadInv, AssembledIsWhole, Reserved, StoreTypeOK
  <1>6. ObjectsHaveRows'
    BY DEF ObjectsHaveRows, RowInv, Exists, Absent
  <1>. QED  BY <1>1, <1>2, <1>3, <1>4, <1>5, <1>6

\* The rows selected are expired, not pinned and held by nobody else.
LEMMA SweepSelectKeeps ==
    ASSUME IInv, NEW s \in Sweepers, SweepSelect(s)
    PROVE  IInv'
  <1>. USE StoreAssumption DEF IInv
  <1>. USE DEF SweepSelect, uploads, Held, Expired, Deleting
  <1>1. StoreTypeOK'
    BY DEF StoreTypeOK, Deletion
  <1>2. RowInv'
    BY DEF RowInv, Ways, Reserved, Exists
  <1>3. SweepInv'
    BY DEF SweepInv, StoreTypeOK, Row, Deletion
  <1>4. DeleteInv'
    BY DEF DeleteInv, StoreTypeOK, Deletion, NoDeletion
  <1>5. UploadInv' /\ AssembledIsWhole'
    BY DEF UploadInv, AssembledIsWhole, Reserved, StoreTypeOK, RowInv
  <1>6. ObjectsHaveRows'
    BY DEF ObjectsHaveRows, RowInv, Exists
  <1>. QED  BY <1>1, <1>2, <1>3, <1>4, <1>5, <1>6

\* The object deleted has its row still.
LEMMA SweepObjectKeeps ==
    ASSUME IInv, NEW s \in Sweepers, NEW a \in Artifacts, SweepObject(s, a)
    PROVE  IInv'
  <1>. USE StoreAssumption DEF IInv
  <1>. USE DEF SweepObject, SetObject, uploads, HavingDeleted
  <1>1. StoreTypeOK'
    <2>1. sweeper[s] \in Deletion
      BY DEF StoreTypeOK, NoDeletion
    <2>2. HavingDeleted(sweeper[s], a) \in Deletion
      BY <2>1, HavingDeletedType
    <2>3. sweeper' \in [Sweepers -> Deletion \cup {NoDeletion}]
      BY <2>2 DEF StoreTypeOK
    <2>. QED  BY <2>3 DEF StoreTypeOK, Size, NoObject
  <1>2. RowInv'
    BY DEF RowInv, Ways, Reserved, Exists
  <1>3. SweepInv'
    BY DEF SweepInv, StoreTypeOK, Row
  <1>4. DeleteInv'
    BY DEF DeleteInv, Deletion
  <1>5. UploadInv' /\ AssembledIsWhole'
    BY DEF UploadInv, AssembledIsWhole, Reserved, StoreTypeOK, NoObject
  <1>6. ObjectsHaveRows'
    BY DEF ObjectsHaveRows, RowInv, Exists, NoObject
  <1>. QED  BY <1>1, <1>2, <1>3, <1>4, <1>5, <1>6

\* Every object of the rows deleted is gone, and nobody may write another.
LEMMA SweepRowsKeeps ==
    ASSUME IInv, NEW s \in Sweepers, SweepRows(s)
    PROVE  IInv'
  <1>. USE StoreAssumption DEF IInv
  <1>. USE DEF SweepRows, uploads, Held
  <1>1. StoreTypeOK'
    BY DEF StoreTypeOK
  <1>2. RowInv'
    BY DEF RowInv, Ways, Reserved, Exists, SweepInv
  <1>3. SweepInv'
    BY DEF SweepInv, StoreTypeOK, Row, NewRow, Deletion, NoDeletion
  <1>4. DeleteInv'
    BY DEF DeleteInv, StoreTypeOK, Deletion, NoDeletion, SweepInv
  <1>5. UploadInv' /\ AssembledIsWhole'
    BY DEF UploadInv, AssembledIsWhole, Reserved, StoreTypeOK, RowInv, Row, Absent
  <1>6. ObjectsHaveRows'
    BY DEF ObjectsHaveRows, RowInv, SweepInv, Exists, Absent
  <1>. QED  BY <1>1, <1>2, <1>3, <1>4, <1>5, <1>6

\* The rows are released and stay, some of them without their objects.
LEMMA SweepFailsKeeps ==
    ASSUME IInv, NEW s \in Sweepers, SweepFails(s)
    PROVE  IInv'
  <1>. USE StoreAssumption DEF IInv
  <1>. USE DEF SweepFails, Fault, uploads, Held
  <1>1. StoreTypeOK'
    BY DEF StoreTypeOK
  <1>2. RowInv'
    BY DEF RowInv, Ways, Reserved, Exists
  <1>3. SweepInv'
    BY DEF SweepInv, StoreTypeOK, Row, Deletion, NoDeletion
  <1>4. DeleteInv'
    BY DEF DeleteInv, StoreTypeOK, Deletion, NoDeletion, SweepInv
  <1>5. UploadInv' /\ AssembledIsWhole'
    BY DEF UploadInv, AssembledIsWhole, Reserved, StoreTypeOK, RowInv, Row
  <1>6. ObjectsHaveRows'
    BY DEF ObjectsHaveRows, RowInv, Exists
  <1>. QED  BY <1>1, <1>2, <1>3, <1>4, <1>5, <1>6

\* The rows selected are of the session and held by nobody else.
LEMMA DeleteSelectKeeps ==
    ASSUME IInv, NEW d \in Deleters, DeleteSelect(d)
    PROVE  IInv'
  <1>. USE StoreAssumption DEF IInv
  <1>. USE DEF DeleteSelect, uploads, Held, Tx, Deleting, RowsOf
  <1>1. StoreTypeOK'
    <2>. DEFINE found == RowsOf(deleter[d].session)
                pc == IF found = {} THEN "rows" ELSE "objects"
                tx == [Deleting(found) EXCEPT !.pc = pc]
    <2>1. found \in SUBSET Artifacts /\ pc \in {"objects", "rows"}
      OBVIOUS
    <2>2. tx \in Deletion
      BY <2>1, DeletingType
    <2>3. Tx(d, tx)
      OBVIOUS
    <2>. HIDE DEF tx, pc, found
    <2>4. deleter' \in [Deleters -> [session : Sessions, tx : Deletion \cup {NoDeletion}]]
      BY <2>2, <2>3, TxType
    <2>. QED  BY <2>4 DEF StoreTypeOK
  <1>2. RowInv'
    BY DEF RowInv, Ways, Reserved, Exists
  <1>3. SweepInv'
    BY DEF SweepInv, StoreTypeOK, Row, Deletion, NoDeletion
  <1>4. DeleteInv'
    BY DEF DeleteInv, StoreTypeOK, Deletion
  <1>5. UploadInv' /\ AssembledIsWhole'
    BY DEF UploadInv, AssembledIsWhole, Reserved, StoreTypeOK, RowInv
  <1>6. ObjectsHaveRows'
    BY DEF ObjectsHaveRows, RowInv, Exists
  <1>. QED  BY <1>1, <1>2, <1>3, <1>4, <1>5, <1>6

\* The object deleted has its row still, or a session that goes.
LEMMA DeleteObjectKeeps ==
    ASSUME IInv, NEW d \in Deleters, NEW a \in Artifacts, DeleteObject(d, a)
    PROVE  IInv'
  <1>. USE StoreAssumption DEF IInv
  <1>. USE DEF DeleteObject, SetObject, uploads, Tx, HavingDeleted
  <1>1. StoreTypeOK'
    <2>1. deleter[d].tx \in Deletion
      BY DEF StoreTypeOK, NoDeletion
    <2>2. HavingDeleted(deleter[d].tx, a) \in Deletion
      BY <2>1, HavingDeletedType
    <2>3. deleter' \in [Deleters -> [session : Sessions, tx : Deletion \cup {NoDeletion}]]
      BY <2>2 DEF StoreTypeOK
    <2>. QED  BY <2>3 DEF StoreTypeOK, Size, NoObject
  <1>2. RowInv'
    BY DEF RowInv, Ways, Reserved, Exists
  <1>3. SweepInv'
    BY DEF SweepInv, Row
  <1>4. DeleteInv'
    BY DEF DeleteInv
  <1>5. UploadInv' /\ AssembledIsWhole'
    BY DEF UploadInv, AssembledIsWhole, Reserved, StoreTypeOK, NoObject
  <1>6. ObjectsHaveRows'
    BY DEF ObjectsHaveRows, RowInv, Exists, NoObject
  <1>. QED  BY <1>1, <1>2, <1>3, <1>4, <1>5, <1>6

\* The cascade takes rows of the session, which no sweep holds.
LEMMA DeleteRowsKeeps ==
    ASSUME IInv, NEW d \in Deleters, DeleteRows(d)
    PROVE  IInv'
  <1>. USE StoreAssumption DEF IInv
  <1>. USE DEF DeleteRows, uploads, Held, Tx, RowsOf
  <1>1. StoreTypeOK'
    BY DEF StoreTypeOK
  <1>2. RowInv'
    BY DEF RowInv, Ways, Reserved, Exists, Absent
  <1>3. SweepInv'
    <2>1. ASSUME NEW s \in Sweepers, NEW a \in sweeper[s].locked
          PROVE  lock'[a] = lock[a] /\ row'[a] = row[a]
      <3>1. a \in Artifacts
        BY <2>1 DEF StoreTypeOK, Deletion, NoDeletion
      <3>2. lock[a] = s /\ Exists(a)
        BY <2>1, <3>1 DEF SweepInv, Exists, Absent
      <3>3. a \notin deleter[d].tx.locked
        BY <2>1, <3>2 DEF DeleteInv
      <3>4. SessionOf[a] # deleter[d].session
        BY <2>1, <3>1, <3>2
      <3>. QED  BY <3>1, <3>3, <3>4
    <2>2. sweeper' = sweeper /\ object' = object
      OBVIOUS
    <2>. QED  BY ONLY <2>1, <2>2, SweepInv DEF SweepInv
  <1>4. DeleteInv'
    BY DEF DeleteInv, StoreTypeOK, Deletion, NoDeletion
  <1>5. UploadInv' /\ AssembledIsWhole'
    BY DEF UploadInv, AssembledIsWhole, Reserved, StoreTypeOK, RowInv, Absent
  <1>6. ObjectsHaveRows'
    BY DEF ObjectsHaveRows, RowInv, Exists, Absent
  <1>. QED  BY <1>1, <1>2, <1>3, <1>4, <1>5, <1>6

\* The rows are released and stay, some of them without their objects.
LEMMA DeleteFailsKeeps ==
    ASSUME IInv, NEW d \in Deleters, DeleteFails(d)
    PROVE  IInv'
  <1>. USE StoreAssumption DEF IInv
  <1>. USE DEF DeleteFails, Fault, uploads, Held, Tx
  <1>1. StoreTypeOK'
    <2>1. deleter[d].tx' \in Deletion \cup {NoDeletion}
      BY DEF StoreTypeOK
    <2>2. deleter' \in [Deleters -> [session : Sessions, tx : Deletion \cup {NoDeletion}]]
      BY <2>1 DEF StoreTypeOK
    <2>. QED  BY <2>2 DEF StoreTypeOK, Size, NoObject
  <1>2. RowInv'
    BY DEF RowInv, Ways, Reserved, Exists
  <1>3. SweepInv'
    <2>1. ASSUME NEW s \in Sweepers, NEW a \in sweeper[s].locked
          PROVE  lock'[a] = lock[a]
      <3>1. lock[a] = s /\ s # d /\ a \in Artifacts
        BY <2>1 DEF SweepInv, StoreTypeOK, Deletion, NoDeletion
      <3>. QED  BY <3>1 DEF DeleteInv
    <2>2. sweeper' = sweeper /\ object' = object /\ row' = row
      OBVIOUS
    <2>. QED  BY ONLY <2>1, <2>2, SweepInv DEF SweepInv
  <1>4. DeleteInv'
    BY DEF DeleteInv, StoreTypeOK, Deletion, NoDeletion
  <1>5. UploadInv' /\ AssembledIsWhole'
    BY DEF UploadInv, AssembledIsWhole, Reserved, StoreTypeOK, RowInv
  <1>6. ObjectsHaveRows'
    BY DEF ObjectsHaveRows, RowInv, Exists
  <1>. QED  BY <1>1, <1>2, <1>3, <1>4, <1>5, <1>6

-----------------------------------------------------------------------------
(* The invariant holds in every behaviour.                                 *)

\* There is no row, no object and no transaction.
LEMMA IInvInit == StoreInit => IInv
  <1>. SUFFICES ASSUME StoreInit PROVE IInv
    OBVIOUS
  <1>. USE StoreAssumption DEF StoreInit
  <1>1. StoreTypeOK
    BY DEF StoreTypeOK, NoObject, CreatorPc, Ways, Reserved
  <1>2. RowInv /\ UploadInv
    BY DEF RowInv, Ways, Reserved, UploadInv, Exists, Absent, NoObject
  <1>3. SweepInv /\ DeleteInv
    BY DEF SweepInv, DeleteInv, NoDeletion
  <1>4. ObjectsHaveRows /\ AssembledIsWhole
    BY DEF ObjectsHaveRows, AssembledIsWhole, Absent, NoObject
  <1>. QED  BY <1>1, <1>2, <1>3, <1>4 DEF IInv

\* Every disjunct of StoreNext is one of the actions above, or a choice of one.
LEMMA IInvNext == IInv /\ [StoreNext]_storeVars => IInv'
  <1>. SUFFICES ASSUME IInv, [StoreNext]_storeVars PROVE IInv'
    OBVIOUS
  <1>1. ASSUME NEW a \in Artifacts, CreateRead(a) \/ CreateStep(a) \/ CreateCrashes(a)
        PROVE  IInv'
    BY <1>1, CreateReadKeeps, PutObjectKeeps, InsertKeeps, InsertRefusedKeeps,
       CompensateKeeps, CreateCrashesKeeps DEF CreateStep
  <1>2. ASSUME NEW a \in Artifacts, NEW way \in Reserved, NEW granted \in BOOLEAN,
               Reserve(a, way, granted)
        PROVE  IInv'
    BY <1>2, ReserveKeeps
  <1>3. ASSUME NEW a \in Artifacts, NEW size \in Size, Upload(a, size) \/ Assemble(a, size)
        PROVE  IInv'
    BY <1>3, UploadKeeps, AssembleKeeps
  <1>4. ASSUME NEW a \in Artifacts,
               \/ \E parts \in BOOLEAN : CompleteRead(a, parts)
               \/ Lapse(a) \/ AssembleRefused(a) \/ CheckSize(a)
               \/ MarkComplete(a) \/ CompleteFails(a)
        PROVE  IInv'
    BY <1>4, LapseKeeps, CompleteReadKeeps, AssembleRefusedKeeps, CheckSizeKeeps,
       MarkCompleteKeeps, CompleteFailsKeeps
  <1>5. ASSUME NEW a \in Artifacts, NEW pinned \in BOOLEAN, Pin(a, pinned)
        PROVE  IInv'
    BY <1>5, PinKeeps
  <1>6. ASSUME NEW a \in Artifacts, Expire(a) PROVE IInv'
    BY <1>6, ExpireKeeps
  <1>7. ASSUME NEW s \in Sweepers, SweepSelect(s) \/ SweepStep(s) \/ SweepFails(s) PROVE IInv'
    BY <1>7, SweepSelectKeeps, SweepObjectKeeps, SweepRowsKeeps, SweepFailsKeeps DEF SweepStep
  <1>8. ASSUME NEW d \in Deleters, DeleteSelect(d) \/ DeleteStep(d) \/ DeleteFails(d)
        PROVE  IInv'
    BY <1>8, DeleteSelectKeeps, DeleteObjectKeeps, DeleteRowsKeeps, DeleteFailsKeeps
    DEF DeleteStep
  <1>9. CASE UNCHANGED storeVars
    BY <1>9 DEF storeVars, IInv, StoreTypeOK, RowInv, SweepInv, DeleteInv, UploadInv, ObjectsHaveRows,
                AssembledIsWhole, Exists
  <1>. QED  BY <1>1, <1>2, <1>3, <1>4, <1>5, <1>6, <1>7, <1>8, <1>9 DEF StoreNext

\* Every variable keeps its type, in every behaviour: a row lock has one holder
\* or none, and a deletion that has selected its rows is in one of its phases.
THEOREM StoreTypeCorrect == StoreSpec => []StoreTypeOK
  <1>1. IInv => StoreTypeOK
    BY DEF IInv
  <1>. QED  BY <1>1, IInvInit, IInvNext, PTL DEF StoreSpec

\* Whatever requests, sweeps, deletions, crashes and errors come together, an
\* object without a row is in the hands of the create_artifact that put it, or
\* was left by one that crashed, or its session is gone.
THEOREM ObjectsHaveRowsAlways == StoreSpec => []ObjectsHaveRows
  <1>1. IInv => ObjectsHaveRows
    BY DEF IInv
  <1>. QED  BY <1>1, IInvInit, IInvNext, PTL DEF StoreSpec

\* An upload in parts that complete_upload marks complete has, and keeps, the
\* size that was reserved, although the check of the size and the mark are two
\* calls and requests for it may come at any time, and be repeated: once the
\* parts are assembled the client can write no more.  (An object that is put
\* by a presigned URL can be put again, and the mark does not hold for it.)
THEOREM AssembledIsWholeAlways == StoreSpec => []AssembledIsWhole
  <1>1. IInv => AssembledIsWhole
    BY DEF IInv
  <1>. QED  BY <1>1, IInvInit, IInvNext, PTL DEF StoreSpec

-----------------------------------------------------------------------------
(* What is pinned is kept.                                                 *)

\* The step takes neither the row nor the object of a pinned artifact, unless
\* a deletion of its session is under way.
Kept == \A a \in Artifacts :
    row[a].pinned /\ (row'[a] = Absent \/ (object[a] # NoObject /\ object'[a] = NoObject))
      => \E d \in Deleters : deleter[d].tx # NoDeletion
                             /\ deleter[d].session = SessionOf[a]

\* A sweep deletes only what it holds, which is not pinned: Pin waits for it.
LEMMA SweepKeepsPinned ==
    ASSUME IInv, NEW s \in Sweepers, SweepSelect(s) \/ SweepStep(s) \/ SweepFails(s)
    PROVE  Kept
  <1>. USE DEF IInv
  <1>1. \A a \in sweeper[s].locked : a \in Artifacts /\ ~ row[a].pinned
    BY DEF StoreTypeOK, SweepInv, Deletion, NoDeletion
  <1>2. ASSUME NEW b \in Artifacts, SweepObject(s, b) PROVE Kept
    BY <1>1, <1>2 DEF SweepObject, SetObject, SweepInv, Kept, StoreTypeOK, Absent
  <1>3. CASE SweepRows(s)
    BY <1>1, <1>3 DEF SweepRows, Kept, StoreTypeOK, Absent
  <1>4. CASE SweepSelect(s) \/ SweepFails(s)
    BY <1>4 DEF SweepSelect, SweepFails, Kept, Absent
  <1>. QED  BY <1>2, <1>3, <1>4 DEF SweepStep

\* A deletion takes only what is in its session.
LEMMA DeleteKeepsPinned ==
    ASSUME IInv, NEW d \in Deleters, DeleteSelect(d) \/ DeleteStep(d) \/ DeleteFails(d)
    PROVE  Kept
  <1>. USE DEF IInv
  <1>1. ASSUME NEW b \in Artifacts, DeleteObject(d, b) PROVE Kept
    BY <1>1 DEF DeleteObject, SetObject, DeleteInv, Kept, StoreTypeOK, Absent, NoDeletion
  <1>2. CASE DeleteRows(d)
    BY <1>2 DEF DeleteRows, Kept, StoreTypeOK, Absent, NoDeletion
  <1>3. CASE DeleteSelect(d) \/ DeleteFails(d)
    BY <1>3 DEF DeleteSelect, DeleteFails, Kept, Absent
  <1>. QED  BY <1>1, <1>2, <1>3 DEF DeleteStep

\* Nobody else deletes a row, and only create_artifact deletes an object: one
\* whose row was refused, so that nobody has pinned it.
LEMMA RequestKeepsPinned ==
    ASSUME IInv, NEW a \in Artifacts,
           \/ CreateRead(a) \/ CreateStep(a) \/ CreateCrashes(a)
           \/ \E way \in Reserved, granted \in BOOLEAN : Reserve(a, way, granted)
           \/ \E size \in Size : Upload(a, size) \/ Assemble(a, size)
           \/ \E parts \in BOOLEAN : CompleteRead(a, parts)
           \/ Lapse(a) \/ AssembleRefused(a) \/ CheckSize(a) \/ MarkComplete(a)
           \/ CompleteFails(a)
           \/ \E pinned \in BOOLEAN : Pin(a, pinned)
           \/ Expire(a)
    PROVE  Kept
  <1>. USE DEF IInv, Kept
  <1>1. CASE row' = row /\ object' = object
    BY <1>1 DEF Absent
  <1>2. CASE Compensate(a)
    BY <1>2 DEF Compensate, SetObject, RowInv, Ways, Reserved, Exists, Absent
  <1>3. CASE PutObject(a) \/ \E size \in Size : Upload(a, size) \/ Assemble(a, size)
    BY <1>3 DEF PutObject, Upload, Assemble, SetObject, Size, NoObject, Absent, StoreTypeOK
  <1>4. CASE Insert(a) \/ \E way \in Reserved, granted \in BOOLEAN : Reserve(a, way, granted)
    BY <1>4, SMTT(30) DEF Insert, Reserve, WriteRow, NewRow, Absent, StoreTypeOK
  <1>5. CASE \E pinned \in BOOLEAN : Pin(a, pinned)
    BY <1>5 DEF Pin, WriteRow, Exists, Row, Absent, StoreTypeOK
  <1>6. CASE MarkComplete(a) \/ Expire(a)
    BY <1>6 DEF MarkComplete, Expire, WriteRow, Exists, Row, Absent, StoreTypeOK
  <1>. QED  BY <1>1, <1>2, <1>3, <1>4, <1>5, <1>6
            DEF CreateRead, CreateStep, InsertRefused, CreateCrashes, Lapse, CompleteRead,
                AssembleRefused, CheckSize, CompleteFails

\* No step but those of a deletion of its session takes the row or the content
\* of an artifact that is pinned, however the pin and the sweeps interleave:
\* the sweep holds the rows it has selected, and the pin waits for them.
THEOREM PinnedIsKeptAlways == StoreSpec => PinnedIsKept
  <1>1. IInv /\ [StoreNext]_storeVars => [Kept]_storeVars
    <2>. SUFFICES ASSUME IInv, StoreNext PROVE Kept
      OBVIOUS
    <2>. QED  BY RequestKeepsPinned, SweepKeepsPinned, DeleteKeepsPinned DEF StoreNext
  <1>2. PinnedIsKept <=> [][Kept]_storeVars
    BY DEF PinnedIsKept, Kept
  <1>. QED  BY <1>1, <1>2, IInvInit, IInvNext, PTL DEF StoreSpec

=============================================================================
