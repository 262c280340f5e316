------------------------- MODULE LedgerTransaction -------------------------
(***************************************************************************)
(* One step below OrderLedger: how execution/order_repository.py and       *)
(* idempotency.register write a row and its event through sqlite, whose    *)
(* every statement may fail, as may the rollback after it and the close    *)
(* after that.  Each process has one connection, shared by all it does;    *)
(* the database file has one write lock.                                   *)
(***************************************************************************)
EXTENDS Integers

CONSTANTS
  Procs,        \* processes with a connection
  Orders,
  MaxVersion,   \* model bound: rows are moved up to this version
  None

ASSUME TransactionAssumption ==
  /\ MaxVersion \in Nat /\ None \notin Procs /\ None \notin Orders

VARIABLES
  db,           \* db[o]: the committed row version, -1 if none, and events
  writer,       \* the connection that holds the write lock
  conn,         \* conn[p]: the connection of p
  call,         \* call[p]: the repository call p is in
  won           \* history: <<p, o, v>> if p was told that it moved o to v

vars == <<db, writer, conn, call, won>>

Entries == [version : -1 .. MaxVersion, events : SUBSET (0 .. MaxVersion)]
NoEntry == [version |-> -1, events |-> {}]
Tables == [Orders -> Entries]

EmptyDb == [o \in Orders |-> NoEntry]

\* usable: not invalidated.  txn: in_transaction, and whether it writes;
\* data: the tables as the write transaction leaves them.
FreshConn == [usable |-> TRUE, txn |-> "none", data |-> EmptyDb]
NoCall == [pc |-> "idle", order |-> None, held |-> -1, last |-> "none"]

Init ==
  /\ db = EmptyDb
  /\ writer = None
  /\ conn = [p \in Procs |-> FreshConn]
  /\ call = [p \in Procs |-> NoCall]
  /\ won = {}

-----------------------------------------------------------------------------
At(p, pc) == call[p].pc = pc
Goto(p, pc) == call' = [call EXCEPT ![p].pc = pc]
Return(p) == Goto(p, "idle")

\* What p reads: its own transaction if it writes, else what is committed.
View(p) == IF conn[p].txn = "write" THEN conn[p].data ELSE db

\* p's transaction goes on with the tables as data.
Writing(p, data) ==
  /\ writer' = p
  /\ conn' = [conn EXCEPT ![p] = [conn[p] EXCEPT !.txn = "write", !.data = data]]

NoTransaction(p) ==
  /\ writer' = IF writer = p THEN None ELSE writer
  /\ conn' = [conn EXCEPT ![p] = [conn[p] EXCEPT !.txn = "none", !.data = EmptyDb]]

\* The transaction ends, and what it wrote with it.
Discard(p) == NoTransaction(p) /\ UNCHANGED db
CommitOf(p) == db' = View(p) /\ NoTransaction(p)

\* A statement fails: sqlite may or may not have rolled back by itself.
Fails(p) == UNCHANGED <<db, writer, conn>> \/ Discard(p)

-----------------------------------------------------------------------------
(* idempotency.register: find_existing, INSERT, creation event, commit.    *)

Register(p, o) ==
  /\ At(p, "idle") /\ conn[p].usable
  /\ View(p)[o].version = -1
  /\ call' = [call EXCEPT ![p] = [pc |-> "insert", order |-> o, held |-> -1,
                                  last |-> "register"]]
  /\ UNCHANGED <<db, writer, conn, won>>

Insert(p) ==
  /\ At(p, "insert") /\ writer \in {None, p}
  /\ View(p)[call[p].order].version = -1
  /\ Writing(p, [View(p) EXCEPT ![call[p].order] = [version |-> 0, events |-> {}]])
  /\ Goto(p, "created")
  /\ UNCHANGED <<db, won>>

\* A UNIQUE constraint or another error; or the database is locked.  The
\* transaction the driver opened for the INSERT stays open, with the write
\* lock if it had been granted.
InsertRaises(p) ==
  /\ At(p, "insert") /\ Return(p)
  /\ \/ writer \in {None, p} /\ Writing(p, View(p))
     \/ /\ writer # p
        /\ conn' = [conn EXCEPT ![p].txn = "deferred"]
        /\ UNCHANGED writer
  /\ UNCHANGED <<db, won>>

CreationEvent(p) ==
  /\ At(p, "created")
  /\ LET o == call[p].order IN
     Writing(p, [conn[p].data EXCEPT ![o] = [version |-> conn[p].data[o].version,
                                             events  |-> {0}]])
  /\ Goto(p, "commitNew")
  /\ UNCHANGED <<db, won>>

CommitNew(p) ==
  /\ At(p, "commitNew") /\ Return(p)
  /\ CommitOf(p)
  /\ UNCHANGED won

\* append_creation_event or the commit raises; nothing rolls back.
RegisterRaises(p) ==
  /\ call[p].pc \in {"created", "commitNew"} /\ Return(p)
  /\ Fails(p)
  /\ UNCHANGED won

\* Another store of the process commits on the same connection.
OtherCommit(p) ==
  /\ At(p, "idle") /\ conn[p].txn # "none"
  /\ CommitOf(p)
  /\ UNCHANGED <<call, won>>

-----------------------------------------------------------------------------
(* order_repository.compare_and_set_state.                                 *)

\* The caller's record: the row as it was when it was loaded.
Load(p, o) ==
  /\ At(p, "idle") /\ conn[p].usable
  /\ View(p)[o].version \in 0 .. MaxVersion - 1
  /\ call' = [call EXCEPT ![p] = [pc |-> "begin", order |-> o,
                                  held |-> View(p)[o].version,
                                  last |-> call[p].last]]
  /\ UNCHANGED <<db, writer, conn, won>>

\* Variant: the connection need not be idle.
BeginAnyhow(p) ==
  /\ At(p, "begin") /\ writer \in {None, p}
  /\ Writing(p, View(p))
  /\ call' = [call EXCEPT ![p] = [call[p] EXCEPT !.pc = "update", !.last = "move"]]
  /\ UNCHANGED <<db, won>>

\* BEGIN IMMEDIATE, on an idle connection.
Begin(p) ==
  /\ At(p, "begin") /\ conn[p].txn = "none" /\ writer = None
  /\ Writing(p, db)
  /\ call' = [call EXCEPT ![p] = [call[p] EXCEPT !.pc = "update", !.last = "move"]]
  /\ UNCHANGED <<db, won>>

\* "requires an idle connection", or BEGIN itself fails.
BeginRaises(p) ==
  /\ At(p, "begin") /\ Return(p)
  /\ UNCHANGED <<db, writer, conn, won>>

\* Variant: the UPDATE does not ask for the version.
UpdateUnconditionally(p) ==
  /\ At(p, "update")
  /\ LET o == call[p].order IN
     Writing(p, [conn[p].data EXCEPT ![o] = [version |-> call[p].held + 1,
                                             events  |-> conn[p].data[o].events]])
  /\ Goto(p, "event")
  /\ UNCHANGED <<db, won>>

Update(p) ==
  /\ At(p, "update")
  /\ LET o == call[p].order IN
     /\ conn[p].data[o].version = call[p].held
     /\ Writing(p, [conn[p].data EXCEPT ![o] = [version |-> call[p].held + 1,
                                                events  |-> conn[p].data[o].events]])
  /\ Goto(p, "event")
  /\ UNCHANGED <<db, won>>

\* No row matches (OrderStateConflictError): roll back.
Conflict(p) ==
  /\ At(p, "update")
  /\ conn[p].data[call[p].order].version # call[p].held
  /\ Goto(p, "rollback")
  /\ UNCHANGED <<db, writer, conn, won>>

\* Variant: a failure to write the event is not a failure of the move.
EventBestEffort(p) ==
  /\ At(p, "event")
  /\ \E e \in {{}, {call[p].held + 1}} :
     LET o == call[p].order IN
     Writing(p, [conn[p].data EXCEPT ![o] = [version |-> conn[p].data[o].version,
                                             events  |-> conn[p].data[o].events \cup e]])
  /\ Goto(p, "commit")
  /\ UNCHANGED <<db, won>>

Event(p) ==
  /\ At(p, "event")
  /\ LET o == call[p].order IN
     Writing(p, [conn[p].data EXCEPT ![o] = [version |-> conn[p].data[o].version,
                   events |-> conn[p].data[o].events \cup {call[p].held + 1}]])
  /\ Goto(p, "commit")
  /\ UNCHANGED <<db, won>>

\* Variant: a commit that fails is passed over.
CommitBestEffort(p) ==
  /\ At(p, "commit")
  /\ CommitOf(p) \/ Discard(p)
  /\ Goto(p, "reread")
  /\ UNCHANGED won

Commit(p) ==
  /\ At(p, "commit")
  /\ CommitOf(p)
  /\ Goto(p, "reread")
  /\ UNCHANGED won

\* Variant: the failure is passed on and nothing is rolled back.
WriteFailsOpenly(p) ==
  /\ call[p].pc \in {"update", "event", "commit"}
  /\ Fails(p)
  /\ Return(p)
  /\ UNCHANGED won

\* Any of the three fails: _abort_transaction.
WriteFails(p) ==
  /\ call[p].pc \in {"update", "event", "commit"}
  /\ Fails(p)
  /\ Goto(p, "rollback")
  /\ UNCHANGED won

Rollback(p) ==
  /\ At(p, "rollback") /\ Return(p)
  /\ Discard(p)
  /\ UNCHANGED won

\* The rollback fails: invalidate_connection marks it before it closes it.
RollbackFails(p) ==
  /\ At(p, "rollback")
  /\ conn' = [conn EXCEPT ![p].usable = FALSE]
  /\ Goto(p, "close")
  /\ UNCHANGED <<db, writer, won>>

Close(p) ==
  /\ At(p, "close") /\ Return(p)
  /\ Discard(p)
  /\ UNCHANGED won

\* FatalRepositoryConnectionError: the process has to stop.
CloseFails(p) ==
  /\ At(p, "close")
  /\ Goto(p, "fatal")
  /\ UNCHANGED <<db, writer, conn, won>>

\* The row is read again and returned to the caller, or the read fails.
Reread(p) ==
  /\ At(p, "reread") /\ Return(p)
  /\ won' = won \cup {<<p, call[p].order, call[p].held + 1>>}
  /\ UNCHANGED <<db, writer, conn>>

RereadFails(p) ==
  /\ At(p, "reread") /\ Return(p)
  /\ UNCHANGED <<db, writer, conn, won>>

-----------------------------------------------------------------------------
\* The process ends, having closed its connection or not, and starts anew.
Restart(p) ==
  /\ writer' = IF writer = p THEN None ELSE writer
  /\ conn' = [conn EXCEPT ![p] = FreshConn]
  /\ call' = [call EXCEPT ![p] = NoCall]
  /\ UNCHANGED <<db, won>>

RegisterStep(p) ==
  \/ Insert(p) \/ InsertRaises(p) \/ CreationEvent(p) \/ CommitNew(p)
  \/ RegisterRaises(p) \/ OtherCommit(p)

MoveStep(p) ==
  \/ Begin(p) \/ BeginRaises(p) \/ Update(p) \/ Conflict(p) \/ Event(p)
  \/ Commit(p) \/ WriteFails(p) \/ Rollback(p) \/ RollbackFails(p)
  \/ Close(p) \/ CloseFails(p) \/ Reread(p) \/ RereadFails(p)

Next ==
  \E p \in Procs :
    \/ \E o \in Orders : Register(p, o) \/ Load(p, o)
    \/ RegisterStep(p) \/ MoveStep(p) \/ Restart(p)

Spec == Init /\ [][Next]_vars

-----------------------------------------------------------------------------
Pcs == {"idle", "insert", "created", "commitNew", "begin", "update", "event",
        "commit", "rollback", "close", "fatal", "reread"}

\* Every variable has its type.
TypeOK ==
  /\ db \in Tables
  /\ writer \in Procs \cup {None}
  /\ conn \in [Procs -> [usable : BOOLEAN, txn : {"none", "deferred", "write"},
                         data : Tables]]
  /\ call \in [Procs -> [pc : Pcs, order : Orders \cup {None},
                         held : -1 .. MaxVersion,
                         last : {"none", "register", "move"}]]
  /\ won \subseteq Procs \X Orders \X (0 .. MaxVersion)

\* No lost update: of all who are told that they moved a row to some version
\* there is one only, and the move is committed, whatever failed around it.
OneWinner ==
  \A m, n \in won :
    /\ m[2] = n[2] /\ m[3] = n[3] => m = n
    /\ m[3] <= db[m[2]].version

\* The history of a row is complete: one event for every version after its
\* first and none for a version it does not have.
EveryMoveHasItsEvent ==
  \A o \in Orders : db[o].events \ {0} = 1 .. db[o].version

\* After compare_and_set_state returned or raised, its connection is in no
\* transaction and blocks nobody, unless the process was told to stop.
MoveLeavesNoLock ==
  \A p \in Procs :
    (call[p].pc = "idle" /\ call[p].last = "move")
      => writer # p /\ conn[p].txn = "none"

\* A commit that moves a row commits this one move and nothing else: what an
\* earlier call on the same connection left behind does not ride along.
MovesCommitAlone ==
  [][\A o, x \in Orders :
       (db[o].version >= 0 /\ db'[o] # db[o] /\ db'[x] # db[x]) => o = x]_vars

\* The call of compare_and_set_state p is in, as AtomicLedger knows it.
Moves == {"begin", "update", "event", "commit", "rollback", "close", "fatal", "reread"}
Request(p) ==
  IF call[p].pc \in Moves
  THEN [state |-> IF At(p, "reread") THEN "done" ELSE "asked",
        order |-> call[p].order, from |-> call[p].held]
  ELSE [state |-> "none", order |-> None, from |-> -1]
Abstract == INSTANCE AtomicLedger WITH
  row <- db, request <- [p \in Procs |-> Request(p)]

\* A move, with all its statements and their failures, is one atomic
\* compare-and-set to its callers: it happens at the commit, from the version
\* that was held, or not at all, and beside it rows only appear.
ImplementsLedger == Abstract!Spec

=============================================================================
