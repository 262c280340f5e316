---------------------- MODULE LedgerTransactionProofs ----------------------
(***************************************************************************)
(* Proofs about LedgerTransaction, for any number of processes and orders. *)
(***************************************************************************)
EXTENDS LedgerTransaction, TLAPS

Writes == {"created", "commitNew", "update", "event", "commit"}
Resting == {"idle", "insert", "created", "commitNew", "begin"}

\* new is old, or a row just inserted.
Inserted(old, new) ==
  new = old \/ (old.version = -1 /\ new.version = 0 /\ new.events \subseteq {0})

MovedTo(o, v, events) == [db EXCEPT ![o] = [version |-> v, events |-> events]]

\* The lock and the transaction are one thing, and the steps that write
\* own both.
Locked(p) ==
  /\ conn[p].txn = "write" <=> writer = p
  /\ call[p].pc \in Writes => writer = p

Called(p) ==
  /\ call[p].pc # "idle" => call[p].order \in Orders
  /\ call[p].pc \in Moves => call[p].held \in 0 .. MaxVersion - 1
  /\ call[p].pc \in {"insert", "created", "commitNew"} => call[p].last = "register"

\* What a connection that is not in a move may still commit.
Residue(p) ==
  /\ (call[p].pc \in Resting /\ writer = p) =>
       \A o \in Orders : Inserted(db[o], conn[p].data[o])
  /\ call[p].pc = "created" =>
       /\ db[call[p].order].version = -1
       /\ conn[p].data[call[p].order].version = 0
  /\ (call[p].pc \in {"idle", "begin"} /\ call[p].last = "move") =>
       conn[p].txn = "none"

\* What a move is about to commit.
Moving(p) ==
  LET o == call[p].order  h == call[p].held IN
  /\ call[p].pc = "update" => conn[p].data = db
  /\ call[p].pc = "event" =>
       db[o].version = h /\ conn[p].data = MovedTo(o, h + 1, db[o].events)
  /\ call[p].pc = "commit" =>
       db[o].version = h /\ conn[p].data = MovedTo(o, h + 1, db[o].events \cup {h + 1})
  /\ call[p].pc = "reread" => conn[p].txn = "none" /\ db[o].version >= h + 1

ProcInv(p) == Locked(p) /\ Called(p) /\ Residue(p) /\ Moving(p)

\* A committed move that its process does not know of yet is nobody's claim.
Claims ==
  \A p \in Procs : call[p].pc = "reread" =>
    /\ \A m \in won : ~(m[2] = call[p].order /\ m[3] = call[p].held + 1)
    /\ \A q \in Procs :
         (/\ call[q].pc = "reread" /\ call[q].order = call[p].order
          /\ call[q].held = call[p].held) => q = p

GlobalInv == EveryMoveHasItsEvent /\ OneWinner /\ Claims

IInv == TypeOK /\ (\A p \in Procs : ProcInv(p)) /\ GlobalInv

Txns == {"none", "deferred", "write"}
Conns == [Procs -> [usable : BOOLEAN, txn : Txns, data : Tables]]

Calls == [Procs -> [pc : Pcs, order : Orders \cup {None}, held : -1 .. MaxVersion,
                    last : {"none", "register", "move"}]]

\* A step that only moves p along keeps the calls in their type.
LEMMA CallStep ==
  ASSUME TypeOK, NEW p \in Procs, NEW next \in Pcs, call' = [call EXCEPT ![p].pc = next]
  PROVE  call' \in Calls
<1> DEFINE One == [pc : Pcs, order : Orders \cup {None}, held : -1 .. MaxVersion,
                   last : {"none", "register", "move"}]
           new == [call[p] EXCEPT !.pc = next]
<1>1. call \in [Procs -> One]
  BY DEF TypeOK
<1>2. call[p] \in One
  BY <1>1
<1>3. new \in One
  <2> HIDE DEF Pcs
  <2> QED
    BY <1>2
<1>4. call' = [call EXCEPT ![p] = new]
  BY <1>1
<1> HIDE DEF One, new
<1>5. call' \in [Procs -> One]
  BY <1>1, <1>3, <1>4
<1> QED
  BY <1>5 DEF One, Calls

\* A step that changes the transaction of p and what it holds does so too.
LEMMA ConnStep ==
  ASSUME TypeOK, NEW p \in Procs, NEW data \in Tables, NEW t \in Txns,
         conn' = [conn EXCEPT ![p] = [conn[p] EXCEPT !.txn = t, !.data = data]]
  PROVE  conn' \in Conns
<1> DEFINE One == [usable : BOOLEAN, txn : Txns, data : Tables]
           new == [conn[p] EXCEPT !.txn = t, !.data = data]
           mid == [conn[p] EXCEPT !.txn = t]
<1>1. conn \in [Procs -> One]
  BY DEF TypeOK, Txns
<1>2. conn[p] \in One
  BY <1>1
<1>3. mid \in One
  BY <1>2
<1>4. new = [mid EXCEPT !.data = data]
  OBVIOUS
<1>5. conn' = [conn EXCEPT ![p] = new]
  OBVIOUS
<1> HIDE DEF mid, new
<1>6. new \in One
  BY <1>3, <1>4
<1> HIDE DEF One
<1>7. conn' \in [Procs -> One]
  BY <1>1, <1>5, <1>6
<1> QED
  BY <1>7 DEF One, Conns

\* The pieces of TypeOK after a step.
LEMMA TypeParts ==
  ASSUME db' \in Tables, writer' \in Procs \cup {None}, conn' \in Conns, call' \in Calls,
         won' \subseteq Procs \X Orders \X (0 .. MaxVersion)
  PROVE  TypeOK'
BY DEF TypeOK, Conns, Calls, Txns

\* The inductive invariant holds initially.
LEMMA InitIInv == Init => IInv
<1> SUFFICES ASSUME Init PROVE IInv
  OBVIOUS
<1> USE TransactionAssumption
<1>1. EmptyDb \in Tables
  BY DEF EmptyDb, Tables, Entries, NoEntry
<1>2. TypeOK
  BY <1>1 DEF Init, TypeOK, FreshConn, NoCall, Pcs
<1>3. ASSUME NEW p \in Procs PROVE ProcInv(p)
  BY DEF Init, ProcInv, Locked, Called, Residue, Moving, Writes, Moves, Resting,
         FreshConn, NoCall
<1>4. GlobalInv
  BY DEF Init, GlobalInv, EveryMoveHasItsEvent, OneWinner, Claims, EmptyDb,
         NoEntry, NoCall
<1> QED
  BY <1>2, <1>3, <1>4 DEF IInv

\* A step of p leaves every other process's share of the invariant alone:
\* p changes the lock only if it holds it or it is free, and the committed
\* tables only if it holds it.
LEMMA Frame ==
  ASSUME IInv, NEW p \in Procs,
         \A q \in Procs : q # p => call'[q] = call[q] /\ conn'[q] = conn[q],
         writer' = writer \/ (writer \in {None, p} /\ writer' \in {None, p}),
         db' = db \/ writer = p,
         \A o \in Orders : db'[o].version \in Int /\ db'[o].version >= db[o].version
  PROVE  \A q \in Procs : q # p => ProcInv(q)'
<1> SUFFICES ASSUME NEW q \in Procs, q # p PROVE ProcInv(q)'
  OBVIOUS
<1> USE TransactionAssumption
<1>1. ProcInv(q) /\ call'[q] = call[q] /\ conn'[q] = conn[q]
  BY DEF IInv
<1>2. writer = q <=> writer' = q
  BY DEF IInv, TypeOK
<1>3. Locked(q)'
  BY <1>1, <1>2 DEF ProcInv, Locked
<1>4. Called(q)'
  BY <1>1 DEF ProcInv, Called
<1>5. CASE db' = db
  <2>1. Residue(q)'
    BY <1>1, <1>2, <1>5 DEF ProcInv, Residue
  <2>2. Moving(q)'
    BY <1>1, <1>5 DEF ProcInv, Moving, MovedTo
  <2> QED
    BY <1>3, <1>4, <2>1, <2>2 DEF ProcInv
<1>6. CASE writer = p
  <2>1. writer # q /\ writer' # q /\ call[q].pc \notin Writes
    BY <1>1, <1>2, <1>6 DEF ProcInv, Locked
  <2>2. Residue(q)'
    BY <1>1, <2>1 DEF ProcInv, Residue, Writes
  <2>3. call[q].pc \notin {"update", "event", "commit"}
    BY <2>1 DEF Writes
  <2>4. call[q].pc = "reread" =>
          conn[q].txn = "none" /\ db'[call[q].order].version >= call[q].held + 1
    <3> SUFFICES ASSUME call[q].pc = "reread"
                 PROVE  conn[q].txn = "none" /\ db'[call[q].order].version >= call[q].held + 1
      OBVIOUS
    <3>1. call[q].order \in Orders /\ call[q].held \in Int
      BY <1>1 DEF ProcInv, Called, Moves
    <3>2. db[call[q].order].version \in Int
      BY <3>1 DEF IInv, TypeOK, Tables, Entries
    <3>3. conn[q].txn = "none" /\ db[call[q].order].version >= call[q].held + 1
      BY <1>1 DEF ProcInv, Moving
    <3> QED
      BY <3>1, <3>2, <3>3
  <2>5. Moving(q)'
    BY <1>1, <2>3, <2>4 DEF Moving
  <2> QED
    BY <1>3, <1>4, <2>2, <2>5 DEF ProcInv
<1> QED
  BY <1>5, <1>6

\* A step that commits nothing and returns no record leaves the global part
\* alone, unless it enters the re-read, which only a commit does.
LEMMA Quiet ==
  ASSUME IInv, NEW p \in Procs, db' = db, won' = won,
         \A q \in Procs : q # p => call'[q] = call[q],
         call'[p].pc # "reread"
  PROVE  GlobalInv'
<1>1. EveryMoveHasItsEvent' /\ OneWinner'
  BY DEF IInv, GlobalInv, EveryMoveHasItsEvent, OneWinner
<1>2. Claims'
  BY DEF IInv, GlobalInv, Claims
<1> QED
  BY <1>1, <1>2 DEF GlobalInv

\* An action of p: what it does to the others is Frame, to the history Quiet.
LEMMA QuietStep ==
  ASSUME IInv, NEW p \in Procs, TypeOK', ProcInv(p)',
         \A q \in Procs : q # p => call'[q] = call[q] /\ conn'[q] = conn[q],
         writer' = writer \/ (writer \in {None, p} /\ writer' \in {None, p}),
         UNCHANGED <<db, won>>, call'[p].pc # "reread"
  PROVE  IInv'
<1>1. \A o \in Orders : db'[o].version \in Int /\ db'[o].version >= db[o].version
  BY TransactionAssumption DEF IInv, TypeOK, Tables, Entries
<1>2. \A q \in Procs : ProcInv(q)'
  BY <1>1, Frame
<1>3. GlobalInv'
  BY Quiet
<1> QED
  BY <1>2, <1>3 DEF IInv

\* register, up to its commit, preserves the invariant.
LEMMA RegisterIInv ==
  ASSUME IInv, NEW p \in Procs,
         \/ \E o \in Orders : Register(p, o)
         \/ Insert(p) \/ InsertRaises(p) \/ CreationEvent(p)
  PROVE  IInv'
<1> USE TransactionAssumption
<1>0. ProcInv(p) /\ TypeOK
  BY DEF IInv
<1>1. ASSUME NEW o \in Orders, Register(p, o) PROVE IInv'
  <2>1. call' = [call EXCEPT ![p] = [pc |-> "insert", order |-> o, held |-> -1,
                                     last |-> "register"]]
        /\ call[p].pc = "idle" /\ UNCHANGED <<db, writer, conn, won>>
    BY <1>1 DEF Register, At
  <2>2. TypeOK'
    BY <2>1, <1>0 DEF TypeOK, Pcs
  <2>3. call'[p] = [pc |-> "insert", order |-> o, held |-> -1, last |-> "register"]
    BY <2>1, <1>0 DEF TypeOK
  <2>4. ProcInv(p)'
    BY <2>1, <2>3, <1>0
    DEF ProcInv, Locked, Called, Residue, Moving, Writes, Moves, Resting
  <2>5. \A q \in Procs : q # p => call'[q] = call[q] /\ conn'[q] = conn[q]
    BY <2>1, <1>0 DEF TypeOK
  <2> QED
    BY <2>1, <2>2, <2>3, <2>4, <2>5, QuietStep
<1>2. ASSUME Insert(p) PROVE IInv'
  <2> DEFINE o == call[p].order
             data == [View(p) EXCEPT ![o] = [version |-> 0, events |-> {}]]
  <2>1. call' = [call EXCEPT ![p].pc = "created"] /\ call[p].pc = "insert"
        /\ writer \in {None, p} /\ writer' = p /\ UNCHANGED <<db, won>>
        /\ conn' = [conn EXCEPT ![p] = [conn[p] EXCEPT !.txn = "write", !.data = data]]
        /\ View(p)[o].version = -1
    BY <1>2 DEF Insert, At, Goto, Writing
  <2>2. o \in Orders /\ call[p].last = "register"
    BY <2>1, <1>0 DEF ProcInv, Called
  <2>3. View(p) \in Tables
    BY <1>0 DEF TypeOK, View
  <2>4. data \in Tables
    BY <2>2, <2>3 DEF Tables, Entries
  <2>5. /\ call'[p].pc = "created" /\ call'[p].order = o
        /\ call'[p].held = call[p].held /\ call'[p].last = "register"
    BY <2>1, <2>2, <1>0 DEF TypeOK
  <2>6. conn'[p].txn = "write" /\ conn'[p].data = data
    BY <2>1, <1>0 DEF TypeOK
  <2>7. TypeOK'
    <3>1. call' \in Calls
      BY <2>1, <1>0, CallStep DEF Pcs
    <3>2. conn' \in Conns
      BY <2>1, <2>4, <1>0, ConnStep DEF Txns
    <3> QED
      BY <2>1, <3>1, <3>2, <1>0, TypeParts DEF TypeOK
  <2>8. \A x \in Orders : Inserted(db[x], View(p)[x])
    BY <2>1, <1>0 DEF View, ProcInv, Locked, Residue, Inserted, Resting
  <2>9. db[o].version = -1
    BY <2>1, <2>2, <2>8 DEF Inserted
  <2>10. data[o] = [version |-> 0, events |-> {}]
         /\ \A x \in Orders : x # o => data[x] = View(p)[x]
    BY <2>2, <2>3 DEF Tables
  <2> HIDE DEF data
  <2>11. \A x \in Orders : Inserted(db[x], data[x])
    BY <2>8, <2>9, <2>10 DEF Inserted
  <2>12. ProcInv(p)'
    BY <2>1, <2>2, <2>5, <2>6, <2>9, <2>10, <2>11, <1>0
    DEF ProcInv, Locked, Called, Residue, Moving, Writes, Moves, Resting
  <2>13. \A q \in Procs : q # p => call'[q] = call[q] /\ conn'[q] = conn[q]
    BY <2>1, <1>0 DEF TypeOK
  <2> QED
    BY <2>1, <2>5, <2>7, <2>12, <2>13, QuietStep
<1>3. ASSUME InsertRaises(p) PROVE IInv'
  <2>1. call' = [call EXCEPT ![p].pc = "idle"] /\ call[p].pc = "insert"
        /\ UNCHANGED <<db, won>>
    BY <1>3 DEF InsertRaises, At, Goto, Return
  <2>2. /\ call'[p].pc = "idle" /\ call'[p].order = call[p].order
        /\ call'[p].held = call[p].held /\ call'[p].last = "register"
    BY <2>1, <1>0 DEF TypeOK, ProcInv, Called
  <2>3. \A x \in Orders : Inserted(db[x], View(p)[x])
    BY <2>1, <1>0 DEF View, ProcInv, Locked, Residue, Inserted, Resting
  <2>4. CASE writer \in {None, p} /\ Writing(p, View(p))
    <3>1. writer' = p /\ conn' = [conn EXCEPT ![p] =
                                   [conn[p] EXCEPT !.txn = "write", !.data = View(p)]]
      BY <2>4 DEF Writing
    <3>2. View(p) \in Tables
      BY <1>0 DEF TypeOK, View
    <3>3. conn'[p].txn = "write" /\ conn'[p].data = View(p)
      BY <3>1, <1>0 DEF TypeOK
    <3>4. TypeOK'
      <4>1. call' \in Calls
        BY <2>1, <1>0, CallStep DEF Pcs
      <4>2. conn' \in Conns
        BY <3>1, <3>2, <1>0, ConnStep DEF Txns
      <4> QED
        BY <2>1, <3>1, <4>1, <4>2, <1>0, TypeParts DEF TypeOK
    <3>5. ProcInv(p)'
      BY <2>1, <2>2, <2>3, <3>1, <3>3, <1>0
      DEF ProcInv, Locked, Called, Residue, Moving, Writes, Moves, Resting
    <3>6. \A q \in Procs : q # p => call'[q] = call[q] /\ conn'[q] = conn[q]
      BY <2>1, <3>1, <1>0 DEF TypeOK
    <3> QED
      BY <2>1, <2>2, <2>4, <3>1, <3>4, <3>5, <3>6, QuietStep
  <2>5. CASE writer # p /\ conn' = [conn EXCEPT ![p].txn = "deferred"] /\ writer' = writer
    <3>1. conn'[p].txn = "deferred"
      BY <2>5, <1>0 DEF TypeOK
    <3>2. TypeOK'
      <4>1. call' \in Calls
        BY <2>1, <1>0, CallStep DEF Pcs
      <4>2. conn' \in Conns
        BY <2>5, <1>0 DEF TypeOK, Conns, Txns
      <4> QED
        BY <2>1, <2>5, <4>1, <4>2, <1>0, TypeParts DEF TypeOK
    <3>3. ProcInv(p)'
      BY <2>1, <2>2, <2>5, <3>1, <1>0
      DEF ProcInv, Locked, Called, Residue, Moving, Writes, Moves, Resting
    <3>4. \A q \in Procs : q # p => call'[q] = call[q] /\ conn'[q] = conn[q]
      BY <2>1, <2>5, <1>0 DEF TypeOK
    <3> QED
      BY <2>1, <2>2, <2>5, <3>2, <3>3, <3>4, QuietStep
  <2> QED
    BY <1>3, <2>4, <2>5 DEF InsertRaises
<1>4. ASSUME CreationEvent(p) PROVE IInv'
  <2> DEFINE o == call[p].order
             data == [conn[p].data EXCEPT ![o] = [version |-> conn[p].data[o].version,
                                                  events  |-> {0}]]
  <2>1. call' = [call EXCEPT ![p].pc = "commitNew"] /\ call[p].pc = "created"
        /\ writer' = p /\ UNCHANGED <<db, won>>
        /\ conn' = [conn EXCEPT ![p] = [conn[p] EXCEPT !.txn = "write", !.data = data]]
    BY <1>4 DEF CreationEvent, At, Goto, Writing
  <2>2. o \in Orders /\ call[p].last = "register" /\ writer = p
        /\ db[o].version = -1 /\ conn[p].data[o].version = 0
    BY <2>1, <1>0 DEF ProcInv, Called, Locked, Residue, Writes
  <2>3. conn[p].data \in Tables
    BY <1>0 DEF TypeOK
  <2>4. data \in Tables
    BY <2>2, <2>3 DEF Tables, Entries
  <2>5. /\ call'[p].pc = "commitNew" /\ call'[p].order = o
        /\ call'[p].held = call[p].held /\ call'[p].last = "register"
    BY <2>1, <2>2, <1>0 DEF TypeOK
  <2>6. conn'[p].txn = "write" /\ conn'[p].data = data
    BY <2>1, <1>0 DEF TypeOK
  <2>7. TypeOK'
    <3>1. call' \in Calls
      BY <2>1, <1>0, CallStep DEF Pcs
    <3>2. conn' \in Conns
      BY <2>1, <2>4, <1>0, ConnStep DEF Txns
    <3> QED
      BY <2>1, <3>1, <3>2, <1>0, TypeParts DEF TypeOK
  <2>8. data[o] = [version |-> 0, events |-> {0}]
        /\ \A x \in Orders : x # o => data[x] = conn[p].data[x]
    BY <2>2, <2>3 DEF Tables
  <2>9. \A x \in Orders : Inserted(db[x], conn[p].data[x])
    BY <2>1, <2>2, <1>0 DEF ProcInv, Residue, Resting
  <2> HIDE DEF data
  <2>10. \A x \in Orders : Inserted(db[x], data[x])
    BY <2>2, <2>8, <2>9 DEF Inserted
  <2>11. ProcInv(p)'
    BY <2>1, <2>2, <2>5, <2>6, <2>10, <1>0
    DEF ProcInv, Locked, Called, Residue, Moving, Writes, Moves, Resting
  <2>12. \A q \in Procs : q # p => call'[q] = call[q] /\ conn'[q] = conn[q]
    BY <2>1, <1>0 DEF TypeOK
  <2> QED
    BY <2>1, <2>2, <2>5, <2>7, <2>11, <2>12, QuietStep
<1> QED
  BY <1>1, <1>2, <1>3, <1>4

\* A statement of p fails, and the call returns or goes on to the rollback:
\* where p rests, it must have been registering, or be in no transaction.
LEMMA FailsIInv ==
  ASSUME IInv, NEW p \in Procs, NEW next \in {"idle", "rollback"},
         call' = [call EXCEPT ![p].pc = next], Fails(p), UNCHANGED won,
         next = "idle" => call[p].pc \in {"created", "commitNew"},
         next = "rollback" => call[p].pc \in {"update", "event", "commit"}
  PROVE  IInv'
<1> USE TransactionAssumption
<1>0. ProcInv(p) /\ TypeOK
  BY DEF IInv
<1>1. /\ call'[p].pc = next /\ call'[p].order = call[p].order
      /\ call'[p].held = call[p].held /\ call'[p].last = call[p].last
  BY <1>0 DEF TypeOK
<1>2. Called(p)'
  BY <1>0, <1>1 DEF ProcInv, Called, Moves
<1>3. next = "idle" => call'[p].last = "register"
  BY <1>0, <1>1 DEF ProcInv, Called
<1>4. CASE UNCHANGED <<db, writer, conn>>
  <2>1. TypeOK'
    BY <1>0, <1>4 DEF TypeOK, Pcs
  <2>2. Locked(p)'
    BY <1>0, <1>1, <1>4 DEF ProcInv, Locked, Writes
  <2>3. Residue(p)'
    BY <1>0, <1>1, <1>3, <1>4 DEF ProcInv, Residue, Resting
  <2>4. Moving(p)'
    BY <1>1 DEF Moving
  <2>5. \A q \in Procs : q # p => call'[q] = call[q] /\ conn'[q] = conn[q]
    BY <1>0, <1>4 DEF TypeOK
  <2> QED
    BY <1>1, <1>2, <1>4, <2>1, <2>2, <2>3, <2>4, <2>5, QuietStep DEF ProcInv
<1>5. CASE Discard(p)
  <2>1. /\ writer' = IF writer = p THEN None ELSE writer
        /\ conn' = [conn EXCEPT ![p] = [conn[p] EXCEPT !.txn = "none", !.data = EmptyDb]]
        /\ db' = db
    BY <1>5 DEF Discard, NoTransaction
  <2>2. EmptyDb \in Tables
    BY DEF EmptyDb, Tables, Entries, NoEntry
  <2>3. TypeOK'
    <3>1. call' \in Calls
      BY <1>0, CallStep DEF Pcs
    <3>2. conn' \in Conns
      BY <2>1, <2>2, <1>0, ConnStep DEF Txns
    <3> QED
      BY <2>1, <3>1, <3>2, <1>0, TypeParts DEF TypeOK
  <2>4. conn'[p].txn = "none" /\ writer' # p
    BY <1>0, <2>1 DEF TypeOK
  <2>5. ProcInv(p)'
    BY <1>1, <1>2, <1>3, <2>4 DEF ProcInv, Locked, Residue, Moving, Writes
  <2>6. \A q \in Procs : q # p => call'[q] = call[q] /\ conn'[q] = conn[q]
    BY <1>0, <2>1 DEF TypeOK
  <2> QED
    BY <1>1, <2>1, <2>3, <2>5, <2>6, QuietStep
<1> QED
  BY <1>4, <1>5 DEF Fails

\* The rollback or the close succeeds, or the process starts anew: p is in
\* no transaction and at rest.
LEMMA EndIInv ==
  ASSUME IInv, NEW p \in Procs,
         Rollback(p) \/ Close(p) \/ Restart(p)
  PROVE  IInv'
<1> USE TransactionAssumption
<1>0. ProcInv(p) /\ TypeOK
  BY DEF IInv
<1>1. EmptyDb \in Tables
  BY DEF EmptyDb, Tables, Entries, NoEntry
<1>2. /\ writer' = IF writer = p THEN None ELSE writer
      /\ UNCHANGED <<db, won>>
  BY DEF Rollback, Close, Restart, Discard, NoTransaction
<1>3. \/ /\ conn' = [conn EXCEPT ![p] = [conn[p] EXCEPT !.txn = "none", !.data = EmptyDb]]
         /\ call' = [call EXCEPT ![p].pc = "idle"]
      \/ conn' = [conn EXCEPT ![p] = FreshConn] /\ call' = [call EXCEPT ![p] = NoCall]
  BY DEF Rollback, Close, Restart, Discard, NoTransaction, Return, Goto
<1>4. conn'[p].txn = "none" /\ call'[p].pc = "idle" /\ writer' # p
  <2>1. writer' # p
    BY <1>2
  <2>2. conn'[p].txn = "none"
    <3>1. \/ conn'[p] = [conn[p] EXCEPT !.txn = "none", !.data = EmptyDb]
          \/ conn'[p] = FreshConn
      BY <1>0, <1>3 DEF TypeOK
    <3>2. conn[p] \in [usable : BOOLEAN, txn : {"none", "deferred", "write"},
                       data : Tables]
      BY <1>0 DEF TypeOK
    <3>3. CASE conn'[p] = [conn[p] EXCEPT !.txn = "none", !.data = EmptyDb]
      BY <3>2, <3>3
    <3>4. CASE conn'[p] = FreshConn
      BY <3>4 DEF FreshConn
    <3> QED
      BY <3>1, <3>3, <3>4
  <2>3. call'[p].pc = "idle"
    BY <1>0, <1>3 DEF TypeOK, NoCall
  <2> QED
    BY <2>1, <2>2, <2>3
<1>5. TypeOK'
  <2>1. db' \in Tables /\ writer' \in Procs \cup {None}
        /\ won' \subseteq Procs \X Orders \X (0 .. MaxVersion)
    BY <1>0, <1>2 DEF TypeOK
  <2>2. CASE /\ conn' = [conn EXCEPT ![p] = [conn[p] EXCEPT !.txn = "none", !.data = EmptyDb]]
             /\ call' = [call EXCEPT ![p].pc = "idle"]
    <3>1. call' \in Calls
      BY <2>2, <1>0, CallStep DEF Pcs
    <3>2. conn' \in Conns
      BY <2>2, <1>1, <1>0, ConnStep DEF Txns
    <3> QED
      BY <2>1, <3>1, <3>2, TypeParts
  <2>3. CASE conn' = [conn EXCEPT ![p] = FreshConn] /\ call' = [call EXCEPT ![p] = NoCall]
    BY <1>0, <1>1, <2>1, <2>3 DEF TypeOK, Pcs, FreshConn, NoCall
  <2> QED
    BY <1>3, <2>2, <2>3
<1>6. ProcInv(p)'
  BY <1>4 DEF ProcInv, Locked, Called, Residue, Moving, Writes, Moves
<1>7. \A q \in Procs : q # p => call'[q] = call[q] /\ conn'[q] = conn[q]
  BY <1>0, <1>3 DEF TypeOK
<1> QED
  BY <1>2, <1>4, <1>5, <1>6, <1>7, QuietStep

\* Steps that move p along and nothing else.
LEMMA WalkIInv ==
  ASSUME IInv, NEW p \in Procs,
         \/ \E o \in Orders : Load(p, o)
         \/ BeginRaises(p) \/ Conflict(p) \/ RollbackFails(p)
         \/ CloseFails(p) \/ RereadFails(p)
  PROVE  IInv'
<1> USE TransactionAssumption
<1>0. ProcInv(p) /\ TypeOK
  BY DEF IInv
<1>1. UNCHANGED <<db, writer, won>>
  BY DEF Load, BeginRaises, Conflict, RollbackFails, CloseFails, RereadFails
<1>2. ASSUME NEW o \in Orders, Load(p, o) PROVE IInv'
  <2>1. /\ call' = [call EXCEPT ![p] = [pc |-> "begin", order |-> o,
                       held |-> View(p)[o].version, last |-> call[p].last]]
        /\ call[p].pc = "idle" /\ conn' = conn
        /\ View(p)[o].version \in 0 .. MaxVersion - 1
    BY <1>2 DEF Load, At
  <2>2. call'[p] = [pc |-> "begin", order |-> o, held |-> View(p)[o].version,
                    last |-> call[p].last]
    BY <2>1, <1>0 DEF TypeOK
  <2>3. call[p].last \in {"none", "register", "move"}
    BY <1>0 DEF TypeOK
  <2>4. TypeOK'
    BY <1>0, <1>1, <2>1, <2>3 DEF TypeOK, Pcs
  <2>5. ProcInv(p)'
    BY <1>0, <1>1, <2>1, <2>2
    DEF ProcInv, Locked, Called, Residue, Moving, Writes, Moves, Resting
  <2>6. \A q \in Procs : q # p => call'[q] = call[q] /\ conn'[q] = conn[q]
    BY <1>0, <2>1 DEF TypeOK
  <2> QED
    BY <1>1, <2>2, <2>4, <2>5, <2>6, QuietStep
<1>3. ASSUME NEW next \in {"idle", "rollback", "close", "fatal"},
             call' = [call EXCEPT ![p].pc = next],
             conn' = conn \/ conn' = [conn EXCEPT ![p].usable = FALSE],
             \/ next = "idle" /\ call[p].pc = "begin"
             \/ next = "idle" /\ call[p].pc = "reread"
             \/ next = "rollback" /\ call[p].pc = "update"
             \/ next = "close" /\ call[p].pc = "rollback"
             \/ next = "fatal" /\ call[p].pc = "close"
      PROVE IInv'
  <2>1. /\ call'[p].pc = next /\ call'[p].order = call[p].order
        /\ call'[p].held = call[p].held /\ call'[p].last = call[p].last
    BY <1>0, <1>3 DEF TypeOK
  <2>2. conn'[p].txn = conn[p].txn /\ conn'[p].data = conn[p].data
    BY <1>0, <1>3 DEF TypeOK
  <2>3. TypeOK'
    <3>1. call' \in [Procs -> [pc : Pcs, order : Orders \cup {None},
                         held : -1 .. MaxVersion,
                         last : {"none", "register", "move"}]]
      BY <1>0, <1>3 DEF TypeOK, Pcs
    <3>2. conn' \in [Procs -> [usable : BOOLEAN, txn : {"none", "deferred", "write"},
                              data : Tables]]
      <4>1. CASE conn' = conn
        BY <1>0, <4>1 DEF TypeOK
      <4>2. CASE conn' = [conn EXCEPT ![p].usable = FALSE]
        <5> DEFINE Handles == [usable : BOOLEAN, txn : {"none", "deferred", "write"},
                             data : Tables]
        <5>1. [conn[p] EXCEPT !.usable = FALSE] \in Handles
          <6>1. conn[p] \in Handles
            BY <1>0 DEF TypeOK
          <6> QED
            BY <6>1
        <5>2. conn \in [Procs -> Handles]
          BY <1>0 DEF TypeOK
        <5> HIDE DEF Handles
        <5>3. conn' \in [Procs -> Handles]
          BY <4>2, <5>1, <5>2
        <5> QED
          BY <5>3 DEF Handles
      <4> QED
        BY <1>3, <4>1, <4>2
    <3> QED
      BY <1>0, <1>1, <3>1, <3>2 DEF TypeOK
  <2>4. Locked(p)' /\ Called(p)'
    BY <1>0, <1>1, <1>3, <2>1, <2>2 DEF ProcInv, Locked, Called, Writes, Moves
  <2>5. conn[p].txn = "none" => writer # p
    BY <1>0 DEF ProcInv, Locked
  <2>6. Residue(p)'
    BY <1>0, <1>1, <1>3, <2>1, <2>2, <2>5 DEF ProcInv, Residue, Moving, Resting
  <2>7. Moving(p)'
    BY <1>3, <2>1 DEF Moving
  <2>8. \A q \in Procs : q # p => call'[q] = call[q] /\ conn'[q] = conn[q]
    BY <1>0, <1>3 DEF TypeOK
  <2> QED
    BY <1>1, <1>3, <2>1, <2>3, <2>4, <2>6, <2>7, <2>8, QuietStep DEF ProcInv
<1>4. ASSUME BeginRaises(p) PROVE IInv'
  BY <1>3, <1>4 DEF BeginRaises, At, Return, Goto
<1>5. ASSUME Conflict(p) PROVE IInv'
  BY <1>3, <1>5 DEF Conflict, At, Goto
<1>6. ASSUME RollbackFails(p) PROVE IInv'
  BY <1>3, <1>6 DEF RollbackFails, At, Goto
<1>7. ASSUME CloseFails(p) PROVE IInv'
  BY <1>3, <1>7 DEF CloseFails, At, Goto
<1>8. ASSUME RereadFails(p) PROVE IInv'
  BY <1>3, <1>8 DEF RereadFails, At, Return, Goto
<1> QED
  BY <1>2, <1>4, <1>5, <1>6, <1>7, <1>8

\* BEGIN IMMEDIATE, the UPDATE and the event: what is about to be committed
\* is the committed tables and this one move.
LEMMA WriteIInv ==
  ASSUME IInv, NEW p \in Procs, NEW data \in Tables,
         NEW next \in {"update", "event", "commit"},
         UNCHANGED <<db, won>>, writer \in {None, p}, Writing(p, data),
         call' \in Calls, \A q \in Procs : q # p => call'[q] = call[q],
         call'[p].pc = next, call'[p].order = call[p].order,
         call'[p].held = call[p].held,
         call[p].pc \in Moves,
         next = "update" => data = db,
         next = "event" =>
           /\ db[call[p].order].version = call[p].held
           /\ data = MovedTo(call[p].order, call[p].held + 1, db[call[p].order].events),
         next = "commit" =>
           /\ db[call[p].order].version = call[p].held
           /\ data = MovedTo(call[p].order, call[p].held + 1,
                             db[call[p].order].events \cup {call[p].held + 1})
  PROVE  IInv'
<1> USE TransactionAssumption
<1>0. ProcInv(p) /\ TypeOK
  BY DEF IInv
<1>1. /\ writer' = p
      /\ conn' = [conn EXCEPT ![p] = [conn[p] EXCEPT !.txn = "write", !.data = data]]
  BY DEF Writing
<1>3. conn'[p].txn = "write" /\ conn'[p].data = data
  BY <1>0, <1>1 DEF TypeOK
<1>4. call[p].order \in Orders /\ call[p].held \in 0 .. MaxVersion - 1
  BY <1>0 DEF ProcInv, Called, Moves
<1>5. TypeOK'
  <2>1. conn' \in Conns
    BY <1>0, <1>1, ConnStep DEF Txns
  <2> QED
    BY <1>0, <1>1, <2>1, TypeParts DEF TypeOK
<1>6. ProcInv(p)'
  <2>1. Locked(p)' /\ Called(p)' /\ Residue(p)'
    BY <1>1, <1>3, <1>4 DEF Locked, Called, Residue, Writes, Moves, Resting
  <2>2. Moving(p)'
    BY <1>3 DEF Moving, MovedTo
  <2> QED
    BY <2>1, <2>2 DEF ProcInv
<1>7. \A q \in Procs : q # p => call'[q] = call[q] /\ conn'[q] = conn[q]
  BY <1>0, <1>1 DEF TypeOK
<1> QED
  BY <1>1, <1>5, <1>6, <1>7, QuietStep

\* The three steps WriteIInv is about.
LEMMA MoveIInv ==
  ASSUME IInv, NEW p \in Procs, Begin(p) \/ Update(p) \/ Event(p)
  PROVE  IInv'
<1> USE TransactionAssumption
<1> DEFINE o == call[p].order
           h == call[p].held
<1>0. ProcInv(p) /\ TypeOK
  BY DEF IInv
<1>1. call \in Calls /\ call[p].pc \in Pcs /\ conn[p].data \in Tables
  BY <1>0 DEF TypeOK, Calls
<1>2. CASE Begin(p)
  <2> DEFINE new == [call[p] EXCEPT !.pc = "update", !.last = "move"]
  <2>1. call[p].pc = "begin" /\ Writing(p, db) /\ writer = None /\ UNCHANGED <<db, won>>
        /\ call' = [call EXCEPT ![p] = new]
    BY <1>2 DEF Begin, At
  <2>2. call[p] \in [pc : Pcs, order : Orders \cup {None}, held : -1 .. MaxVersion,
                     last : {"none", "register", "move"}]
    BY <1>1 DEF Calls
  <2>3. /\ new \in [pc : Pcs, order : Orders \cup {None}, held : -1 .. MaxVersion,
                    last : {"none", "register", "move"}]
        /\ new.pc = "update" /\ new.order = o /\ new.held = h
    BY <2>2 DEF Pcs
  <2> HIDE DEF new
  <2>4. call' \in Calls /\ call'[p] = new /\ \A q \in Procs : q # p => call'[q] = call[q]
    BY <1>1, <2>1, <2>3 DEF Calls
  <2>5. db \in Tables
    BY <1>0 DEF TypeOK
  <2> QED
    BY <2>1, <2>3, <2>4, <2>5, WriteIInv DEF Moves
<1>3. CASE Update(p)
  <2> DEFINE data == [conn[p].data EXCEPT ![o] = [version |-> h + 1,
                                                  events  |-> conn[p].data[o].events]]
  <2>1. call[p].pc = "update" /\ Writing(p, data) /\ UNCHANGED <<db, won>>
        /\ call' = [call EXCEPT ![p].pc = "event"] /\ conn[p].data[o].version = h
    BY <1>3 DEF Update, At, Goto
  <2>2. conn[p].data = db /\ writer = p /\ o \in Orders /\ h \in 0 .. MaxVersion - 1
    BY <1>0, <2>1 DEF ProcInv, Moving, Locked, Writes, Called, Moves
  <2>3. data \in Tables
    BY <1>0, <2>2 DEF TypeOK, Tables, Entries
  <2>4. data = MovedTo(o, h + 1, db[o].events) /\ db[o].version = h
    BY <2>1, <2>2 DEF MovedTo
  <2> HIDE DEF data
  <2>5. /\ call' \in Calls /\ \A q \in Procs : q # p => call'[q] = call[q]
        /\ call'[p].pc = "event" /\ call'[p].order = o /\ call'[p].held = h
    BY <1>1, <2>1 DEF Calls, Pcs
  <2> QED
    BY <2>1, <2>2, <2>3, <2>4, <2>5, WriteIInv DEF Moves
<1>4. CASE Event(p)
  <2> DEFINE data == [conn[p].data EXCEPT ![o] =
                        [version |-> conn[p].data[o].version,
                         events  |-> conn[p].data[o].events \cup {h + 1}]]
  <2>1. call[p].pc = "event" /\ Writing(p, data) /\ UNCHANGED <<db, won>>
        /\ call' = [call EXCEPT ![p].pc = "commit"]
    BY <1>4 DEF Event, At, Goto
  <2>2. /\ conn[p].data = MovedTo(o, h + 1, db[o].events) /\ db[o].version = h
        /\ writer = p /\ o \in Orders /\ h \in 0 .. MaxVersion - 1
    BY <1>0, <2>1 DEF ProcInv, Moving, Locked, Writes, Called, Moves
  <2>3. data \in Tables
    <3> DEFINE new == [version |-> conn[p].data[o].version,
                       events  |-> conn[p].data[o].events \cup {h + 1}]
    <3>1. conn[p].data \in [Orders -> Entries] /\ conn[p].data[o] \in Entries
      BY <1>1, <2>2 DEF Tables
    <3>2. h + 1 \in 0 .. MaxVersion
      BY <2>2
    <3>3. new \in Entries
      BY <3>1, <3>2 DEF Entries
    <3> HIDE DEF new
    <3> QED
      BY <3>1, <3>3, <2>2 DEF Tables, new
  <2>4. db \in [Orders -> Entries]
    BY <1>0 DEF TypeOK, Tables
  <2>5. conn[p].data[o] = [version |-> h + 1, events |-> db[o].events]
    BY <2>2, <2>4 DEF MovedTo
  <2>6. data = MovedTo(o, h + 1, db[o].events \cup {h + 1})
    <3>1. conn[p].data[o].version = h + 1 /\ conn[p].data[o].events = db[o].events
      BY <2>5
    <3>2. data = [conn[p].data EXCEPT ![o] = [version |-> h + 1,
                                              events  |-> db[o].events \cup {h + 1}]]
      BY <3>1
    <3> HIDE DEF data
    <3> QED
      BY <2>2, <2>4, <3>2 DEF MovedTo
  <2> HIDE DEF data
  <2>7. /\ call' \in Calls /\ \A q \in Procs : q # p => call'[q] = call[q]
        /\ call'[p].pc = "commit" /\ call'[p].order = o /\ call'[p].held = h
    BY <1>1, <2>1 DEF Calls, Pcs
  <2> QED
    BY <2>1, <2>2, <2>3, <2>6, <2>7, WriteIInv DEF Moves
<1> QED
  BY <1>2, <1>3, <1>4

\* A registration is committed, by register itself or by another store on
\* the same connection: rows appear, none changes.
LEMMA CommitsRows ==
  ASSUME IInv, NEW p \in Procs, CommitOf(p), call[p].pc \in {"idle", "commitNew"}
  PROVE  \A o \in Orders : Inserted(db[o], db'[o])
<1>1. ProcInv(p) /\ db' = View(p)
  BY DEF IInv, CommitOf
<1> QED
  BY <1>1 DEF View, ProcInv, Locked, Residue, Inserted, Resting

\* The commits of registrations preserve the inductive invariant.
LEMMA RegisterCommitIInv ==
  ASSUME IInv, NEW p \in Procs, CommitNew(p) \/ OtherCommit(p)
  PROVE  IInv'
<1> USE TransactionAssumption
<1>0. ProcInv(p) /\ TypeOK /\ GlobalInv
  BY DEF IInv
<1>1. /\ CommitOf(p) /\ won' = won /\ call[p].pc \in {"idle", "commitNew"}
      /\ call' = [call EXCEPT ![p].pc = "idle"]
  <2>1. CASE CommitNew(p)
    BY <2>1 DEF CommitNew, At, Return, Goto
  <2>2. CASE OtherCommit(p)
    <3>1. call[p].pc = "idle" /\ call' = call
      BY <2>2 DEF OtherCommit, At
    <3>2. call' = [call EXCEPT ![p].pc = "idle"]
      <4>1. call[p] = [call[p] EXCEPT !.pc = "idle"]
        BY <1>0, <3>1 DEF TypeOK
      <4> QED
        BY <1>0, <3>1, <4>1 DEF TypeOK
    <3> QED
      BY <2>2, <3>1, <3>2 DEF OtherCommit
  <2> QED
    BY <2>1, <2>2
<1>2. /\ db' = View(p) /\ writer' = IF writer = p THEN None ELSE writer
      /\ conn' = [conn EXCEPT ![p] = [conn[p] EXCEPT !.txn = "none", !.data = EmptyDb]]
  BY <1>1 DEF CommitOf, NoTransaction
<1>3. EmptyDb \in Tables
  BY DEF EmptyDb, Tables, Entries, NoEntry
<1>4. TypeOK'
  <2>1. call' \in Calls
    BY <1>0, <1>1, CallStep DEF Pcs
  <2>2. conn' \in Conns
    BY <1>2, <1>3, <1>0, ConnStep DEF Txns
  <2>3. db' \in Tables
    BY <1>0, <1>2 DEF TypeOK, View
  <2> QED
    BY <1>0, <1>1, <1>2, <2>1, <2>2, <2>3, TypeParts DEF TypeOK
<1>5. \A o \in Orders : Inserted(db[o], db'[o])
  BY <1>1, CommitsRows
<1>6. conn'[p].txn = "none" /\ writer' # p /\ call'[p].pc = "idle"
  BY <1>0, <1>1, <1>2 DEF TypeOK
<1>7. \A q \in Procs : q # p => call'[q] = call[q] /\ conn'[q] = conn[q]
  BY <1>0, <1>1, <1>2 DEF TypeOK
<1>8. ProcInv(p)'
  BY <1>6 DEF ProcInv, Locked, Called, Residue, Moving, Writes, Moves
<1>9. \A o \in Orders : db[o].version \in Int /\ db'[o].version \in Int
                        /\ db'[o].version >= db[o].version
  <2>1. \A x \in Orders : db[x].version \in -1 .. MaxVersion /\ db'[x].version \in -1 .. MaxVersion
    BY <1>0, <1>4 DEF TypeOK, Tables, Entries
  <2> QED
    BY <1>5, <2>1 DEF Inserted
<1>10. db' = db \/ writer = p
  BY <1>0, <1>2 DEF View, ProcInv, Locked
<1>11. \A q \in Procs : ProcInv(q)'
  BY <1>2, <1>7, <1>8, <1>9, <1>10, Frame
<1>12. EveryMoveHasItsEvent'
  BY <1>0, <1>5 DEF GlobalInv, EveryMoveHasItsEvent, Inserted
<1>13. OneWinner'
  <2>1. \A m \in won : m[2] \in Orders /\ m[3] \in Int
    BY <1>0 DEF TypeOK
  <2> QED
    BY <1>0, <1>1, <1>9, <2>1 DEF GlobalInv, OneWinner
<1>14. Claims'
  BY <1>0, <1>1, <1>6, <1>7 DEF GlobalInv, Claims
<1> QED
  BY <1>4, <1>11, <1>12, <1>13, <1>14 DEF IInv, GlobalInv

\* The commit of a move: the committed tables gain this move and its event.
LEMMA CommitIInv ==
  ASSUME IInv, NEW p \in Procs, Commit(p)
  PROVE  IInv'
<1> USE TransactionAssumption
<1> DEFINE o == call[p].order
           h == call[p].held
<1>0. ProcInv(p) /\ TypeOK /\ GlobalInv
  BY DEF IInv
<1>1. /\ CommitOf(p) /\ won' = won /\ call[p].pc = "commit"
      /\ call' = [call EXCEPT ![p].pc = "reread"]
  BY DEF Commit, At, Goto
<1>2. /\ db' = View(p) /\ writer' = IF writer = p THEN None ELSE writer
      /\ conn' = [conn EXCEPT ![p] = [conn[p] EXCEPT !.txn = "none", !.data = EmptyDb]]
  BY <1>1 DEF CommitOf, NoTransaction
<1>3. EmptyDb \in Tables
  BY DEF EmptyDb, Tables, Entries, NoEntry
<1>4. TypeOK'
  <2>1. call' \in Calls
    BY <1>0, <1>1, CallStep DEF Pcs
  <2>2. conn' \in Conns
    BY <1>2, <1>3, <1>0, ConnStep DEF Txns
  <2>3. db' \in Tables
    BY <1>0, <1>2 DEF TypeOK, View
  <2> QED
    BY <1>0, <1>1, <1>2, <2>1, <2>2, <2>3, TypeParts DEF TypeOK
<1>5. /\ o \in Orders /\ h \in 0 .. MaxVersion - 1 /\ writer = p
      /\ db[o].version = h
      /\ db' = MovedTo(o, h + 1, db[o].events \cup {h + 1})
  BY <1>0, <1>1, <1>2 DEF ProcInv, Moving, Locked, Called, Writes, Moves, View
<1>6. /\ db'[o].version = h + 1 /\ db'[o].events = db[o].events \cup {h + 1}
      /\ \A x \in Orders : x # o => db'[x] = db[x]
  BY <1>0, <1>5 DEF TypeOK, Tables, MovedTo
<1>7. /\ call'[p].pc = "reread" /\ call'[p].order = o /\ call'[p].held = h
      /\ conn'[p].txn = "none" /\ writer' # p
  BY <1>0, <1>1, <1>2 DEF TypeOK
<1>8. \A q \in Procs : q # p => call'[q] = call[q] /\ conn'[q] = conn[q]
  BY <1>0, <1>1, <1>2 DEF TypeOK
<1>9. ProcInv(p)'
  <2>1. Locked(p)' /\ Called(p)'
    BY <1>5, <1>7 DEF Locked, Called, Writes, Moves
  <2>2. Residue(p)'
    BY <1>7 DEF Residue, Resting
  <2>3. db'[o].version >= h + 1
    <3>1. h \in Int
      BY <1>5
    <3>2. db'[o].version = h + 1
      BY <1>6
    <3> HIDE DEF o, h
    <3> QED
      BY <3>1, <3>2
  <2>4. Moving(p)'
    BY <1>7, <2>3 DEF Moving
  <2> QED
    BY <2>1, <2>2, <2>4 DEF ProcInv
<1>10. \A x \in Orders : db[x].version \in Int /\ db'[x].version \in Int
                         /\ db'[x].version >= db[x].version
  <2>1. \A x \in Orders : db[x].version \in -1 .. MaxVersion /\ db'[x].version \in -1 .. MaxVersion
    BY <1>0, <1>4 DEF TypeOK, Tables, Entries
  <2>2. \A x \in Orders : db'[x].version >= db[x].version
    <3> SUFFICES ASSUME NEW x \in Orders PROVE db'[x].version >= db[x].version
      OBVIOUS
    <3>1. CASE x = o
      <4>1. h \in Int /\ db[o].version = h
        BY <1>5
      <4>2. db'[o].version = h + 1
        BY <1>6
      <4> HIDE DEF o, h
      <4> QED
        BY <3>1, <4>1, <4>2
    <3>2. CASE x # o
      BY <1>6, <2>1, <3>2
    <3> QED
      BY <3>1, <3>2
  <2> QED
    BY <2>1, <2>2
<1>11. \A q \in Procs : ProcInv(q)'
  BY <1>2, <1>5, <1>8, <1>9, <1>10, Frame
<1>12. EveryMoveHasItsEvent'
  <2>1. \A x \in Orders : db[x].events \ {0} = 1 .. db[x].version
    BY <1>0 DEF GlobalInv, EveryMoveHasItsEvent
  <2>2. db[o].events \ {0} = 1 .. h
    BY <1>5, <2>1
  <2>3. (db[o].events \cup {h + 1}) \ {0} = (1 .. h) \cup {h + 1}
    BY <1>5, <2>2
  <2>4. (1 .. h) \cup {h + 1} = 1 .. h + 1
    BY <1>5
  <2>5. db'[o].events \ {0} = 1 .. db'[o].version
    BY <1>6, <2>3, <2>4
  <2> QED
    BY <1>6, <2>1, <2>5 DEF EveryMoveHasItsEvent
<1>13. OneWinner'
  <2>1. \A m \in won : m[2] \in Orders /\ m[3] \in Int
    BY <1>0 DEF TypeOK
  <2> QED
    BY <1>0, <1>1, <1>10, <2>1 DEF GlobalInv, OneWinner
\* Before the commit the row was at h: nobody can have moved it to h + 1.
<1>14. \A m \in won : ~(m[2] = o /\ m[3] = h + 1)
  BY <1>0, <1>5 DEF GlobalInv, OneWinner
<1>15. \A q \in Procs : (q # p /\ call[q].pc = "reread") =>
         ~(call[q].order = o /\ call[q].held = h)
  <2> SUFFICES ASSUME NEW q \in Procs, call[q].pc = "reread", call[q].order = o,
                      call[q].held = h
               PROVE  FALSE
    OBVIOUS
  <2>1. db[o].version >= h + 1
    BY DEF IInv, ProcInv, Moving
  <2> QED
    BY <1>5, <2>1
<1>16. Claims'
  <2> SUFFICES ASSUME NEW r \in Procs, call'[r].pc = "reread"
               PROVE  /\ \A m \in won : ~(m[2] = call'[r].order /\ m[3] = call'[r].held + 1)
                      /\ \A q \in Procs :
                           (/\ call'[q].pc = "reread" /\ call'[q].order = call'[r].order
                            /\ call'[q].held = call'[r].held) => q = r
    BY <1>1 DEF Claims
  <2>1. CASE r = p
    BY <1>7, <1>8, <1>14, <1>15, <2>1
  <2>2. CASE r # p
    BY <1>0, <1>7, <1>8, <1>15, <2>2 DEF GlobalInv, Claims
  <2> QED
    BY <2>1, <2>2
<1> QED
  BY <1>4, <1>11, <1>12, <1>13, <1>16 DEF IInv, GlobalInv

\* The row is returned to the caller, who is the only one to claim it.
LEMMA RereadIInv ==
  ASSUME IInv, NEW p \in Procs, Reread(p)
  PROVE  IInv'
<1> USE TransactionAssumption
<1> DEFINE o == call[p].order
           h == call[p].held
<1>0. ProcInv(p) /\ TypeOK /\ GlobalInv
  BY DEF IInv
<1>1. /\ won' = won \cup {<<p, o, h + 1>>} /\ call[p].pc = "reread"
      /\ call' = [call EXCEPT ![p].pc = "idle"] /\ UNCHANGED <<db, writer, conn>>
  BY DEF Reread, At, Return, Goto
<1>2. o \in Orders /\ h \in 0 .. MaxVersion - 1 /\ conn[p].txn = "none"
      /\ db[o].version >= h + 1
  BY <1>0, <1>1 DEF ProcInv, Called, Moving, Moves
<1>3. TypeOK'
  <2>1. h + 1 \in 0 .. MaxVersion
    BY <1>2
  <2>2. won' \subseteq Procs \X Orders \X (0 .. MaxVersion)
    BY <1>0, <1>1, <1>2, <2>1 DEF TypeOK
  <2>3. "idle" \in Pcs
    BY DEF Pcs
  <2>4. /\ db' \in Tables /\ writer' \in Procs \cup {None}
        /\ conn' \in [Procs -> [usable : BOOLEAN, txn : {"none", "deferred", "write"},
                                data : Tables]]
    BY <1>0, <1>1 DEF TypeOK
  <2>5. call' \in [Procs -> [pc : Pcs, order : Orders \cup {None},
                             held : -1 .. MaxVersion,
                             last : {"none", "register", "move"}]]
    BY <1>0, <1>1, <2>3 DEF TypeOK
  <2> QED
    BY <2>2, <2>4, <2>5 DEF TypeOK
<1>4. call'[p].pc = "idle"
  BY <1>0, <1>1 DEF TypeOK
<1>5. \A q \in Procs : q # p => call'[q] = call[q] /\ conn'[q] = conn[q]
  BY <1>0, <1>1 DEF TypeOK
<1>6. ProcInv(p)'
  BY <1>0, <1>1, <1>2, <1>4 DEF ProcInv, Locked, Called, Residue, Moving, Writes, Moves
<1>7. \A x \in Orders : db'[x].version \in Int /\ db'[x].version >= db[x].version
  BY <1>0, <1>1 DEF TypeOK, Tables, Entries
<1>8. \A q \in Procs : ProcInv(q)'
  BY <1>1, <1>5, <1>6, <1>7, Frame
<1>9. EveryMoveHasItsEvent'
  BY <1>0, <1>1 DEF GlobalInv, EveryMoveHasItsEvent
<1>10. OneWinner'
  <2>1. \A m \in won : ~(m[2] = o /\ m[3] = h + 1)
    BY <1>0, <1>1 DEF GlobalInv, Claims
  <2> QED
    BY <1>0, <1>1, <1>2, <2>1 DEF GlobalInv, OneWinner
<1>11. Claims'
  <2> SUFFICES ASSUME NEW r \in Procs, call'[r].pc = "reread"
               PROVE  /\ \A m \in won' : ~(m[2] = call'[r].order /\ m[3] = call'[r].held + 1)
                      /\ \A q \in Procs :
                           (/\ call'[q].pc = "reread" /\ call'[q].order = call'[r].order
                            /\ call'[q].held = call'[r].held) => q = r
    BY DEF Claims
  <2>1. r # p /\ call'[r] = call[r] /\ call[r].held \in Int
    BY <1>0, <1>4, <1>5 DEF TypeOK
  <2>2. ~(o = call[r].order /\ h = call[r].held)
    BY <1>0, <1>1, <2>1 DEF GlobalInv, Claims
  <2>3. \A m \in won : ~(m[2] = call[r].order /\ m[3] = call[r].held + 1)
    BY <1>0, <2>1 DEF GlobalInv, Claims
  <2>4. \A m \in won' : ~(m[2] = call[r].order /\ m[3] = call[r].held + 1)
    BY <1>1, <1>2, <2>1, <2>2, <2>3
  <2>5. \A q \in Procs :
          (/\ call'[q].pc = "reread" /\ call'[q].order = call[r].order
           /\ call'[q].held = call[r].held) => q = r
    BY <1>0, <1>4, <1>5, <2>1 DEF GlobalInv, Claims
  <2> QED
    BY <2>1, <2>4, <2>5
<1> QED
  BY <1>3, <1>8, <1>9, <1>10, <1>11 DEF IInv, GlobalInv

\* Every step preserves the inductive invariant.
LEMMA NextIInv == IInv /\ [Next]_vars => IInv'
<1> SUFFICES ASSUME IInv, [Next]_vars PROVE IInv'
  OBVIOUS
<1>1. CASE UNCHANGED vars
  <2>1. UNCHANGED <<db, writer, conn, call, won>>
    BY <1>1 DEF vars
  <2>2. TypeOK'
    BY <2>1 DEF IInv, TypeOK
  <2>3. ASSUME NEW p \in Procs PROVE ProcInv(p)'
    <3>1. ProcInv(p)
      BY DEF IInv
    <3>2. Locked(p)' /\ Called(p)' /\ Residue(p)'
      BY <2>1, <3>1 DEF ProcInv, Locked, Called, Residue
    <3>3. Moving(p)'
      BY <2>1, <3>1 DEF ProcInv, Moving, MovedTo
    <3> QED
      BY <3>2, <3>3 DEF ProcInv
  <2>4. GlobalInv'
    BY <2>1 DEF IInv, GlobalInv, EveryMoveHasItsEvent, OneWinner, Claims
  <2> QED
    BY <2>2, <2>3, <2>4 DEF IInv
<1>2. ASSUME NEW p \in Procs, RegisterRaises(p) PROVE IInv'
  BY <1>2, FailsIInv DEF RegisterRaises, Return, Goto
<1>3. ASSUME NEW p \in Procs, WriteFails(p) PROVE IInv'
  BY <1>3, FailsIInv DEF WriteFails, Goto
<1> QED
  BY <1>1, <1>2, <1>3, RegisterIInv, RegisterCommitIInv, WalkIInv, MoveIInv, CommitIInv,
     RereadIInv, EndIInv DEF Next, RegisterStep, MoveStep

\* The inductive invariant holds in every reachable state.
THEOREM LedgerInvariance == Spec => []IInv
<1> QED
  BY InitIInv, NextIInv, PTL DEF Spec

\* No lost update, for any number of processes: of all who are told that they
\* moved a row to a version one only is right, and the move is committed.
THEOREM NoLostUpdate == Spec => []OneWinner
<1>1. IInv => OneWinner
  BY DEF IInv, GlobalInv
<1> QED
  BY <1>1, LedgerInvariance, PTL

\* Whatever fails, a row and its history are committed together: one event
\* for every version after the first.
THEOREM HistoryIsComplete == Spec => []EveryMoveHasItsEvent
<1>1. IInv => EveryMoveHasItsEvent
  BY DEF IInv, GlobalInv
<1> QED
  BY <1>1, LedgerInvariance, PTL

\* A compare-and-set that returned or raised has given the write lock back.
THEOREM LockIsReturned == Spec => []MoveLeavesNoLock
<1>1. IInv => MoveLeavesNoLock
  BY DEF IInv, ProcInv, Locked, Residue, MoveLeavesNoLock
<1> QED
  BY <1>1, LedgerInvariance, PTL

\* A move is committed alone.
THEOREM CommitAlone == Spec => MovesCommitAlone
<1> DEFINE Alone == \A o, x \in Orders :
             (db[o].version >= 0 /\ db'[o] # db[o] /\ db'[x] # db[x]) => o = x
<1>1. IInv /\ [Next]_vars => [Alone]_vars
  <2> SUFFICES ASSUME IInv, Next PROVE Alone
    OBVIOUS
  <2>1. CASE db' = db
    BY <2>1
  <2>2. ASSUME NEW p \in Procs, CommitNew(p) \/ OtherCommit(p) PROVE Alone
    <3>1. \A o \in Orders : Inserted(db[o], db'[o])
      BY <2>2, CommitsRows DEF CommitNew, OtherCommit, At
    <3> QED
      BY <3>1 DEF Inserted
  <2>3. ASSUME NEW p \in Procs, Commit(p) PROVE Alone
    <3>1. db' = MovedTo(call[p].order, call[p].held + 1,
                        db[call[p].order].events \cup {call[p].held + 1})
      BY <2>3 DEF Commit, At, CommitOf, View, IInv, ProcInv, Moving, Locked, Writes
    <3>2. \A x \in Orders : x # call[p].order => db'[x] = db[x]
      BY <3>1 DEF MovedTo, IInv, TypeOK, Tables
    <3> QED
      BY <3>2
  <2> QED
    BY <2>1, <2>2, <2>3 DEF Next, RegisterStep, MoveStep, Register, Load, Insert,
       InsertRaises, CreationEvent, RegisterRaises, Begin, BeginRaises, Update, Conflict,
       Event, WriteFails, Rollback, RollbackFails, Close, CloseFails, Reread, RereadFails,
       Restart, Fails, Discard
<1> QED
  BY <1>1, LedgerInvariance, PTL DEF Spec, MovesCommitAlone

-----------------------------------------------------------------------------
(* The refinement of AtomicLedger.                                         *)

Requests == [p \in Procs |-> Request(p)]

\* A step of p changes no request but its own.
LEMMA OwnRequest ==
  ASSUME NEW p \in Procs, \A q \in Procs : q # p => call'[q] = call[q]
  PROVE  Requests' = [Requests EXCEPT ![p] = Request(p)']
BY DEF Requests, Request, At

\* Only Register, Load and Restart give a process another call.
LEMMA OthersCalls ==
  ASSUME IInv, NEW p \in Procs,
         \/ \E o \in Orders : Register(p, o) \/ Load(p, o)
         \/ RegisterStep(p) \/ MoveStep(p) \/ Restart(p)
  PROVE  \A q \in Procs : q # p => call'[q] = call[q]
<1>1. call \in [Procs -> [pc : Pcs, order : Orders \cup {None}, held : -1 .. MaxVersion,
                          last : {"none", "register", "move"}]]
  BY DEF IInv, TypeOK
<1>2. \E next : call' = [call EXCEPT ![p] = next]
  <2>1. CASE \E o \in Orders : Register(p, o) \/ Load(p, o)
    BY <2>1 DEF Register, Load
  <2>2. CASE RegisterStep(p) \/ MoveStep(p)
    <3>1. CASE \E pc \in Pcs : Goto(p, pc)
      BY <1>1, <3>1 DEF Goto
    <3>2. CASE Begin(p)
      BY <3>2 DEF Begin
    <3>3. CASE OtherCommit(p)
      BY <1>1, <3>3 DEF OtherCommit
    <3> QED
      BY <2>2, <3>1, <3>2, <3>3
      DEF RegisterStep, MoveStep, Insert, InsertRaises, CreationEvent, CommitNew,
          RegisterRaises, BeginRaises, Update, Conflict, Event, Commit, WriteFails,
          Rollback, RollbackFails, Close, CloseFails, Reread, RereadFails, Return, Pcs
  <2>3. CASE Restart(p)
    BY <2>3 DEF Restart
  <2> QED
    BY <2>1, <2>2, <2>3
<1> QED
  BY <1>1, <1>2

\* The statements before the commit and the failures that are still being
\* handled are nothing to the caller.
LEMMA StatementsStutter ==
  ASSUME IInv, NEW p \in Procs,
         \/ \E o \in Orders : Register(p, o)
         \/ Insert(p) \/ InsertRaises(p) \/ CreationEvent(p) \/ RegisterRaises(p)
         \/ Begin(p) \/ Update(p) \/ Conflict(p) \/ Event(p) \/ WriteFails(p)
         \/ RollbackFails(p) \/ CloseFails(p)
  PROVE  UNCHANGED won /\ Request(p)' = Request(p)
<1>1. call \in [Procs -> [pc : Pcs, order : Orders \cup {None}, held : -1 .. MaxVersion,
                          last : {"none", "register", "move"}]]
  BY DEF IInv, TypeOK
<1>2. CASE \E o \in Orders : Register(p, o)
  BY <1>1, <1>2 DEF Register, Request, At, Moves
<1>3. CASE Begin(p)
  BY <1>1, <1>3 DEF Begin, Request, At, Moves
<1>4. CASE Insert(p) \/ InsertRaises(p) \/ CreationEvent(p) \/ RegisterRaises(p)
  BY <1>1, <1>4
  DEF Insert, InsertRaises, CreationEvent, RegisterRaises, Goto, Return, Request, At, Moves
<1>5. CASE \/ Update(p) \/ Conflict(p) \/ Event(p) \/ WriteFails(p)
           \/ RollbackFails(p) \/ CloseFails(p)
  BY <1>1, <1>5
  DEF Update, Conflict, Event, WriteFails, RollbackFails, CloseFails, Goto, Request, At, Moves
<1> QED
  BY <1>2, <1>3, <1>4, <1>5

\* The row that was loaded is what the caller asks to move.
LEMMA LoadAsks ==
  ASSUME IInv, NEW p \in Procs, NEW o \in Orders, Load(p, o)
  PROVE  \E v \in 0 .. MaxVersion - 1 : Abstract!Ask(p, o, v)
<1> DEFINE v == View(p)[o].version
           next == [pc |-> "begin", order |-> o, held |-> v, last |-> call[p].last]
<1>1. call' = [call EXCEPT ![p] = next] /\ At(p, "idle") /\ v \in 0 .. MaxVersion - 1
      /\ UNCHANGED <<db, won>>
  BY DEF Load
<1>2. call'[p] = next
  BY <1>1 DEF IInv, TypeOK
<1>3. Request(p).state = "none"
  BY <1>1 DEF Request, At, Moves
<1>4. Request(p)' = [state |-> "asked", order |-> o, from |-> v]
  <2>1. next.pc = "begin" /\ next.order = o /\ next.held = v
    OBVIOUS
  <2> HIDE DEF v, next
  <2> QED
    BY <1>2, <2>1 DEF Request, At, Moves
<1>5. Requests' = [Requests EXCEPT ![p] = Request(p)']
  BY OthersCalls, OwnRequest
<1> HIDE DEF v, next
<1>6. Abstract!Ask(p, o, v)
  BY <1>1, <1>3, <1>4, <1>5 DEF Abstract!Ask, Requests
<1> QED
  BY <1>1, <1>6

\* A call that ends in an exception, or with its process.
LEMMA EndRaises ==
  ASSUME IInv, NEW p \in Procs,
         BeginRaises(p) \/ Rollback(p) \/ Close(p) \/ RereadFails(p) \/ Restart(p)
  PROVE  Abstract!Raise(p) \/ UNCHANGED <<db, Requests, won>>
<1>1. call \in [Procs -> [pc : Pcs, order : Orders \cup {None}, held : -1 .. MaxVersion,
                          last : {"none", "register", "move"}]]
  BY DEF IInv, TypeOK
<1>2. UNCHANGED <<db, won>>
  BY DEF BeginRaises, Rollback, Close, RereadFails, Restart, Discard
<1>3. call'[p].pc = "idle" /\ (Restart(p) \/ call[p].pc \in Moves)
  BY <1>1 DEF BeginRaises, Rollback, Close, RereadFails, Restart, NoCall, Return, Goto,
              At, Moves
<1>4. Request(p)' = [state |-> "none", order |-> None, from |-> -1]
  BY <1>3 DEF Request, Moves
<1>5. Requests' = [Requests EXCEPT ![p] = Request(p)']
  BY OthersCalls, OwnRequest DEF MoveStep
<1>6. CASE call[p].pc \in Moves
  <2>1. Request(p).state # "none"
    BY <1>6 DEF Request
  <2> QED
    BY <1>2, <1>4, <1>5, <2>1 DEF Abstract!Raise, Abstract!NoRequest, Requests
<1>7. CASE call[p].pc \notin Moves
  <2>1. Request(p)' = Request(p)
    BY <1>4, <1>7 DEF Request
  <2> QED
    BY <1>2, <1>5, <2>1 DEF Requests
<1> QED
  BY <1>6, <1>7

\* The commit is the move.
LEMMA CommitMoves ==
  ASSUME IInv, NEW p \in Procs, Commit(p)
  PROVE  Abstract!Move(p)
<1> DEFINE o == call[p].order
           h == call[p].held
<1>1. /\ CommitOf(p) /\ won' = won /\ call[p].pc = "commit"
      /\ call' = [call EXCEPT ![p].pc = "reread"]
  BY DEF Commit, At, Goto
<1>2. /\ o \in Orders /\ db[o].version = h
      /\ db' = MovedTo(o, h + 1, db[o].events \cup {h + 1})
  BY <1>1 DEF IInv, ProcInv, Moving, Locked, Called, Writes, Moves, View, CommitOf
<1>3. call'[p].pc = "reread" /\ call'[p].order = o /\ call'[p].held = h
  BY <1>1 DEF IInv, TypeOK
<1>4. Request(p) = [state |-> "asked", order |-> o, from |-> h]
  BY <1>1 DEF Request, At, Moves
<1>5. Request(p)' = [state |-> "done", order |-> o, from |-> h]
  BY <1>3 DEF Request, At, Moves
<1>6. Requests' = [Requests EXCEPT ![p] = Request(p)']
  BY OthersCalls, OwnRequest DEF MoveStep
<1> HIDE DEF o, h
<1>7. Requests' = [Requests EXCEPT ![p].state = "done"]
  <2>1. Requests[p] = [state |-> "asked", order |-> o, from |-> h]
    BY <1>4 DEF Requests
  <2>2. [Requests[p] EXCEPT !.state = "done"] = [state |-> "done", order |-> o, from |-> h]
    BY <2>1
  <2> QED
    BY <1>5, <1>6, <2>2
<1>8. Requests[p].state = "asked" /\ Requests[p].order = o /\ Requests[p].from = h
  BY <1>4 DEF Requests
<1>9. db' = [db EXCEPT ![o] = [version |-> h + 1, events |-> db[o].events \cup {h + 1}]]
  BY <1>2 DEF MovedTo
<1> QED
  BY <1>1, <1>2, <1>7, <1>8, <1>9 DEF Abstract!Move, Requests

\* The row that is returned is the answer.
LEMMA RereadAnswers ==
  ASSUME IInv, NEW p \in Procs, Reread(p)
  PROVE  Abstract!Answer(p)
<1>1. /\ won' = won \cup {<<p, call[p].order, call[p].held + 1>>}
      /\ call' = [call EXCEPT ![p].pc = "idle"] /\ call[p].pc = "reread" /\ db' = db
  BY DEF Reread, At, Return, Goto
<1>2. call'[p].pc = "idle"
  BY <1>1 DEF IInv, TypeOK
<1>3. /\ Request(p).state = "done" /\ Request(p).order = call[p].order
      /\ Request(p).from = call[p].held
  BY <1>1 DEF Request, At, Moves
<1>4. Request(p)' = [state |-> "none", order |-> None, from |-> -1]
  BY <1>2 DEF Request, Moves
<1>5. Requests' = [Requests EXCEPT ![p] = Request(p)']
  BY OthersCalls, OwnRequest DEF MoveStep
<1> QED
  BY <1>1, <1>3, <1>4, <1>5 DEF Abstract!Answer, Abstract!NoRequest, Requests

\* A registration is committed: rows appear.
LEMMA CommitCreates ==
  ASSUME IInv, IInv', NEW p \in Procs, CommitNew(p) \/ OtherCommit(p)
  PROVE  \E S \in SUBSET Orders : Abstract!Create(S)
<1> DEFINE S == {o \in Orders : db'[o] # db[o]}
           history == [o \in S |-> db'[o].events]
<1>1. CommitOf(p) /\ won' = won /\ call[p].pc \in {"idle", "commitNew"}
      /\ (call' = call \/ call' = [call EXCEPT ![p].pc = "idle"])
  BY DEF CommitNew, OtherCommit, At, Return, Goto
<1>2. \A o \in Orders : Inserted(db[o], db'[o])
  BY <1>1, CommitsRows
<1>3. \A o \in S : db[o].version = -1 /\ db'[o].version = 0 /\ db'[o].events \subseteq {0}
  BY <1>2 DEF Inserted
<1>4. history \in [S -> SUBSET {0}]
  BY <1>3
<1>5. db' \in [Orders -> Entries]
  BY DEF IInv, TypeOK, Tables
<1>6. \A o \in S : db'[o] = [version |-> 0, events |-> history[o]]
  <2> SUFFICES ASSUME NEW o \in S PROVE db'[o] = [version |-> 0, events |-> history[o]]
    OBVIOUS
  <2>1. db'[o] \in Entries
    BY <1>5
  <2>2. db'[o] = [version |-> db'[o].version, events |-> db'[o].events]
    BY <2>1 DEF Entries
  <2>3. history[o] = db'[o].events
    OBVIOUS
  <2> QED
    BY <1>3, <2>2, <2>3
<1>7. \A o \in Orders : o \notin S => db'[o] = db[o]
  OBVIOUS
<1>8. Requests' = Requests
  <2>1. call \in [Procs -> [pc : Pcs, order : Orders \cup {None}, held : -1 .. MaxVersion,
                            last : {"none", "register", "move"}]]
    BY DEF IInv, TypeOK
  <2>2. \A q \in Procs : Request(q)' = Request(q)
    BY <1>1, <2>1 DEF Request, At, Moves
  <2> QED
    BY <2>2 DEF Requests
<1>9. S \in SUBSET Orders
  OBVIOUS
<1> HIDE DEF S, history
<1>10. db' = [o \in Orders |-> IF o \in S THEN [version |-> 0, events |-> history[o]]
                               ELSE db[o]]
  BY <1>5, <1>6, <1>7
<1>11. Abstract!Create(S)
  BY <1>1, <1>3, <1>4, <1>8, <1>10 DEF Abstract!Create, Requests
<1> QED
  BY <1>9, <1>11

\* For any processes and orders, and whatever fails, the statements of
\* compare_and_set_state implement one atomic compare-and-set: the commit is
\* the move, a registration's commit lets rows appear, and all else is a
\* request, an answer, an exception or a stutter.
THEOREM Refinement == Spec => ImplementsLedger
<1>1. Init => Abstract!Init
  <2> SUFFICES ASSUME Init PROVE Abstract!Init
    OBVIOUS
  <2>1. \A p \in Procs : Request(p) = [state |-> "none", order |-> None, from |-> -1]
    BY DEF Init, Request, NoCall, Moves
  <2> QED
    BY <2>1 DEF Init, Abstract!Init, Abstract!NoRequest, EmptyDb, NoEntry
<1>2. IInv /\ IInv' /\ [Next]_vars => [Abstract!Next]_<<db, Requests, won>>
  <2> SUFFICES ASSUME IInv, IInv', [Next]_vars, ~UNCHANGED <<db, Requests, won>>
               PROVE  Abstract!Next
    OBVIOUS
  <2>1. CASE UNCHANGED vars
    <3>1. UNCHANGED <<db, call, won>>
      BY <2>1 DEF vars
    <3>2. \A p \in Procs : Request(p)' = Request(p)
      BY <3>1 DEF Request, At
    <3> QED
      BY <3>1, <3>2 DEF Requests
  <2>2. ASSUME NEW p \in Procs, NEW o \in Orders, Load(p, o) PROVE Abstract!Next
    BY <2>2, LoadAsks DEF Abstract!Next
  <2>3. ASSUME NEW p \in Procs,
               BeginRaises(p) \/ Rollback(p) \/ Close(p) \/ RereadFails(p) \/ Restart(p)
        PROVE  Abstract!Next
    BY <2>3, EndRaises DEF Abstract!Next
  <2>4. ASSUME NEW p \in Procs, Commit(p) \/ Reread(p) PROVE Abstract!Next
    BY <2>4, CommitMoves, RereadAnswers DEF Abstract!Next
  <2>5. ASSUME NEW p \in Procs, CommitNew(p) \/ OtherCommit(p) PROVE Abstract!Next
    BY <2>5, CommitCreates DEF Abstract!Next
  <2>6. ASSUME NEW p \in Procs,
               \/ \E o \in Orders : Register(p, o)
               \/ Insert(p) \/ InsertRaises(p) \/ CreationEvent(p) \/ RegisterRaises(p)
               \/ Begin(p) \/ Update(p) \/ Conflict(p) \/ Event(p) \/ WriteFails(p)
               \/ RollbackFails(p) \/ CloseFails(p)
        PROVE  FALSE
    <3>1. won' = won /\ Request(p)' = Request(p)
      BY <2>6, StatementsStutter
    <3>2. Requests' = [Requests EXCEPT ![p] = Request(p)']
      BY <2>6, OthersCalls, OwnRequest DEF RegisterStep, MoveStep
    <3>3. Requests' = Requests
      BY <3>1, <3>2 DEF Requests
    <3>4. db' # db
      BY <3>1, <3>3
    <3> QED
      BY <2>6, <3>4
      DEF Register, Insert, InsertRaises, CreationEvent, RegisterRaises, Begin, Update,
          Conflict, Event, WriteFails, RollbackFails, CloseFails, Fails, Discard
  <2> QED
    BY <2>1, <2>2, <2>3, <2>4, <2>5, <2>6 DEF Next, RegisterStep, MoveStep
<1>3. Requests = [p \in Procs |-> Request(p)]
  BY DEF Requests
<1> QED
  BY <1>1, <1>2, LedgerInvariance, PTL
  DEF Spec, ImplementsLedger, Abstract!Spec, Abstract!vars, Requests

=============================================================================
