------------------------ MODULE OrphanReleaseProofs ------------------------
(***************************************************************************)
(* Theorems about OrphanRelease: the order lifecycle with an operator's    *)
(* command that moves a row without the single-run lock.  A run may no     *)
(* longer hold the row it read, so what OrderLifecycleProofs concludes     *)
(* from that is shown here from less.                                      *)
(***************************************************************************)
EXTENDS OrphanRelease, OrderLifecycleProofs

-----------------------------------------------------------------------------
(* The inductive invariant. *)

\* The ledger's day is the day at the broker.
DatesAgree ==
  \A o \in Orders :
    /\ kis[o].st = "transit" => row[o].day = today
    /\ kis[o].st \in AtBroker => kis[o].day = row[o].day

\* A command at work: its row, and what it still has to ask.
Releases ==
  [order : Orders, held : Rows, reached : BOOLEAN, hidden : Int,
   ask : {Questions, <<"positions", "fills">>, <<"fills">>, <<>>}]

\* What the answers so far say of an order that had reached the broker when
\* the command began: once the open orders were asked it is over, and once
\* the fills were its shares are those that were hidden then.
AskedSoFar ==
  release # NoRelease =>
    /\ release \in Releases
    /\ release.reached =>
         /\ kis[release.order].st \in AtBroker
         /\ release.ask # Questions => kis[release.order].st = "closed"
         /\ release.ask = <<>> => kis[release.order].filled = release.hidden

\* The rows ended are orders, and ended rightly.
EndedRightly == released \subseteq Releases /\ EarlierOrdersAreSeen

ReleaseInv ==
  /\ TypeOK /\ LockOwner /\ SettlesLive /\ SignalKey
  /\ HaltHistory /\ (\A r \in Runs : UnknownSeen(r))
  /\ RequestOnce /\ KisTruth /\ DatesAgree
  /\ AskedSoFar /\ EndedRightly

-----------------------------------------------------------------------------
(* The broker's side. *)

\* An order that has reached the broker stays there, and one that is over
\* takes no more shares.
KisKept ==
  \A o \in Orders :
    /\ kis[o].st = "open" => kis'[o].st \in AtBroker
    /\ kis[o].st = "closed" => kis'[o].st = "closed" /\ kis'[o].filled = kis[o].filled

\* What the ledger and the calendar may do under the broker's books: an order
\* the broker knows keeps its row's day.
LEMMA BooksKept ==
  ASSUME RequestOnce, KisTruth, DatesAgree, RowsKept,
         kis' = kis, wires' = wires, today' = today
  PROVE  KisTruth' /\ KisKept /\ DatesAgree'
  <1>1. \A o \in Orders : kis[o].st # "none" => row'[o].day = row[o].day
    BY DEF KisTruth, RequestOnce, RowsKept, Unsent
  <1>2. KisTruth' /\ KisKept
    BY DEF KisTruth, KisKept, AtBroker
  <1> QED BY <1>1, <1>2 DEF DatesAgree, AtBroker

\* One order changes at the broker, and stays true to itself and to its row.
LEMMA BooksOne ==
  ASSUME TypeOK, KisTruth, DatesAgree, NEW o \in Orders, NEW state \in KisOrders,
         OrderBecomes(o, state), row' = row, today' = today,
         \A x \in Orders \ {o} : wires'[x] = wires[x],
         wires'[o] = 0 => state.st = "none",
         state.st \in {"none", "transit", "refused"} => state.filled = 0,
         state.filled <= Qty[o],
         state.filled = Qty[o] => state.st = "closed",
         state.cancelled => state.st = "closed",
         state.shown <= state.filled,
         state.st = "transit" => row[o].day = today,
         state.st \in AtBroker => state.day = row[o].day,
         kis[o].st = "open" => state.st \in AtBroker,
         kis[o].st = "closed" => state.st = "closed" /\ state.filled = kis[o].filled
  PROVE  KisTruth' /\ KisKept /\ DatesAgree'
  <1>1. kis'[o] = state /\ \A x \in Orders \ {o} : kis'[x] = kis[x]
    BY BecomesEffect
  <1>2. KisTruth'
    BY <1>1 DEF KisTruth
  <1>3. KisKept
    BY <1>1 DEF KisKept, AtBroker
  <1>4. DatesAgree'
    BY <1>1 DEF DatesAgree
  <1> QED BY <1>2, <1>3, <1>4

\* The broker's own steps.
LEMMA MarketBooks ==
  ASSUME TypeOK, KisTruth, DatesAgree, NEW o \in Orders, Market(o),
         wires' = wires, row' = row, today' = today
  PROVE  KisTruth' /\ KisKept /\ DatesAgree'
  <1>0. kis[o] \in KisOrders /\ today \in Days
    BY DEF TypeOK
  <1>1. KisTruth'
    BY MarketTruth
  <1>2. PICK state : OrderBecomes(o, state)
    BY DEF Market, Accept, Refuse, Fill, Publish, TakeCancel, RefuseCancel
  <1>3. \A x \in Orders \ {o} : kis'[x] = kis[x]
    BY <1>2, BecomesEffect
  <1>4. /\ kis'[o].st = "transit" => row[o].day = today
        /\ kis'[o].st \in AtBroker => kis'[o].day = row[o].day
        /\ kis[o].st = "open" => kis'[o].st \in AtBroker
        /\ kis[o].st = "closed" => kis'[o].st = "closed" /\ kis'[o].filled = kis[o].filled
    <2> DEFINE accepted == [kis[o] EXCEPT !.st = "open", !.day = today]
               refused == [kis[o] EXCEPT !.st = "refused"]
               st == IF kis[o].filled + 1 = Qty[o] THEN "closed" ELSE "open"
               filled == [kis[o] EXCEPT !.filled = kis[o].filled + 1, !.st = st]
               gone == [kis[o] EXCEPT !.cancel = FALSE, !.st = "closed", !.cancelled = TRUE]
               kept == [kis[o] EXCEPT !.cancel = FALSE]
    <2>0. /\ kis[o].st = "transit" => row[o].day = today
          /\ kis[o].st \in AtBroker => kis[o].day = row[o].day
      BY DEF DatesAgree
    <2>1. CASE Accept(o)
      <3>1. kis[o].st = "transit" /\ kis'[o] = accepted
        BY <2>1, BecomesEffect DEF Accept
      <3>2. accepted.st = "open" /\ accepted.day = today
        BY <1>0 DEF KisOrders
      <3> QED BY <2>0, <3>1, <3>2 DEF AtBroker
    <2>2. CASE Refuse(o)
      <3>1. kis[o].st = "transit" /\ kis'[o] = refused
        BY <2>2, BecomesEffect DEF Refuse
      <3>2. refused.st = "refused"
        BY <1>0 DEF KisOrders
      <3> QED BY <3>1, <3>2 DEF AtBroker
    <2>3. CASE Fill(o)
      <3>1. kis[o].st = "open" /\ kis'[o] = filled
        BY <2>3, BecomesEffect DEF Fill, IsOpen
      <3>2. st \in AtBroker
        BY DEF AtBroker
      <3>3. filled.st = st /\ filled.day = kis[o].day
        <4> HIDE DEF st
        <4> QED BY <1>0 DEF KisOrders
      <3> HIDE DEF st, filled
      <3> QED BY <2>0, <3>1, <3>2, <3>3 DEF AtBroker
    <2>4. CASE TakeCancel(o)
      <3>1. kis[o].st = "open" /\ kis'[o] = gone
        BY <2>4, BecomesEffect DEF TakeCancel, IsOpen
      <3>2. gone.st = "closed" /\ gone.day = kis[o].day
        BY <1>0 DEF KisOrders
      <3> QED BY <2>0, <3>1, <3>2 DEF AtBroker
    <2>5. CASE RefuseCancel(o)
      <3>1. kis'[o] = kept
        BY <2>5, BecomesEffect DEF RefuseCancel
      <3>2. kept.st = kis[o].st /\ kept.day = kis[o].day /\ kept.filled = kis[o].filled
        BY <1>0 DEF KisOrders
      <3> QED BY <2>0, <3>1, <3>2 DEF AtBroker
    <2>6. CASE Publish(o)
      <3> DEFINE n == kis[o].shown + 1
                 public == [kis[o] EXCEPT !.shown = n]
      <3>1. kis'[o] = public
        BY <2>6, BecomesEffect DEF Publish
      <3> HIDE DEF n
      <3>2. public.st = kis[o].st /\ public.day = kis[o].day /\ public.filled = kis[o].filled
        BY <1>0 DEF KisOrders
      <3> QED BY <2>0, <3>1, <3>2 DEF AtBroker
    <2> QED BY <2>1, <2>2, <2>3, <2>4, <2>5, <2>6 DEF Market
  <1>5. KisKept
    BY <1>3, <1>4 DEF KisKept, AtBroker
  <1>6. DatesAgree'
    BY <1>3, <1>4 DEF DatesAgree
  <1> QED BY <1>1, <1>5, <1>6

\* The end of a day.
LEMMA DayEndBooks ==
  ASSUME TypeOK, KisTruth, DatesAgree, DayEnd, wires' = wires, row' = row
  PROVE  KisTruth' /\ KisKept /\ DatesAgree'
  <1>1. ASSUME NEW o \in Orders
        PROVE  /\ kis'[o].filled = kis[o].filled /\ kis'[o].day = kis[o].day
               /\ kis'[o].st = IF kis[o].st = "open" THEN "closed"
                               ELSE IF kis[o].st = "transit" THEN "refused"
                               ELSE kis[o].st
    <2>1. kis[o] \in KisOrders
      BY DEF TypeOK
    <2>2. CASE kis[o].st \in {"open", "transit"}
      <3>1. kis'[o] = [kis[o] EXCEPT !.st = IF kis[o].st = "open" THEN "closed"
                                             ELSE "refused", !.cancel = FALSE]
        BY <2>2 DEF DayEnd
      <3> QED BY <2>1, <2>2, <3>1 DEF KisOrders
    <2>3. CASE kis[o].st \notin {"open", "transit"}
      <3>1. kis'[o] = [kis[o] EXCEPT !.cancel = FALSE]
        BY <2>3 DEF DayEnd
      <3> QED BY <2>1, <2>3, <3>1 DEF KisOrders
    <2> QED BY <2>2, <2>3
  <1>2. KisTruth'
    BY DayEndTruth
  <1>3. KisKept
    BY <1>1 DEF KisKept, AtBroker
  <1>4. DatesAgree'
    BY <1>1 DEF DatesAgree, AtBroker
  <1> QED BY <1>2, <1>3, <1>4

\* Every step of the lifecycle keeps the books, and their days.
LEMMA BooksStep ==
  ASSUME TypeOK, LockOwner, SettlesLive, RequestOnce, KisTruth, DatesAgree,
         [Next]_vars
  PROVE  KisTruth' /\ KisKept /\ DatesAgree'
  <1>0. RowsKept
    BY RowsKeptStep
  <1>1. ASSUME NEW r \in Runs, Send(r), kis' # kis
        PROVE  KisTruth' /\ KisKept /\ DatesAgree'
    <2> DEFINE o == run[r].order
               state == [kis[o] EXCEPT !.st = "transit"]
    <2>1. /\ run[r].pc = "send" /\ SendOrder(o) /\ row' = row /\ today' = today
          /\ wires' = [wires EXCEPT ![o] = wires[o] + 1]
      BY <1>1 DEF Send, At
    <2>2. o \in Orders /\ wires[o] = 0 /\ row[o].day = today
      BY <2>1 DEF LockOwner, RequestOnce, BeforeWire
    <2>3. wires'[o] = 1 /\ \A x \in Orders \ {o} : wires'[x] = wires[x]
      BY <2>1, <2>2 DEF TypeOK
    <2>4. /\ kis[o].st = "none" /\ kis[o].filled = 0 /\ ~kis[o].cancelled
          /\ kis[o].shown <= kis[o].filled
      BY <2>2 DEF KisTruth
    <2>5. /\ state \in KisOrders /\ state.st = "transit" /\ state.shown = kis[o].shown
          /\ state.filled = kis[o].filled /\ state.cancelled = kis[o].cancelled
      BY <2>2 DEF TypeOK, KisOrders
    <2>6. OrderBecomes(o, state)
      BY <2>1 DEF SendOrder
    <2>7. Qty[o] \in Nat /\ Qty[o] > 0
      BY <2>2, QtyType
    <2>8. "transit" \notin AtBroker /\ "none" \notin AtBroker
      BY DEF AtBroker
    <2> HIDE DEF o, state
    <2> QED BY <2>1, <2>2, <2>3, <2>4, <2>5, <2>6, <2>7, <2>8, BooksOne
  <1>2. ASSUME NEW r \in Runs, CancelSend(r), kis' # kis
        PROVE  KisTruth' /\ KisKept /\ DatesAgree'
    <2> DEFINE o == run[r].order
               state == [kis[o] EXCEPT !.cancel = TRUE]
    <2>1. /\ run[r].pc = "cancelSend" /\ SendCancel(o)
          /\ wires' = wires /\ row' = row /\ today' = today
      BY <1>2 DEF CancelSend, At, others
    <2>2. o \in Orders
      BY <2>1 DEF LockOwner
    <2>3. /\ state \in KisOrders /\ state.st = kis[o].st /\ state.day = kis[o].day
          /\ state.shown = kis[o].shown
          /\ state.filled = kis[o].filled /\ state.cancelled = kis[o].cancelled
      BY <2>2 DEF TypeOK, KisOrders
    <2>4. OrderBecomes(o, state)
      BY <2>1 DEF SendCancel
    <2>5. /\ wires[o] = 0 => kis[o].st = "none"
          /\ kis[o].st \in {"none", "transit", "refused"} => kis[o].filled = 0
          /\ kis[o].filled <= Qty[o]
          /\ kis[o].filled = Qty[o] => kis[o].st = "closed"
          /\ kis[o].cancelled => kis[o].st = "closed"
          /\ kis[o].shown <= kis[o].filled
      BY <2>2 DEF KisTruth
    <2>6. /\ kis[o].st = "transit" => row[o].day = today
          /\ kis[o].st \in AtBroker => kis[o].day = row[o].day
      BY <2>2 DEF DatesAgree
    <2>7. kis[o].st = "open" => kis[o].st \in AtBroker
      BY DEF AtBroker
    <2> HIDE DEF o, state
    <2> QED BY <2>1, <2>2, <2>3, <2>4, <2>5, <2>6, <2>7, BooksOne
  <1>3. ASSUME NEW r \in Runs, RunNext(r), kis' = kis
        PROVE  wires' = wires \/ Send(r)
    BY <1>3 DEF RunNext, BeginSubmit, BeginCancel, Crash, FatalConnection,
       SubmitStep, CancelStep, Register, Step, Validate, ReadPositions,
       ReadOpenOrders, ReadFills, ReadFails, Judge, Gate, Reject, Approve,
       MarkSubmitting, Await, Record, ForceUnknown, CancelLoad,
       CancelGate, CancelMark, CancelSend, CancelAwait, CancelRecord, others
  <1>4. ASSUME NEW r \in Runs, RunNext(r), ~Send(r), ~CancelSend(r)
        PROVE  kis' = kis
    BY <1>4 DEF RunNext, BeginSubmit, BeginCancel, Crash, FatalConnection,
       SubmitStep, CancelStep, Register, Step, Validate, ReadPositions,
       ReadOpenOrders, ReadFills, ReadFails, Judge, Gate, Reject, Approve,
       MarkSubmitting, Await, Record, ForceUnknown, CancelLoad,
       CancelGate, CancelMark, CancelAwait, CancelRecord, others
  <1>5. ASSUME NEW r \in Runs, Send(r), kis' = kis
        PROVE  wires' = wires
    <2> DEFINE o == run[r].order
    <2>1. CASE SendOrder(o)
      <3>1. o \in Orders /\ wires[o] = 0
        BY <1>5 DEF Send, At, LockOwner, RequestOnce, BeforeWire
      <3>2. kis[o].st = "none" /\ kis[o] \in KisOrders
        BY <3>1 DEF KisTruth, TypeOK
      <3>3. kis'[o] = [kis[o] EXCEPT !.st = "transit"]
        BY <2>1, <3>1, BecomesEffect DEF SendOrder
      <3>4. [kis[o] EXCEPT !.st = "transit"].st = "transit"
        BY <3>2 DEF KisOrders
      <3> QED BY <1>5, <3>2, <3>3, <3>4
    <2>2. CASE ~SendOrder(o)
      BY <1>5, <2>2 DEF Send
    <2> QED BY <2>1, <2>2
  <1>6. ASSUME NEW r \in Runs, RunNext(r)
        PROVE  KisTruth' /\ KisKept /\ DatesAgree'
    <2>1. today' = today
      BY <1>6, RunFrame
    <2> QED BY <1>0, <1>1, <1>2, <1>3, <1>4, <1>5, <1>6, <2>1, BooksKept
  <1>7. ASSUME NEW p \in Recons, PassNext(p)
        PROVE  KisTruth' /\ KisKept /\ DatesAgree'
    BY <1>0, <1>7, BooksKept, PassFrame
  <1>8. CASE NextDay
    BY <1>8, DayEndBooks DEF NextDay
  <1>9. CASE \E o \in Orders : Broker(o)
    BY <1>9, MarketBooks DEF Broker, others
  <1>10. CASE SetHalt \/ ClearHalt \/ UNCHANGED vars
    BY <1>0, <1>10, BooksKept DEF SetHalt, ClearHalt, vars
  <1>11. ASSUME NEW o \in Orders, SettleSell(o)
         PROVE  KisTruth' /\ KisKept /\ DatesAgree'
    BY <1>0, <1>11, BooksKept, SettleSellFrame
  <1> QED BY <1>6, <1>7, <1>8, <1>9, <1>10, <1>11 DEF Next

-----------------------------------------------------------------------------
(* The command. *)

\* The lists of questions are what is left of one another.
LEMMA QuestionLists ==
  /\ Questions # <<>> /\ <<"positions", "fills">> # <<>> /\ <<"fills">> # <<>>
  /\ Questions # <<"positions", "fills">> /\ Questions # <<"fills">>
  /\ <<"positions", "fills">> # <<"fills">>
  /\ Head(Questions) = "openOrders" /\ Tail(Questions) = <<"positions", "fills">>
  /\ Head(<<"positions", "fills">>) = "positions"
  /\ Tail(<<"positions", "fills">>) = <<"fills">>
  /\ Head(<<"fills">>) = "fills" /\ Tail(<<"fills">>) = <<>>
  BY DEF Questions

\* While the broker only moves as KisKept allows, the answers stay good.
LEMMA AnswersStayGood ==
  ASSUME TypeOK, KisKept, AskedSoFar, release' = release
  PROVE  AskedSoFar'
  <1>1. CASE release = NoRelease
    BY <1>1 DEF AskedSoFar
  <1>2. CASE release # NoRelease
    <2>1. release \in Releases /\ release.order \in Orders
      BY <1>2 DEF AskedSoFar, Releases
    <2>2. ASSUME release.reached
          PROVE  /\ kis'[release.order].st \in AtBroker
                 /\ release.ask # Questions => kis'[release.order].st = "closed"
                 /\ release.ask = <<>> => kis'[release.order].filled = release.hidden
      <3>1. /\ kis[release.order].st \in AtBroker
            /\ release.ask # Questions => kis[release.order].st = "closed"
            /\ release.ask = <<>> => kis[release.order].filled = release.hidden
        BY <1>2, <2>2 DEF AskedSoFar
      <3> QED BY <2>1, <3>1, QuestionLists DEF KisKept, AtBroker
    <2> QED BY <2>1, <2>2 DEF AskedSoFar
  <1> QED BY <1>1, <1>2

\* What was ended rightly stays so.
LEMMA EndedStaysRight ==
  ASSUME KisKept, EndedRightly, released' = released
  PROVE  EndedRightly'
  <1>1. \A e \in released : e.order \in Orders
    BY DEF EndedRightly, Releases
  <1> QED BY <1>1 DEF EndedRightly, EarlierOrdersAreSeen, KisKept

\* The command begins.
LEMMA StartReleaseStep ==
  ASSUME TypeOK, NEW o \in Orders, StartRelease(o)
  PROVE  AskedSoFar'
  <1> DEFINE reached == kis[o].st \in {"open", "closed"}
             new == [order |-> o, held |-> row[o], ask |-> Questions,
                     reached |-> reached, hidden |-> 0]
  <1>1. reached \in BOOLEAN /\ (reached => kis[o].st \in AtBroker)
    BY DEF AtBroker
  <1>2. release' = new /\ kis' = kis /\ row[o] \in Rows
    BY DEF StartRelease, vars, TypeOK
  <1> HIDE DEF reached
  <1>3. /\ new \in Releases /\ new.order = o /\ new.ask = Questions
        /\ new.reached => kis[o].st \in AtBroker
    BY <1>1, <1>2 DEF Releases
  <1> HIDE DEF new
  <1> QED BY <1>2, <1>3, QuestionLists DEF AskedSoFar

\* A question is asked and the broker shows nothing.
LEMMA AskStep ==
  ASSUME TypeOK, KisTruth, DatesAgree, AskedSoFar, Ask
  PROVE  AskedSoFar'
  <1> DEFINE o == release.order
             hidden == IF Head(release.ask) = "fills"
                       THEN kis[o].filled - kis[o].shown
                       ELSE release.hidden
             next == [release EXCEPT !.ask = Tail(release.ask), !.hidden = hidden]
  <1>1. release # NoRelease
    BY DEF Ask, NoRelease
  <1>2. release \in Releases /\ release.ask # <<>>
    BY <1>1 DEF AskedSoFar, Ask
  <1>3. release' = next /\ kis' = kis
    BY DEF Ask, vars
  <1>4. o \in Orders /\ o \in SameSymbol(o)
    BY <1>2 DEF Releases, SameSymbol
  <1>5. /\ Tail(release.ask) \in {<<"positions", "fills">>, <<"fills">>, <<>>}
        /\ Tail(release.ask) # Questions
    BY <1>2, QuestionLists DEF Releases
  <1>8. hidden \in Int
    BY <1>2, <1>4 DEF Releases, TypeOK, KisOrders
  <1>9. release.ask = <<"fills">> => hidden = kis[o].filled - kis[o].shown
    BY QuestionLists
  <1> HIDE DEF hidden
  <1>6. /\ next \in Releases /\ next.order = o /\ next.reached = release.reached
        /\ next.ask = Tail(release.ask) /\ next.hidden = hidden
    BY <1>2, <1>5, <1>8 DEF Releases
  <1>7. ASSUME release.reached
        PROVE  /\ kis[o].st = "closed"
               /\ Tail(release.ask) = <<>> => kis[o].filled = hidden
    <2>1. /\ kis[o].st \in AtBroker
          /\ release.ask # Questions => kis[o].st = "closed"
      BY <1>1, <1>7 DEF AskedSoFar
    <2>2. CASE release.ask = Questions
      <3>1. SameSymbol(o) \cap OpenOrders = {}
        BY <2>2, QuestionLists DEF Ask, ShowsNothing
      <3>2. kis[o].st # "open"
        BY <1>4, <3>1 DEF OpenOrders, IsOpen
      <3> QED BY <2>1, <2>2, <3>2, QuestionLists DEF AtBroker
    <2>3. CASE release.ask = <<"positions", "fills">>
      BY <2>1, <2>3, QuestionLists
    <2>4. CASE release.ask = <<"fills">>
      <3>1. \A x \in SameSymbol(o) : kis[x].shown > 0 => kis[x].day # row[o].day
        BY <2>4, QuestionLists DEF Ask, ShowsNothing
      <3>2. kis[o].day = row[o].day
        BY <1>4, <2>1 DEF DatesAgree
      <3>3. kis[o].filled \in Nat /\ kis[o].shown \in Nat
        BY <1>4 DEF TypeOK, KisOrders
      <3>5. kis[o].shown = 0
        BY <1>4, <3>1, <3>2, <3>3
      <3>4. kis[o].filled = hidden
        BY <1>9, <2>4, <3>3, <3>5
      <3> QED BY <2>1, <2>4, <3>4, QuestionLists
    <2> QED BY <1>2, <2>2, <2>3, <2>4 DEF Releases
  <1> HIDE DEF next
  <1> QED BY <1>3, <1>5, <1>6, <1>7 DEF AskedSoFar, AtBroker

\* The advance to REJECTED: the row was not yet answered for, and no other
\* row moves.
LEMMA ReleaseMoves ==
  ASSUME TypeOK, AskedSoFar, Release
  PROVE  /\ release \in Releases /\ release.order \in Orders
         /\ RowMoves(release.order, "REJECTED")
         /\ row[release.order].status \in Statuses
         /\ row' \in [Orders -> Rows]
         /\ UNCHANGED <<kis, lock, run, today, halt, wires, sinceHalt, recon>>
  <1>1. release \in Releases
    BY DEF Release, AskedSoFar
  <1>2. release.order \in Orders
    BY <1>1 DEF Releases
  <1>3. CompareAndSet(release.order, release.held, "REJECTED", FALSE)
    BY DEF Release
  <1>4. /\ RowMoves(release.order, "REJECTED")
        /\ "REJECTED" \in Transitions(row[release.order].status)
    BY <1>2, <1>3, CasEffect
  <1>5. row[release.order].status \in Statuses
    BY <1>4 DEF Transitions, Statuses
  <1>6. row' \in [Orders -> Rows]
    BY <1>2, <1>3, CasType DEF CasRaises
  <1> QED BY <1>1, <1>2, <1>4, <1>5, <1>6 DEF Release, engineVars

\* A release disturbs nothing the lifecycle relies on.
LEMMA ReleaseKeeps ==
  ASSUME ReleaseInv, Release
  PROVE  /\ TypeOK' /\ LockOwner' /\ SettlesLive' /\ SignalKey'
         /\ HaltHistory' /\ (\A r \in Runs : UnknownSeen(r)')
         /\ RequestOnce' /\ KisTruth' /\ KisKept /\ DatesAgree'
  <1> USE DEF ReleaseInv
  <1> DEFINE o == release.order
  <1>1. /\ o \in Orders /\ RowMoves(o, "REJECTED") /\ row[o].status \in Statuses
        /\ row' \in [Orders -> Rows]
        /\ UNCHANGED <<kis, lock, run, today, halt, wires, sinceHalt, recon>>
    BY ReleaseMoves
  <1>2. TypeOK' /\ LockOwner' /\ SettlesLive' /\ HaltHistory'
    BY <1>1 DEF TypeOK, LockOwner, SettlesLive, HaltHistory
  <1>3. SignalKey'
    BY <1>1 DEF SignalKey, Registered, RowMoves, Statuses
  <1>4. \A r \in Runs : UnknownSeen(r)'
    BY <1>1 DEF UnknownSeen, Unknown, WithStatus, RowMoves
  <1>5. RowsKept
    BY <1>1 DEF RowsKept, RowMoves, Unsent
  <1>6. RequestOnce'
    BY <1>1, <1>5, RequestOnceKept
  <1>7. KisTruth' /\ KisKept /\ DatesAgree'
    BY <1>1, <1>5, BooksKept
  <1> QED BY <1>2, <1>3, <1>4, <1>6, <1>7

-----------------------------------------------------------------------------
(* The theorems. *)

\* The invariant holds initially.
LEMMA ReleaseInitInv == ReleaseInit => ReleaseInv
  <1> SUFFICES ASSUME ReleaseInit PROVE ReleaseInv
    OBVIOUS
  <1>1. IInv
    BY InitInv DEF ReleaseInit
  <1>2. \A r \in Runs : run[r].pc = "idle"
    BY DEF ReleaseInit, Init, IdleRun
  <1>3. RequestOnce
    BY <1>2 DEF ReleaseInit, Init, RequestOnce, BeforeWire, Judging, NoRow
  <1>4. DatesAgree
    BY DEF ReleaseInit, Init, DatesAgree, Absent, AtBroker
  <1>5. AskedSoFar /\ EndedRightly
    BY DEF ReleaseInit, AskedSoFar, EndedRightly, EarlierOrdersAreSeen
  <1> QED BY <1>1, <1>3, <1>4, <1>5 DEF IInv, ReleaseInv

\* Every step of the lifecycle or of the command preserves it.
LEMMA ReleaseNextInv == ReleaseInv /\ [ReleaseNext]_allVars => ReleaseInv'
  <1> SUFFICES ASSUME ReleaseInv, [ReleaseNext]_allVars
               PROVE  ReleaseInv'
    OBVIOUS
  <1> USE DEF ReleaseInv
  <1>1. ASSUME [Next]_vars
        PROVE  /\ TypeOK' /\ LockOwner' /\ SettlesLive' /\ SignalKey'
               /\ HaltHistory' /\ (\A r \in Runs : UnknownSeen(r)')
               /\ RequestOnce' /\ KisTruth' /\ KisKept /\ DatesAgree'
    BY <1>1, NextType, LockOwnerStep, SettlesLiveStep, SignalKeyStep,
       HaltHistoryStep, UnknownSeenStep, RequestOnceStep, BooksStep
  <1>2. CASE [Next]_vars /\ UNCHANGED releaseVars
    BY <1>1, <1>2, AnswersStayGood, EndedStaysRight DEF releaseVars
  <1>3. ASSUME NEW o \in Orders, StartRelease(o)
        PROVE  ReleaseInv'
    <2>1. UNCHANGED vars /\ released' = released
      BY <1>3 DEF StartRelease
    <2> QED BY <1>1, <1>3, <2>1, StartReleaseStep, EndedStaysRight
  <1>4. CASE Ask
    <2>1. UNCHANGED vars /\ released' = released
      BY <1>4 DEF Ask
    <2> QED BY <1>1, <1>4, <2>1, AskStep, EndedStaysRight
  <1>5. CASE RefuseRelease
    <2>1. UNCHANGED vars /\ released' = released /\ release' = NoRelease
      BY <1>5 DEF RefuseRelease
    <2>2. AskedSoFar'
      BY <2>1 DEF AskedSoFar
    <2> QED BY <1>1, <2>1, <2>2, EndedStaysRight
  <1>6. CASE Release
    <2>1. /\ release # NoRelease /\ release.ask = <<>> /\ release' = NoRelease
          /\ released' = released \cup {release}
      BY <1>6 DEF Release
    <2>2. release \in Releases /\ kis' = kis
      BY <1>6, ReleaseMoves
    <2>3. release.reached =>
            /\ kis[release.order].st = "closed"
            /\ kis[release.order].filled = release.hidden
      BY <2>1, QuestionLists DEF AskedSoFar
    <2>4. EndedRightly'
      BY <2>1, <2>2, <2>3 DEF EndedRightly, EarlierOrdersAreSeen
    <2>5. AskedSoFar'
      BY <2>1 DEF AskedSoFar
    <2> QED BY <1>6, <2>4, <2>5, ReleaseKeeps
  <1>7. CASE UNCHANGED allVars
    BY <1>2, <1>7 DEF allVars
  <1> QED BY <1>2, <1>3, <1>4, <1>5, <1>6, <1>7 DEF ReleaseNext

\* The inductive invariant holds in every reachable state.
THEOREM ReleaseInvariance == ReleaseSpec => []ReleaseInv
  BY ReleaseInitInv, ReleaseNextInv, PTL DEF ReleaseSpec

\* The command beside the lifecycle keeps every variable's type.
THEOREM ReleaseTypeCorrect == ReleaseSpec => []TypeOK
  <1>1. ReleaseInv => TypeOK
    BY DEF ReleaseInv
  <1> QED BY <1>1, ReleaseInvariance, PTL

\* An order that had reached the broker before the command asked is ended as
\* REJECTED only if it is over, and has run no share but those the broker had
\* executed and not yet published as the fills were asked: the order of the
\* questions keeps it from slipping from the open orders to the fills unseen
\* (release_pre_transport_orphan.py), but not into the broker's own gap.
THEOREM EarlierOrders == ReleaseSpec => []EarlierOrdersAreSeen
  <1>1. ReleaseInv => EarlierOrdersAreSeen
    BY DEF ReleaseInv, EndedRightly
  <1> QED BY <1>1, ReleaseInvariance, PTL

\* Ending rows behind a run's back sends no request twice and opens no second
\* request for a signal and day: a row ended keeps its key.
THEOREM ReleaseOneOrder == ReleaseSpec => []OneOrderPerSignal
  <1>1. ReleaseInv => OneOrderPerSignal
    BY DEF ReleaseInv, TypeOK, RequestOnce, SignalKey, Registered, Unsent,
       OneOrderPerSignal
  <1> QED BY <1>1, ReleaseInvariance, PTL

\* Nor does it let a second request past HALT.
THEOREM ReleaseHaltStops == ReleaseSpec => []HaltStopsOrders
  <1>1. ReleaseInv => HaltStopsOrders
    BY DEF ReleaseInv, HaltHistory, HaltStopsOrders
  <1> QED BY <1>1, ReleaseInvariance, PTL

\* Nor does an UNKNOWN order appear between the judged snapshot and the wire.
THEOREM ReleaseUnknownBlocks == ReleaseSpec => []UnknownBlocksOrders
  <1>1. ReleaseInv => UnknownBlocksOrders
    BY DEF ReleaseInv, UnknownSeen, UnknownBlocksOrders
  <1> QED BY <1>1, ReleaseInvariance, PTL

=============================================================================
