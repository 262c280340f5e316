---------------------------- MODULE S6ExitProofs ----------------------------
(***************************************************************************)
(* Proofs about S6Exit, for any number of shares, SELL orders, positions   *)
(* and deaths of the tick.                                                 *)
(***************************************************************************)
EXTENDS S6Exit, WellFoundedInduction, FiniteSetTheorems, TLAPS

Sending == {"await", "accepted", "submitted", "ambiguous", "unrecorded"}
Used == {s \in Sells : intent[s].state # "none"}
Wired == {s \in Sells : sell[s].at = "wire"}

-----------------------------------------------------------------------------
(* The inductive invariant: first what the stores and the broker say. *)

\* What has been sold is no longer held.
Shareholding == \A s \in Sells : sell[s].filled + held <= Shares

\* A submitted exit is a matter of its row and of its status alike.
RowStatus == row.submitted <=> row.status \in {"EXIT_SUBMITTED", "CLOSED"}

\* Names are used in order, by positions in order, and an active intent is
\* the newest.
Naming ==
  /\ \A s \in Sells : intent[s].position <= row.position
  /\ \A s \in Sells : intent[s].state = "none" =>
       intent[s] = NoIntent /\ order[s] = NoOrder /\ sell[s] = NoSell
  /\ \A t \in Used, s \in Sells : s < t => s \in Used
  /\ \A s \in Active, t \in Used : t <= s

\* Who has a number has reached the broker.
Numbering ==
  \A s \in Sells :
    /\ order[s].number \/ intent[s].number => Landed(s)
    /\ intent[s].state = "SUBMITTED" => intent[s].number
    /\ sell[s].age # "young" => Landed(s)

\* A reservation belongs to the current row, whose exit is not submitted;
\* the active intent of a submitted exit is SUBMITTED.
Reserving ==
  /\ \A s \in Sells : intent[s].state = "RESERVED" => s \in Active
  /\ row.submitted => \A s \in Active : intent[s].state = "SUBMITTED"

\* A request that may still arrive holds back every other: its order is
\* UNKNOWN or its intent is still RESERVED.
HeldBack == \A s \in Wired : order[s].unknown \/ intent[s].state = "RESERVED"

\* While an exit is submitted, only its own SELL may work.
Exiting == row.status = "EXIT_SUBMITTED" => Working \subseteq Active

OneAtMost == \A s, t \in Working : s = t

StoreInv ==
  /\ Shareholding /\ RowStatus /\ Naming /\ Numbering /\ Reserving
  /\ HeldBack /\ Exiting /\ OneAtMost /\ NoOversell

(* Then what the tick knows at each of its stages. *)

\* Only a closed row is followed by another.
Adopting ==
  At("adopt") => /\ row.status = "CLOSED" /\ row.position < MaxPositions
                 /\ tick.book > 0

\* Where a submission or a release goes on.
Continuing ==
  /\ BeforeWire \/ tick.pc \in Sending => tick.next \in {"retry", "sellFills"}
  /\ At("release") => tick.next \in {"recover", "retire"}

\* A submission in progress.
Submitting ==
  /\ BeforeWire \/ tick.pc \in Sending =>
       /\ tick.sell \in Active /\ ~row.submitted
       /\ intent[tick.sell].qty = row.quantity
       /\ intent[tick.sell].state =
            IF At("submitted") THEN "SUBMITTED" ELSE "RESERVED"
  /\ BeforeWire => sell[tick.sell] = NoSell
  /\ BeforeWire \/ At("await") => order[tick.sell] = NoOrder
  /\ At("await") => sell[tick.sell].at # "none"
  /\ tick.pc \in Sending => Working \subseteq {tick.sell}
  /\ tick.pc \in {"accepted", "submitted", "unrecorded"} => Landed(tick.sell)
  /\ At("ambiguous") => order[tick.sell].unknown /\ ~order[tick.sell].number

\* What the reads before a submission have shown, unless an UNKNOWN order
\* without a number stops it anyway.
NeverNumbered == \E s \in Sells : order[s].unknown /\ ~order[s].number
ReadsHold ==
  ~tick.pending /\ ~NeverNumbered =>
    /\ At("snapshot") => Working = {}
    /\ At("gate") => Working = {} /\ held = tick.snap

\* A release, and what may lead to it.
Releasing ==
  /\ tick.pc \in {"cancel", "confirm", "release"} => Leaving
  /\ At("cancel") => intent[tick.sell].state # "none"
  /\ At("release") => Working = {}

\* What the sweep and the ages of the tick still say.
SweepHolds ==
  \A s \in Sells : tick.ages[s] = "old" =>
    /\ Landed(s)
    /\ tick.read /\ s \notin tick.sweep => s \notin OpenSells

TickInv ==
  Adopting /\ Continuing /\ Submitting /\ ReadsHold /\ Releasing /\ SweepHolds

IInv == TypeOK /\ StoreInv /\ TickInv

-----------------------------------------------------------------------------
(* The helpers. *)

\* A least and a greatest element exist in every set of SELL orders.
LEMMA MinOfSells ==
  ASSUME NEW S \in SUBSET Sells, S # {}
  PROVE  Min(S) \in S /\ \A t \in S : Min(S) <= t
<1>1. \E x \in S : \A y \in S : x <= y
  <2>1. S \subseteq Nat
    BY SizeAssumption DEF Sells
  <2>2. PICK x \in S : \A y \in S : ~ (<<y, x>> \in OpToRel(<, Nat))
    BY <2>1, WFMin, NatLessThanWellFounded
  <2>3. \A y \in S : x \in Nat /\ y \in Nat /\ ~ (y < x)
    BY <2>1, <2>2, Zenon DEF OpToRel
  <2> QED
    BY <2>3
<1> QED
  BY <1>1 DEF Min

\* The newest of some SELL orders, when one of them is known to be it.
LEMMA MaxOfSells ==
  ASSUME NEW S \in SUBSET Sells, NEW s \in S, \A t \in S : t <= s
  PROVE  Max(S) = s
<1>1. S \subseteq Nat
  BY SizeAssumption DEF Sells
<1>2. \A t \in S : s >= t
  BY <1>1
<1>3. Max(S) \in S /\ \A t \in S : Max(S) >= t
  BY <1>2 DEF Max
<1>4. Max(S) \in Nat /\ s \in Nat /\ Max(S) >= s /\ s >= Max(S)
  BY <1>1, <1>2, <1>3
<1> QED
  BY <1>4

\* The newest of some SELL orders is one of them.
LEMMA MaxIsSell ==
  ASSUME NEW S \in SUBSET Sells, S # {}
  PROVE  Max(S) \in Sells
<1> DEFINE T == {MaxSells - s : s \in S}
<1>1. S \subseteq Nat /\ \A s \in S : s <= MaxSells
  BY SizeAssumption DEF Sells
<1>2. T \subseteq Nat /\ T # {}
  <2>1. \A s \in S : MaxSells - s \in Nat
    BY <1>1, SizeAssumption
  <2> QED
    BY <2>1
<1>3. PICK x \in T : \A y \in T : ~ (<<y, x>> \in OpToRel(<, Nat))
  BY <1>2, WFMin, NatLessThanWellFounded
<1>4. PICK s \in S : x = MaxSells - s
  OBVIOUS
<1>5. \A t \in S : s >= t
  <2> SUFFICES ASSUME NEW t \in S PROVE s >= t
    OBVIOUS
  <2>1. ~ (MaxSells - t < x)
    BY <1>2, <1>3 DEF OpToRel
  <2> QED
    BY <2>1, <1>4, <1>1, SizeAssumption
<1> QED
  BY <1>5 DEF Max

\* What an inquiry reports is never more than was sold.
Facts == [sold : 0 .. Shares, terminal : BOOLEAN]
LEMMA ReportType ==
  ASSUME TypeOK, NEW f \in Reports \cup {Silence}
  PROVE  f \in Facts
<1>1. Silence \in Facts
  BY SizeAssumption DEF Silence, Facts
<1>2. ASSUME NEW book PROVE Report(book) \in Facts
  <2>1. CASE Numbered = {}
    BY <1>1, <2>1 DEF Report
  <2>2. CASE Numbered # {}
    <3>1. Numbered \subseteq Sells
      BY DEF Numbered, OfRow
    <3>2. Max(Numbered) \in Sells
      BY <2>2, <3>1, MaxIsSell
    <3>3. sell[Max(Numbered)].published \in 0 .. Shares
      BY <3>2 DEF TypeOK
    <3> QED
      BY <2>2, <3>3 DEF Report, Facts
  <2> QED
    BY <2>1, <2>2
<1> QED
  BY <1>1, <1>2 DEF Reports

-----------------------------------------------------------------------------
(* Types. *)

RowStates == {"OPEN", "EXIT_PENDING", "EXIT_SUBMITTED", "CLOSED"}
Rows == [position : 1 .. MaxPositions, quantity : 1 .. Shares,
         status : RowStates, submitted : BOOLEAN]
IntentStates ==
  {"none", "RESERVED", "SUBMITTED", "SUBMISSION_UNKNOWN", "CONFIRMED", "ABORTED"}
Intents == [position : 0 .. MaxPositions, qty : 0 .. Shares,
            number : BOOLEAN, state : IntentStates]
OrderRows == [unknown : BOOLEAN, number : BOOLEAN]
SellRecords == [at : {"none", "wire", "lost", "open", "gone"}, filled : 0 .. Shares,
                published : 0 .. Shares, age : Ages]
Ticks == [pc : Stages, read : BOOLEAN, sweep : SUBSET Sells, allowed : BOOLEAN,
          ages : [Sells -> Ages], sell : Sells, next : Stages,
          qty : 0 .. Shares, pending : BOOLEAN, snap : 0 .. Shares,
          book : 0 .. Shares]

\* The type invariant, by variable, in this state and in the next.
Typed ==
  /\ row \in Rows
  /\ intent \in [Sells -> Intents]
  /\ order \in [Sells -> OrderRows]
  /\ sell \in [Sells -> SellRecords]
  /\ held \in 0 .. Shares
  /\ tick \in Ticks
  /\ crashes \in 0 .. MaxCrashes

LEMMA TypeParts == (TypeOK <=> Typed) /\ (TypeOK' <=> Typed')
<1>1. TypeOK <=> Typed
  BY Zenon DEF TypeOK, Typed, Rows, RowStates, Intents, IntentStates, OrderRows,
     SellRecords, Ticks
<1>2. TypeOK' <=> Typed'
  BY Zenon DEF TypeOK, Typed, Rows, RowStates, Intents, IntentStates, OrderRows,
     SellRecords, Ticks
<1> QED
  BY <1>1, <1>2

\* The records of what does not exist yet.
LEMMA NoTypes ==
  /\ NoIntent \in Intents /\ NoOrder \in OrderRows /\ NoSell \in SellRecords
  /\ NoTick \in Ticks
<1>1. NoIntent \in Intents /\ NoOrder \in OrderRows /\ NoSell \in SellRecords
  BY SizeAssumption DEF NoIntent, NoOrder, NoSell, Intents, IntentStates, OrderRows,
     SellRecords, Ages
<1>2. [s \in Sells |-> "young"] \in [Sells -> Ages] /\ 1 \in Sells
  BY SizeAssumption DEF Ages, Sells
<1>3. NoTick \in Ticks
  BY <1>2, SizeAssumption DEF NoTick, Ticks, Stages
<1> QED
  BY <1>1, <1>3

LEMMA InitType == Init => TypeOK
<1> SUFFICES ASSUME Init PROVE TypeOK
  OBVIOUS
<1>1. row \in Rows
  BY SizeAssumption DEF Init, Rows, RowStates
<1>2. held \in 0 .. Shares /\ crashes \in 0 .. MaxCrashes
  BY SizeAssumption DEF Init
<1> QED
  BY <1>1, <1>2, NoTypes, TypeParts, Zenon DEF Init, Typed

\* Only the stage of the tick moves.
LEMMA GotoEffect ==
  ASSUME tick \in Ticks, NEW pc \in Stages, Goto(pc)
  PROVE  /\ tick' \in Ticks /\ tick'.pc = pc
         /\ tick'.read = tick.read /\ tick'.sweep = tick.sweep
         /\ tick'.allowed = tick.allowed /\ tick'.ages = tick.ages
         /\ tick'.sell = tick.sell /\ tick'.next = tick.next
         /\ tick'.qty = tick.qty /\ tick'.pending = tick.pending
         /\ tick'.snap = tick.snap /\ tick'.book = tick.book
BY DEF Goto, Ticks

\* The market's steps keep the types.
LEMMA MarketType ==
  ASSUME TypeOK, StoreInv, NEW s \in Sells, Market(s)
  PROVE  TypeOK'
<1> USE SizeAssumption, TypeParts DEF Typed
<1>1. sell[s] \in SellRecords /\ held \in 0 .. Shares
  OBVIOUS
<1>2. ASSUME NEW at \in {"lost", "open", "gone"}, sell' = [sell EXCEPT ![s].at = at]
      PROVE  sell' \in [Sells -> SellRecords]
  BY <1>2 DEF SellRecords
<1>3. CASE Land(s)
  BY <1>2, <1>3 DEF Land, ledgers
<1>4. CASE Fill(s)
  <2>1. sell[s].filled + 1 \in 0 .. Shares /\ held - 1 \in 0 .. Shares
    BY <1>1, <1>4 DEF Fill, StoreInv, Shareholding, SellRecords
  <2> DEFINE mid == [sell EXCEPT ![s].filled = sell[s].filled + 1]
  <2>2. mid \in [Sells -> SellRecords]
    BY <2>1 DEF SellRecords
  <2>3. PICK at \in {"open", "gone"} : sell' = [mid EXCEPT ![s].at = at]
    BY <1>4 DEF Fill
  <2>4. sell' \in [Sells -> SellRecords]
    <3> HIDE DEF mid
    <3> QED
      BY <2>2, <2>3 DEF SellRecords
  <2> QED
    BY <1>4, <2>1, <2>4 DEF Fill, ledgers
<1>5. CASE Publish(s)
  <2>1. sell[s].published + 1 \in 0 .. Shares
    <3>1. sell[s].published < sell[s].filled
      BY <1>5 DEF Publish
    <3> QED
      BY <1>1, <3>1 DEF SellRecords
  <2>2. sell' \in [Sells -> SellRecords]
    BY <1>5, <2>1 DEF Publish, SellRecords
  <2> QED
    BY <1>5, <2>2 DEF Publish, ledgers
<1>6. CASE Lapse(s)
  BY <1>2, <1>6 DEF Lapse, ledgers
<1>7. CASE Age(s)
  <2>1. sell' \in [Sells -> SellRecords]
    BY <1>7 DEF Age, SellRecords, Ages
  <2> QED
    BY <1>7, <2>1 DEF Age, ledgers
<1> QED
  BY <1>3, <1>4, <1>5, <1>6, <1>7 DEF Market

-----------------------------------------------------------------------------
(* What the steps of the tick change of its local state. *)

\* Nothing remains of a tick that ends or dies.
LEMMA NoTickEffect ==
  /\ NoTick.pc = "idle" /\ NoTick.read = FALSE /\ NoTick.pending = FALSE
  /\ \A s \in Sells : NoTick.ages[s] = "young"
BY DEF NoTick

SameReads ==
  tick'.read = tick.read /\ tick'.sweep = tick.sweep /\ tick'.ages = tick.ages

LEMMA AdoptReadEffect ==
  ASSUME TypeOK, AdoptRead
  PROVE  /\ tick' \in Ticks /\ tick'.pc = "adopt" /\ tick'.book = held
         /\ \A s \in Sells : tick'.ages[s] = "young"
<1> DEFINE mid == [NoTick EXCEPT !.pc = "adopt"]
<1>1. mid \in Ticks /\ mid.pc = "adopt" /\ \A s \in Sells : mid.ages[s] = "young"
  BY NoTypes, NoTickEffect DEF Ticks, Stages
<1>2. tick' = [mid EXCEPT !.book = held] /\ held \in 0 .. Shares
  BY TypeParts DEF AdoptRead, Typed
<1> HIDE DEF mid
<1> QED
  BY <1>1, <1>2 DEF Ticks

LEMMA SweepEffect ==
  ASSUME TypeOK, NEW read \in BOOLEAN, NEW allowed \in BOOLEAN, Sweep(read, allowed)
  PROVE  /\ tick' \in Ticks /\ tick'.pc = "buyFills" /\ tick'.read = read
         /\ tick'.sweep = (IF read THEN OpenSells ELSE {})
         /\ tick'.ages = [s \in Sells |-> sell[s].age]
<1> DEFINE one == [NoTick EXCEPT !.pc = "buyFills"]
           two == [one EXCEPT !.read = read]
           three == [two EXCEPT !.sweep = IF read THEN OpenSells ELSE {}]
           four == [three EXCEPT !.allowed = allowed]
           ages == [s \in Sells |-> sell[s].age]
<1>1. one \in Ticks /\ one.pc = "buyFills"
  BY NoTypes DEF Ticks, Stages
<1>2. two \in Ticks /\ two.pc = "buyFills" /\ two.read = read
  <2> HIDE DEF one
  <2> QED
    BY <1>1 DEF Ticks
<1>3. /\ three \in Ticks /\ three.pc = "buyFills" /\ three.read = read
      /\ three.sweep = (IF read THEN OpenSells ELSE {})
  <2> HIDE DEF two
  <2> QED
    BY <1>2 DEF Ticks, OpenSells
<1>4. /\ four \in Ticks /\ four.pc = "buyFills" /\ four.read = read
      /\ four.sweep = (IF read THEN OpenSells ELSE {})
  <2> HIDE DEF three
  <2> QED
    BY <1>3 DEF Ticks
<1>5. ages \in [Sells -> Ages]
  BY TypeParts DEF Typed, SellRecords
<1>6. tick' = [four EXCEPT !.ages = ages]
  BY DEF Sweep
<1> HIDE DEF four, ages
<1>7. tick' \in Ticks
  BY <1>4, <1>5, <1>6 DEF Ticks
<1>8. tick'.pc = four.pc /\ tick'.read = four.read /\ tick'.sweep = four.sweep /\ tick'.ages = ages
  BY <1>4, <1>6 DEF Ticks
<1> QED
  BY <1>4, <1>7, <1>8 DEF ages

LEMMA ReserveEffect ==
  ASSUME TypeOK, NEW s \in Sells, NEW next \in Stages,
         tick' = [tick EXCEPT !.pc = "readPosition", !.sell = s, !.next = next]
  PROVE  /\ tick' \in Ticks /\ tick'.pc = "readPosition"
         /\ tick'.sell = s /\ tick'.next = next /\ SameReads
<1> DEFINE one == [tick EXCEPT !.pc = "readPosition"]
           two == [one EXCEPT !.sell = s]
<1>1. /\ one \in Ticks /\ one.pc = "readPosition"
      /\ one.read = tick.read /\ one.sweep = tick.sweep /\ one.ages = tick.ages
  BY TypeParts DEF Typed, Ticks, Stages
<1>2. /\ two \in Ticks /\ two.pc = "readPosition" /\ two.sell = s
      /\ two.read = tick.read /\ two.sweep = tick.sweep /\ two.ages = tick.ages
  <2> HIDE DEF one
  <2> QED
    BY <1>1 DEF Ticks
<1>3. tick' = [two EXCEPT !.next = next]
  OBVIOUS
<1> HIDE DEF two
<1> QED
  BY <1>2, <1>3 DEF Ticks, SameReads

\* One more thing read, or chosen, on the way to the next stage.
LEMMA ReadEffect ==
  ASSUME TypeOK, NEW pc \in Stages, NEW s \in Sells, NEW next \in Stages,
         NEW q \in 0 .. Shares, NEW b \in BOOLEAN,
         \/ tick' = [tick EXCEPT !.pc = pc, !.qty = q]
         \/ tick' = [tick EXCEPT !.pc = pc, !.pending = b]
         \/ tick' = [tick EXCEPT !.pc = pc, !.snap = q]
         \/ tick' = [tick EXCEPT !.pc = pc, !.sell = s]
         \/ tick' = [tick EXCEPT !.pc = pc, !.book = q]
         \/ tick' = [tick EXCEPT !.pc = pc, !.next = next]
  PROVE  tick' \in Ticks /\ tick'.pc = pc /\ SameReads
<1> DEFINE mid == [tick EXCEPT !.pc = pc]
<1>1. /\ mid \in Ticks /\ mid.pc = pc
      /\ mid.read = tick.read /\ mid.sweep = tick.sweep /\ mid.ages = tick.ages
  BY TypeParts DEF Typed, Ticks
<1>2. \/ tick' = [mid EXCEPT !.qty = q]
      \/ tick' = [mid EXCEPT !.pending = b]
      \/ tick' = [mid EXCEPT !.snap = q]
      \/ tick' = [mid EXCEPT !.sell = s]
      \/ tick' = [mid EXCEPT !.book = q]
      \/ tick' = [mid EXCEPT !.next = next]
  OBVIOUS
<1> HIDE DEF mid
<1> QED
  BY <1>1, <1>2 DEF Ticks, SameReads

\* An intent that ends keeps its other fields; nobody else's changes.
LEMMA EndIntentEffect ==
  ASSUME TypeOK, NEW state \in IntentStates, EndIntent(state)
  PROVE  /\ intent' \in [Sells -> Intents]
         /\ \A s \in Sells :
              /\ intent'[s].position = intent[s].position
              /\ intent'[s].qty = intent[s].qty
              /\ intent'[s].number = intent[s].number
              /\ intent'[s].state = IF s \in Active THEN state ELSE intent[s].state
<1> USE TypeParts DEF Typed
<1>1. ASSUME NEW s \in Sells
      PROVE  /\ [intent[s] EXCEPT !.state = state] \in Intents
             /\ [intent[s] EXCEPT !.state = state].position = intent[s].position
             /\ [intent[s] EXCEPT !.state = state].qty = intent[s].qty
             /\ [intent[s] EXCEPT !.state = state].number = intent[s].number
             /\ [intent[s] EXCEPT !.state = state].state = state
  BY DEF Intents
<1>2. ASSUME NEW s \in Sells
      PROVE  intent'[s] = IF s \in Active THEN [intent[s] EXCEPT !.state = state]
                                          ELSE intent[s]
  BY DEF EndIntent
<1>3. intent' \in [Sells -> Intents]
  BY <1>1 DEF EndIntent
<1> QED
  BY <1>1, <1>2, <1>3

\* What _submit_sell does to its intent.
LEMMA IntentEffect ==
  ASSUME TypeOK, NEW s \in Sells, NEW state \in IntentStates,
         intent' = [intent EXCEPT ![s].state = state]
  PROVE  /\ intent' \in [Sells -> Intents]
         /\ \A t \in Sells \ {s} : intent'[t] = intent[t]
         /\ intent'[s].state = state /\ intent'[s].position = intent[s].position
         /\ intent'[s].qty = intent[s].qty /\ intent'[s].number = intent[s].number
BY TypeParts DEF Typed, Intents

LEMMA MarkSubmittedEffect ==
  ASSUME TypeOK, MarkSubmitted
  PROVE  /\ intent' \in [Sells -> Intents]
         /\ \A t \in Sells \ {tick.sell} : intent'[t] = intent[t]
         /\ intent'[tick.sell].state = "SUBMITTED"
         /\ intent'[tick.sell].number = TRUE
         /\ intent'[tick.sell].position = intent[tick.sell].position
         /\ intent'[tick.sell].qty = intent[tick.sell].qty
<1> USE TypeParts DEF Typed
<1> DEFINE mid == [intent EXCEPT ![tick.sell].state = "SUBMITTED"]
<1>0. tick.sell \in Sells
  BY DEF Ticks
<1>1. /\ mid \in [Sells -> Intents]
      /\ \A t \in Sells \ {tick.sell} : mid[t] = intent[t]
      /\ mid[tick.sell].state = "SUBMITTED"
      /\ mid[tick.sell].position = intent[tick.sell].position
      /\ mid[tick.sell].qty = intent[tick.sell].qty
  BY <1>0 DEF Intents, IntentStates
<1>2. intent' = [mid EXCEPT ![tick.sell].number = TRUE]
  BY DEF MarkSubmitted
<1> HIDE DEF mid
<1> QED
  BY <1>0, <1>1, <1>2 DEF Intents

\* Only an OPEN row is latched, and only its status changes.
LEMMA LatchEffect ==
  ASSUME TypeOK, Latch
  PROVE  /\ row' \in Rows
         /\ row'.position = row.position /\ row'.quantity = row.quantity
         /\ row'.submitted = row.submitted
         /\ row'.status = IF row.status = "OPEN" THEN "EXIT_PENDING" ELSE row.status
<1> DEFINE status == IF row.status = "OPEN" THEN "EXIT_PENDING" ELSE row.status
<1>1. row' = [row EXCEPT !.status = status]
  BY DEF Latch
<1>2. row \in Rows /\ status \in RowStates
  BY TypeParts DEF Typed, Rows, RowStates
<1> HIDE DEF status
<1>3. row' \in Rows
  BY <1>1, <1>2 DEF Rows
<1>4. /\ row'.position = row.position /\ row'.quantity = row.quantity
      /\ row'.submitted = row.submitted /\ row'.status = status
  BY <1>1, <1>2 DEF Rows
<1> QED
  BY <1>3, <1>4 DEF status

\* A row whose status and submission are set together.
LEMMA RowEffect ==
  ASSUME TypeOK, NEW status \in RowStates, NEW submitted \in BOOLEAN,
         row' = [row EXCEPT !.status = status, !.submitted = submitted]
  PROVE  /\ row' \in Rows
         /\ row'.position = row.position /\ row'.quantity = row.quantity
         /\ row'.submitted = submitted /\ row'.status = status
<1> DEFINE mid == [row EXCEPT !.status = status]
<1>1. /\ mid \in Rows /\ mid.position = row.position
      /\ mid.quantity = row.quantity /\ mid.status = status
  BY TypeParts DEF Typed, Rows
<1>2. row' = [mid EXCEPT !.submitted = submitted]
  OBVIOUS
<1> HIDE DEF mid
<1> QED
  BY <1>1, <1>2 DEF Rows

-----------------------------------------------------------------------------
(* Every step keeps the types. *)

LEMMA AdoptType ==
  ASSUME IInv, AdoptRead \/ Adopt
  PROVE  TypeOK'
<1> USE TypeParts DEF Typed
<1>0. TypeOK
  BY DEF IInv
<1>1. CASE AdoptRead
  BY <1>0, <1>1, AdoptReadEffect DEF AdoptRead, ledgers, broker
<1>2. CASE Adopt
  <2>1. row.position + 1 \in 1 .. MaxPositions /\ tick.book \in 1 .. Shares
    BY <1>0, <1>2, SizeAssumption
    DEF Adopt, IInv, TickInv, Adopting, Rows, Ticks, RowStates
  <2>2. row' \in Rows
    BY <1>2, <2>1 DEF Adopt, Rows, RowStates
  <2> QED
    BY <1>0, <1>2, <2>2, NoTypes DEF Adopt, ledgers, broker
<1> QED
  BY <1>1, <1>2

LEMMA UpdateType ==
  ASSUME TypeOK, (\E read, allowed \in BOOLEAN : Sweep(read, allowed)) \/ SyncBuyFills
  PROVE  TypeOK'
<1> USE TypeParts DEF Typed
<1>1. CASE \E read, allowed \in BOOLEAN : Sweep(read, allowed)
  <2>1. PICK read \in BOOLEAN, allowed \in BOOLEAN : Sweep(read, allowed)
    BY <1>1
  <2> QED
    BY <2>1, SweepEffect DEF Sweep, ledgers, broker
<1>2. CASE SyncBuyFills
  <2>1. row' \in Rows
    BY <1>2, SizeAssumption DEF SyncBuyFills, Rows
  <2>2. tick' \in Ticks
    BY <1>2, GotoEffect DEF SyncBuyFills, Stages
  <2> QED
    BY <1>2, <2>1, <2>2 DEF SyncBuyFills, ledgers, broker
<1> QED
  BY <1>1, <1>2

\* reserve() reserves, or leaves everything as it is.
LEMMA ReserveCases ==
  ASSUME TypeOK, NEW next \in Stages, Reserve(next)
  PROVE  \/ Goto(next) /\ UNCHANGED intent
         \/ \E s \in Sells :
              /\ Active = {} /\ s \in Unused /\ \A t \in Unused : s <= t
              /\ intent' = [intent EXCEPT ![s] =
                   [position |-> row.position, state |-> "RESERVED",
                    qty |-> row.quantity, number |-> FALSE]]
              /\ tick' = [tick EXCEPT !.pc = "readPosition", !.sell = s, !.next = next]
<1>1. CASE Active # {} \/ Unused = {}
  BY <1>1 DEF Reserve
<1>2. CASE ~(Active # {} \/ Unused = {})
  <2>1. Unused \subseteq Sells
    BY DEF Unused
  <2>2. Min(Unused) \in Unused /\ \A t \in Unused : Min(Unused) <= t
    BY <1>2, <2>1, MinOfSells
  <2> QED
    BY <1>2, <2>1, <2>2 DEF Reserve
<1> QED
  BY <1>1, <1>2

LEMMA ReserveType ==
  ASSUME TypeOK, NEW next \in Stages, Reserve(next)
  PROVE  tick' \in Ticks /\ intent' \in [Sells -> Intents]
<1> USE TypeParts DEF Typed
<1>1. CASE Goto(next) /\ UNCHANGED intent
  BY <1>1, GotoEffect
<1>2. ASSUME NEW s \in Sells,
             intent' = [intent EXCEPT ![s] =
                   [position |-> row.position, state |-> "RESERVED",
                    qty |-> row.quantity, number |-> FALSE]],
             tick' = [tick EXCEPT !.pc = "readPosition", !.sell = s, !.next = next]
      PROVE  tick' \in Ticks /\ intent' \in [Sells -> Intents]
  <2>1. [position |-> row.position, state |-> "RESERVED",
         qty |-> row.quantity, number |-> FALSE] \in Intents
    BY SizeAssumption DEF Rows, Intents, IntentStates
  <2> QED
    BY <1>2, <2>1, ReserveEffect
<1> QED
  BY <1>1, <1>2, ReserveCases

LEMMA DecideType ==
  ASSUME TypeOK, RunExits \/ RetryLatched
  PROVE  TypeOK'
<1> USE TypeParts DEF Typed
<1>0. {"retry", "sellFills"} \subseteq Stages
  BY DEF Stages
<1>1. CASE Hold /\ UNCHANGED <<broker, crashes>>
  BY <1>0, <1>1, GotoEffect DEF Hold, ledgers, broker
<1>2. CASE LatchExit /\ UNCHANGED <<broker, crashes>>
  BY <1>0, <1>2, GotoEffect, LatchEffect DEF LatchExit, ledgers, broker
<1>3. CASE DecideSell /\ UNCHANGED <<broker, crashes>>
  BY <1>0, <1>3, ReserveType DEF DecideSell, broker
<1>4. CASE RetryLatched
  BY <1>0, <1>4, ReserveType, GotoEffect DEF RetryLatched, broker
<1> QED
  BY <1>1, <1>2, <1>3, <1>4 DEF RunExits

LEMMA SubmitType ==
  ASSUME TypeOK, SubmitSell
  PROVE  TypeOK'
<1> USE TypeParts DEF Typed
<1>0. /\ tick.sell \in Sells /\ tick.next \in Stages /\ held \in 0 .. Shares
      /\ {"readOrders", "snapshot", "gate", "await", "accepted", "ambiguous",
          "unrecorded", "submitted"} \subseteq Stages
  BY DEF Ticks, Stages
<1>1. CASE ReadPosition \/ ReadOrders \/ Snapshot
  <2>1. tick' \in Ticks
    BY <1>0, <1>1, ReadEffect, Zenon DEF ReadPosition, ReadOrders, Snapshot
  <2> QED
    BY <1>1, <2>1 DEF ReadPosition, ReadOrders, Snapshot, ledgers, broker
<1>2. CASE Send
  <2>1. sell' \in [Sells -> SellRecords]
    BY <1>0, <1>2 DEF Send, SellRecords
  <2> QED
    BY <1>0, <1>2, <2>1, GotoEffect DEF Send, ledgers
<1>3. CASE Refuse
  BY <1>0, <1>3, NoTypes, GotoEffect, LatchEffect DEF Refuse
<1>4. ASSUME NEW pc \in Stages, NEW unknown \in BOOLEAN, NEW number \in BOOLEAN,
             Answer(pc, unknown, number)
      PROVE  TypeOK'
  <2>1. order' \in [Sells -> OrderRows]
    BY <1>0, <1>4 DEF Answer, OrderRows
  <2> QED
    BY <1>4, <2>1, GotoEffect DEF Answer, broker
<1>5. CASE MarkSubmitted
  BY <1>0, <1>5, MarkSubmittedEffect, GotoEffect DEF MarkSubmitted, broker
<1>6. CASE MarkExitSubmitted
  BY <1>0, <1>6, RowEffect, GotoEffect DEF MarkExitSubmitted, ledgers, broker, RowStates
<1>7. CASE MarkUnanswered
  <2>1. PICK state \in IntentStates : intent' = [intent EXCEPT ![tick.sell].state = state]
    BY <1>7 DEF MarkUnanswered, IntentStates
  <2> QED
    BY <1>0, <1>7, <2>1, IntentEffect, GotoEffect, LatchEffect DEF MarkUnanswered, broker
<1> QED
  BY <1>0, <1>1, <1>2, <1>3, <1>4, <1>5, <1>6, <1>7
  DEF SubmitSell, Accepted, Ambiguous, Unrecorded

\* close_position, and then the intent.
LEMMA CloseEffect ==
  ASSUME TypeOK, NEW state \in IntentStates, Close(state)
  PROVE  /\ row' \in Rows /\ row'.status = "CLOSED"
         /\ row'.position = row.position /\ row'.quantity = row.quantity
         /\ row'.submitted = row.submitted
         /\ EndIntent(state) /\ intent' \in [Sells -> Intents]
BY EndIntentEffect, TypeParts DEF Close, Typed, Rows, RowStates

LEMMA AbortEffect ==
  ASSUME TypeOK, NEW next \in Stages, Abort(next)
  PROVE  /\ tick' \in Ticks /\ tick'.pc = "release" /\ tick'.next = next /\ SameReads
         /\ EndIntent("ABORTED") /\ intent' \in [Sells -> Intents]
<1> USE TypeParts DEF Typed
<1>1. "release" \in Stages /\ "ABORTED" \in IntentStates
  BY DEF Stages, IntentStates
<1>2. tick' \in Ticks /\ tick'.pc = "release" /\ SameReads
  <2>1. TRUE \in BOOLEAN /\ 0 \in 0 .. Shares /\ tick.sell \in Sells
    BY SizeAssumption DEF Ticks
  <2> QED
    BY <1>1, <2>1, ReadEffect, Zenon DEF Abort
<1>3. tick'.next = next
  BY DEF Abort, Ticks
<1> QED
  BY <1>1, <1>2, <1>3, EndIntentEffect DEF Abort

LEMMA SellFillsType ==
  ASSUME TypeOK, NEW f \in Facts, SyncSellFills(f)
  PROVE  TypeOK'
<1> USE TypeParts DEF Typed
<1>1. tick' \in Ticks /\ UNCHANGED <<sell, held, crashes>>
  BY GotoEffect DEF SyncSellFills, Stages, broker
<1>2. CASE UNCHANGED <<row, ledgers>>
  BY <1>1, <1>2 DEF ledgers
<1>3. CASE Close("CONFIRMED") /\ order' = [s \in Sells |->
               IF s \in Active /\ f.sold >= intent[s].qty
               THEN [order[s] EXCEPT !.unknown = FALSE] ELSE order[s]]
  <2>1. order' \in [Sells -> OrderRows]
    BY <1>3 DEF OrderRows
  <2> QED
    BY <1>1, <1>3, <2>1, CloseEffect DEF IntentStates
<1>4. CASE /\ f.sold # 0 /\ ~(f.sold >= row.quantity)
           /\ row' = [row EXCEPT !.quantity = row.quantity - f.sold]
           /\ UNCHANGED ledgers
  <2>1. row.quantity - f.sold \in 1 .. Shares
    BY <1>4, SizeAssumption DEF Facts, Rows
  <2>2. row' \in Rows
    BY <1>4, <2>1 DEF Rows
  <2> QED
    BY <1>1, <1>4, <2>2 DEF ledgers
<1> QED
  BY <1>2, <1>3, <1>4 DEF SyncSellFills

LEMMA StaleSellType ==
  ASSUME TypeOK, StaleSellTimeout
  PROVE  TypeOK'
<1> USE TypeParts DEF Typed
<1>0. /\ {"recover", "cancel", "confirm"} \subseteq Stages /\ TRUE \in BOOLEAN
      /\ 0 \in 0 .. Shares /\ tick.sell \in Sells /\ tick.next \in Stages
  BY SizeAssumption DEF Ticks, Stages
<1>1. CASE SkipStale /\ UNCHANGED <<held, crashes>>
  BY <1>0, <1>1, GotoEffect DEF SkipStale, ledgers
<1>2. CASE AskCancel /\ UNCHANGED <<held, crashes>>
  <2>1. PICK s \in Sells : tick' = [tick EXCEPT !.pc = "cancel", !.sell = s]
    BY <1>2 DEF AskCancel, Active
  <2>2. tick' \in Ticks
    BY <1>0, <2>1, ReadEffect, Zenon
  <2> QED
    BY <1>2, <2>2 DEF AskCancel, ledgers
<1>3. ASSUME NEW next \in {"recover", "confirm"}, Cancel(next), UNCHANGED <<held, crashes>>
      PROVE  TypeOK'
  <2>1. PICK taken \in BOOLEAN, unknown \in BOOLEAN :
          /\ sell' = [sell EXCEPT ![tick.sell].at = IF taken THEN "gone" ELSE @]
          /\ order' = [order EXCEPT ![tick.sell].unknown = unknown \/ @]
    BY <1>3 DEF Cancel
  <2>2. sell' \in [Sells -> SellRecords]
    BY <1>0, <2>1 DEF SellRecords
  <2>3. order' \in [Sells -> OrderRows]
    <3> DEFINE u == unknown \/ order[tick.sell].unknown
    <3>1. u \in BOOLEAN /\ order' = [order EXCEPT ![tick.sell].unknown = u]
      BY <2>1
    <3> HIDE DEF u
    <3> QED
      BY <1>0, <3>1 DEF OrderRows
  <2> QED
    BY <1>0, <1>3, <2>2, <2>3, GotoEffect DEF Cancel
<1>4. CASE Confirm /\ UNCHANGED <<held, crashes>>
  BY <1>0, <1>4, GotoEffect, AbortEffect DEF Confirm
<1> QED
  BY <1>1, <1>2, <1>3, <1>4 DEF StaleSellTimeout

LEMMA RecoverType ==
  ASSUME TypeOK, NEW f \in Facts,
         \/ RecoverRead \/ RecoverUnread \/ RecoverDeadExit(f)
         \/ Release \/ RetireUnconfirmed(f)
  PROVE  TypeOK'
<1> USE TypeParts DEF Typed
<1>0. /\ {"recoverRow", "retire"} \subseteq Stages /\ TRUE \in BOOLEAN
      /\ held \in 0 .. Shares /\ tick.sell \in Sells /\ tick.next \in Stages
  BY DEF Ticks, Stages
<1>1. CASE RecoverRead
  <2>1. tick' \in Ticks
    BY <1>0, <1>1, ReadEffect, Zenon DEF RecoverRead
  <2> QED
    BY <1>1, <2>1 DEF RecoverRead, ledgers, broker
<1>2. CASE RecoverUnread
  BY <1>0, <1>2, GotoEffect DEF RecoverUnread, ledgers, broker
<1>3. CASE RecoverDeadExit(f)
  BY <1>0, <1>3, GotoEffect, AbortEffect DEF RecoverDeadExit, broker
<1>4. CASE Release
  BY <1>0, <1>4, RowEffect, GotoEffect DEF Release, ledgers, broker, RowStates
<1>5. CASE RetireUnconfirmed(f)
  BY <1>5, NoTypes, CloseEffect DEF RetireUnconfirmed, broker, IntentStates
<1> QED
  BY <1>1, <1>2, <1>3, <1>4, <1>5

LEMMA ServiceType ==
  ASSUME TypeOK, NEW s \in Sells, Service(s)
  PROVE  TypeOK'
<1> USE TypeParts DEF Typed
<1>1. CASE ResolveIntent(s)
  BY <1>1, IntentEffect DEF ResolveIntent, broker, IntentStates
<1>2. CASE ResolveOrder(s)
  <2>1. order' \in [Sells -> OrderRows]
    BY <1>2 DEF ResolveOrder, OrderRows
  <2> QED
    BY <1>2, <2>1 DEF ResolveOrder, broker
<1> QED
  BY <1>1, <1>2 DEF Service

LEMMA CrashType ==
  ASSUME TypeOK, Crash
  PROVE  TypeOK'
BY NoTypes, TypeParts, SizeAssumption DEF Typed, Crash, ledgers, broker

LEMMA NextType ==
  ASSUME IInv, [Next]_vars
  PROVE  TypeOK'
<1>0. TypeOK /\ StoreInv
  BY DEF IInv
<1>1. CASE UNCHANGED vars
  BY <1>0, <1>1, TypeParts DEF vars, Typed, ledgers, broker
<1>2. CASE TickStep
  <2>1. CASE AdoptRead \/ Adopt
    BY <2>1, AdoptType
  <2>2. CASE (\E read, allowed \in BOOLEAN : Sweep(read, allowed)) \/ SyncBuyFills
    BY <1>0, <2>2, UpdateType
  <2>3. CASE RunExits \/ RetryLatched
    BY <1>0, <2>3, DecideType
  <2>4. CASE SubmitSell
    BY <1>0, <2>4, SubmitType
  <2>5. CASE \E f \in Reports \cup {Silence} :
               SyncSellFills(f) \/ RecoverDeadExit(f) \/ RetireUnconfirmed(f)
    <3>1. PICK f \in Facts : SyncSellFills(f) \/ RecoverDeadExit(f) \/ RetireUnconfirmed(f)
      BY <1>0, <2>5, ReportType
    <3> QED
      BY <1>0, <3>1, SellFillsType, RecoverType
  <2>6. CASE StaleSellTimeout
    BY <1>0, <2>6, StaleSellType
  <2>7. CASE RecoverRead \/ RecoverUnread \/ Release
    <3>1. Silence \in Facts
      BY SizeAssumption DEF Silence, Facts
    <3> QED
      BY <1>0, <2>7, <3>1, RecoverType
  <2> QED
    BY <1>2, <2>1, <2>2, <2>3, <2>4, <2>5, <2>6, <2>7 DEF TickStep
<1>3. CASE Crash
  BY <1>0, <1>3, CrashType
<1>4. CASE \E s \in Sells : Market(s) \/ Service(s)
  BY <1>0, <1>4, MarketType, ServiceType
<1> QED
  BY <1>1, <1>2, <1>3, <1>4 DEF Next

-----------------------------------------------------------------------------
(* What many steps leave alone. *)

\* A row that is at most latched, or whose quantity changes.
RowKept ==
  /\ row'.position = row.position /\ row'.submitted = row.submitted
  /\ \/ row'.status = row.status
     \/ row.status = "OPEN" /\ row'.status = "EXIT_PENDING"

LEMMA StoreFrame ==
  ASSUME StoreInv, RowKept, UNCHANGED <<ledgers, broker>>
  PROVE  StoreInv'
<1> USE DEF RowKept, ledgers, broker
<1>1. Active' = Active /\ Working' = Working /\ Used' = Used /\ Wired' = Wired
  BY DEF Active, Working, Used, Wired
<1>2. Shareholding' /\ OneAtMost' /\ NoOversell' /\ HeldBack'
  BY <1>1 DEF StoreInv, Shareholding, OneAtMost, NoOversell, HeldBack
<1>3. RowStatus' /\ Exiting'
  BY <1>1 DEF StoreInv, RowStatus, Exiting
<1>4. Naming'
  BY <1>1 DEF StoreInv, Naming
<1>5. Numbering' /\ Reserving'
  BY <1>1 DEF StoreInv, Numbering, Reserving, Landed
<1> QED
  BY <1>2, <1>3, <1>4, <1>5 DEF StoreInv

\* Nothing that has landed comes back into the book.
SellsCalm ==
  \A s \in Sells : Landed(s) =>
    /\ sell'[s].at \in {"open", "gone"}
    /\ sell[s].at # "open" => sell'[s].at # "open"

YoungAges == \A s \in Sells : tick'.ages[s] = "young"

LEMMA SweepKept ==
  ASSUME SweepHolds, SellsCalm, SameReads \/ YoungAges
  PROVE  SweepHolds'
BY DEF SweepHolds, SellsCalm, SameReads, YoungAges, Landed, OpenSells

\* The stages between which a tick carries nothing but its sweep.
Plain == {"idle", "buyFills", "exits", "retry", "sellFills", "stale",
          "recover", "recoverRow", "retire"}

LEMMA PlainTick ==
  ASSUME TickInv, tick'.pc \in Plain, SellsCalm, SameReads \/ YoungAges
  PROVE  TickInv'
<1>1. SweepHolds'
  BY SweepKept DEF TickInv
<1>2. Adopting' /\ Continuing' /\ Submitting' /\ ReadsHold' /\ Releasing'
  BY DEF Plain, Adopting, Continuing, Submitting, ReadsHold, Releasing, At,
     BeforeWire, Sending
<1> QED
  BY <1>1, <1>2 DEF TickInv

LEMMA CalmFrame == sell' = sell => SellsCalm
BY DEF SellsCalm, Landed

LEMMA GotoReads ==
  ASSUME TypeOK, NEW pc \in Stages, Goto(pc)
  PROVE  SameReads /\ tick'.pc = pc
BY GotoEffect, TypeParts DEF Typed, SameReads

\* Initially nothing is sold, sent or read.
LEMMA InitInv == Init => IInv
<1> SUFFICES ASSUME Init PROVE IInv
  OBVIOUS
<1>1. /\ \A s \in Sells : intent[s] = NoIntent /\ order[s] = NoOrder /\ sell[s] = NoSell
      /\ held = Shares /\ tick = NoTick
  BY DEF Init
<1>2. row.position = 1 /\ row.status = "OPEN" /\ row.submitted = FALSE
  BY DEF Init
<1>3. Active = {} /\ Working = {} /\ Used = {} /\ Wired = {}
  BY <1>1 DEF Active, Working, Used, Wired, NoIntent, NoSell
<1>4. StoreInv
  <2>1. Shareholding
    BY <1>1, SizeAssumption DEF Shareholding, NoSell
  <2>2. Naming
    BY <1>1, <1>2, <1>3 DEF Naming, NoIntent
  <2>3. Numbering
    BY <1>1 DEF Numbering, NoIntent, NoOrder, NoSell
  <2>4. Reserving
    BY <1>1, <1>2 DEF Reserving, NoIntent
  <2> QED
    BY <1>2, <1>3, <2>1, <2>2, <2>3, <2>4
    DEF StoreInv, RowStatus, HeldBack, Exiting, OneAtMost, NoOversell
<1>5. TickInv
  BY <1>1, NoTickEffect DEF TickInv, Adopting, Continuing, Submitting, ReadsHold,
     Releasing, SweepHolds, At, BeforeWire, Sending
<1> QED
  BY <1>4, <1>5, InitType DEF IInv

-----------------------------------------------------------------------------
(* The tick up to the exits. *)

LEMMA RowSame == UNCHANGED row => RowKept
BY DEF RowKept

LEMMA AdoptInv ==
  ASSUME IInv, AdoptRead \/ Adopt
  PROVE  StoreInv' /\ TickInv'
<1>0. TypeOK /\ StoreInv /\ TickInv
  BY DEF IInv
<1>1. CASE AdoptRead
  <2>1. StoreInv'
    BY <1>0, <1>1, StoreFrame, RowSame DEF AdoptRead
  <2>2. tick'.pc = "adopt" /\ tick'.book = held /\ YoungAges
    BY <1>0, <1>1, AdoptReadEffect DEF YoungAges
  <2>3. SweepHolds'
    BY <2>2 DEF SweepHolds, YoungAges
  <2>4. Adopting'
    BY <1>1, <2>2 DEF Adopting, AdoptRead
  <2>5. Continuing' /\ Submitting' /\ ReadsHold' /\ Releasing'
    BY <2>2 DEF Continuing, Submitting, ReadsHold, Releasing, At, BeforeWire, Sending
  <2> QED
    BY <2>1, <2>3, <2>4, <2>5 DEF TickInv
<1>2. CASE Adopt
  <2>1. /\ row'.position = row.position + 1 /\ row'.status = "OPEN"
        /\ row'.submitted = FALSE
        /\ UNCHANGED <<intent, order, sell, held>> /\ tick' = NoTick
    BY <1>2 DEF Adopt, ledgers, broker
  <2>2. row.position \in Int /\ row.submitted
    BY <1>0, <1>2, TypeParts
    DEF Typed, Rows, Adopt, TickInv, Adopting, StoreInv, RowStatus
  <2>3. \A s \in Sells : intent[s].position \in Int /\ intent[s].position <= row.position
    BY <1>0, TypeParts DEF Typed, Intents, StoreInv, Naming
  <2>4. Active' = {} /\ Working' = Working /\ Used' = Used /\ Wired' = Wired
    BY <2>1, <2>2, <2>3 DEF Active, Working, Used, Wired
  <2>5. \A s \in Sells : intent[s].state # "RESERVED"
    BY <1>0, <2>2 DEF StoreInv, Reserving
  <2>6. Naming'
    <3>1. \A s \in Sells : intent'[s].position <= row'.position
      BY <2>1, <2>2, <2>3
    <3> QED
      BY <1>0, <2>1, <2>4, <3>1 DEF StoreInv, Naming
  <2>7. Reserving' /\ RowStatus' /\ Exiting'
    BY <2>1, <2>5 DEF Reserving, RowStatus, Exiting
  <2>8. Shareholding' /\ Numbering' /\ HeldBack' /\ OneAtMost' /\ NoOversell'
    BY <1>0, <2>1, <2>4
    DEF StoreInv, Shareholding, Numbering, HeldBack, OneAtMost, NoOversell, Landed
  <2>9. TickInv'
    BY <1>0, <2>1, PlainTick, CalmFrame, NoTickEffect DEF YoungAges, Plain
  <2> QED
    BY <2>6, <2>7, <2>8, <2>9 DEF StoreInv
<1> QED
  BY <1>1, <1>2

LEMMA SweepInv ==
  ASSUME IInv, \E read, allowed \in BOOLEAN : Sweep(read, allowed)
  PROVE  StoreInv' /\ TickInv'
<1>0. TypeOK /\ StoreInv /\ TickInv
  BY DEF IInv
<1>1. PICK read \in BOOLEAN, allowed \in BOOLEAN : Sweep(read, allowed)
  OBVIOUS
<1>2. StoreInv'
  BY <1>0, <1>1, StoreFrame, RowSame DEF Sweep
<1>3. /\ tick'.pc = "buyFills" /\ tick'.read = read
      /\ tick'.sweep = (IF read THEN OpenSells ELSE {})
      /\ \A s \in Sells : tick'.ages[s] = sell[s].age
  BY <1>0, <1>1, SweepEffect
<1>4. sell' = sell
  BY <1>1 DEF Sweep, broker
<1>5. SweepHolds'
  BY <1>0, <1>3, <1>4 DEF SweepHolds, StoreInv, Numbering, Landed, OpenSells
<1>6. Adopting' /\ Continuing' /\ Submitting' /\ ReadsHold' /\ Releasing'
  BY <1>3 DEF Adopting, Continuing, Submitting, ReadsHold, Releasing, At,
     BeforeWire, Sending
<1> QED
  BY <1>2, <1>5, <1>6 DEF TickInv

\* A step of the tick that goes on to a plain stage and touches at most the
\* row's quantity or latches it.
LEMMA QuietStep ==
  ASSUME IInv, NEW pc \in Plain, Goto(pc), RowKept, UNCHANGED <<ledgers, broker>>
  PROVE  StoreInv' /\ TickInv'
<1>0. TypeOK /\ StoreInv /\ TickInv
  BY DEF IInv
<1>1. pc \in Stages
  BY DEF Plain, Stages
<1>2. sell' = sell
  BY DEF broker
<1> QED
  BY <1>0, <1>1, <1>2, StoreFrame, PlainTick, CalmFrame, GotoReads

LEMMA BuyFillsInv ==
  ASSUME IInv, SyncBuyFills
  PROVE  StoreInv' /\ TickInv'
<1>1. RowKept
  BY TypeParts DEF IInv, Typed, Rows, SyncBuyFills, RowKept
<1> QED
  BY <1>1, QuietStep DEF SyncBuyFills, Plain

\* A new intent takes the next name, and its submission begins.
LEMMA ReserveInv ==
  ASSUME IInv, NEW next \in {"retry", "sellFills"}, Reserve(next),
         ~row.submitted, UNCHANGED <<row, order, broker>>
  PROVE  StoreInv' /\ TickInv'
<1>0. TypeOK /\ StoreInv /\ TickInv
  BY DEF IInv
<1>1. next \in Stages /\ next \in Plain
  BY DEF Stages, Plain
<1>2. CASE Goto(next) /\ UNCHANGED intent
  BY <1>1, <1>2, QuietStep, RowSame DEF ledgers
<1>3. ASSUME NEW s \in Sells, Active = {}, s \in Unused, \A t \in Unused : s <= t,
             intent' = [intent EXCEPT ![s] =
                   [position |-> row.position, state |-> "RESERVED",
                    qty |-> row.quantity, number |-> FALSE]],
             tick' = [tick EXCEPT !.pc = "readPosition", !.sell = s, !.next = next]
      PROVE  StoreInv' /\ TickInv'
  <2>1. /\ tick'.pc = "readPosition" /\ tick'.sell = s /\ tick'.next = next /\ SameReads
    BY <1>0, <1>1, <1>3, ReserveEffect
  <2>2. /\ intent'[s].position = row.position /\ intent'[s].state = "RESERVED"
        /\ intent'[s].qty = row.quantity /\ intent'[s].number = FALSE
        /\ \A t \in Sells \ {s} : intent'[t] = intent[t]
    BY <1>0, <1>3, TypeParts DEF Typed
  <2>3. UNCHANGED <<row, order, sell, held>>
    BY DEF broker
  <2>4. intent[s].state = "none" /\ order[s] = NoOrder /\ sell[s] = NoSell
    BY <1>0, <1>3 DEF Unused, StoreInv, Naming
  <2>5. Active' = {s} /\ Used' = Used \cup {s} /\ Working' = Working /\ Wired' = Wired
    <3>1. Active' = {s}
      BY <1>3, <2>2, <2>3 DEF Active
    <3>2. Used' = Used \cup {s}
      BY <2>2 DEF Used
    <3> QED
      BY <2>3, <3>1, <3>2 DEF Working, Wired
  <2>6. s \notin Working /\ s \notin Wired
    BY <2>4 DEF Working, Wired, NoSell
  <2>7. Naming'
    <3>0. row.position \in Int /\ Sells \subseteq Int
      BY <1>0, TypeParts DEF Typed, Rows, Sells
    <3>1. \A t \in Sells : intent'[t].position <= row'.position
      BY <1>0, <2>2, <2>3, <3>0 DEF StoreInv, Naming
    <3>2. \A t \in Sells : intent'[t].state = "none" =>
            intent'[t] = NoIntent /\ order'[t] = NoOrder /\ sell'[t] = NoSell
      BY <1>0, <2>2, <2>3 DEF StoreInv, Naming
    <3>3. \A t \in Sells : t < s => t \in Used
      <4> SUFFICES ASSUME NEW t \in Sells, t < s, t \notin Used PROVE FALSE
        OBVIOUS
      <4>1. t \in Unused
        BY DEF Used, Unused
      <4> QED
        BY <1>3, <3>0, <4>1
    <3>4. \A t \in Used', r \in Sells : r < t => r \in Used'
      BY <1>0, <2>5, <3>3 DEF StoreInv, Naming
    <3>5. \A t \in Used : t <= s
      <4> SUFFICES ASSUME NEW t \in Used, ~(t <= s) PROVE FALSE
        OBVIOUS
      <4>1. s < t /\ t \in Sells
        BY <3>0 DEF Used
      <4>2. s \in Used
        BY <1>0, <4>1 DEF StoreInv, Naming
      <4> QED
        BY <2>4, <4>2 DEF Used
    <3>6. \A r \in Active', t \in Used' : t <= r
      BY <2>5, <3>0, <3>5
    <3> QED
      BY <3>1, <3>2, <3>4, <3>6 DEF Naming
  <2>8. Numbering'
    BY <1>0, <2>2, <2>3, <2>4 DEF StoreInv, Numbering, Landed, NoOrder, NoSell
  <2>9. Reserving'
    BY <1>0, <1>3, <2>2, <2>3, <2>5 DEF StoreInv, Reserving
  <2>10. HeldBack' /\ NoOversell'
    BY <1>0, <2>2, <2>3, <2>5, <2>6 DEF StoreInv, HeldBack, NoOversell, Working, Wired
  <2>11. Shareholding' /\ RowStatus' /\ OneAtMost'
    BY <1>0, <2>3, <2>5 DEF StoreInv, Shareholding, RowStatus, OneAtMost
  <2>12. Exiting'
    BY <1>0, <2>3 DEF StoreInv, Exiting, RowStatus
  <2>13. StoreInv'
    BY <2>7, <2>8, <2>9, <2>10, <2>11, <2>12 DEF StoreInv
  <2>14. SweepHolds'
    BY <1>0, <2>1, <2>3, SweepKept, CalmFrame DEF TickInv
  <2>15. Submitting'
    BY <2>1, <2>2, <2>3, <2>4, <2>5 DEF Submitting, At, BeforeWire, Sending
  <2>16. Adopting' /\ Continuing' /\ ReadsHold' /\ Releasing'
    BY <2>1 DEF Adopting, Continuing, ReadsHold, Releasing, At, BeforeWire, Sending
  <2> QED
    BY <2>13, <2>14, <2>15, <2>16 DEF TickInv
<1> QED
  BY <1>0, <1>1, <1>2, <1>3, ReserveCases

LEMMA ExitsInv ==
  ASSUME IInv, RunExits \/ RetryLatched
  PROVE  StoreInv' /\ TickInv'
<1>0. TypeOK
  BY DEF IInv
<1>1. CASE Hold /\ UNCHANGED <<broker, crashes>>
  BY <1>1, QuietStep, RowSame DEF Hold, ledgers, Plain
<1>2. CASE LatchExit /\ UNCHANGED <<broker, crashes>>
  <2>1. RowKept
    BY <1>0, <1>2, LatchEffect DEF LatchExit, RowKept
  <2> QED
    BY <1>2, <2>1, QuietStep DEF LatchExit, ledgers, Plain
<1>3. CASE DecideSell /\ UNCHANGED <<broker, crashes>>
  BY <1>3, ReserveInv DEF DecideSell
<1>4. CASE RetryLatched
  <2>1. CASE Reserve("sellFills") /\ ~row.submitted
    BY <1>4, <2>1, ReserveInv DEF RetryLatched
  <2>2. CASE Goto("sellFills") /\ UNCHANGED intent
    BY <1>4, <2>2, QuietStep, RowSame DEF RetryLatched, ledgers, Plain
  <2> QED
    BY <1>4, <2>1, <2>2 DEF RetryLatched
<1> QED
  BY <1>1, <1>2, <1>3, <1>4 DEF RunExits

-----------------------------------------------------------------------------
(* _submit_sell. *)

\* Of the active intents only the newest exists.
LEMMA OneActive ==
  ASSUME TypeOK, StoreInv, NEW s \in Active, NEW t \in Active
  PROVE  s = t
<1>1. Active \subseteq Used /\ Active \subseteq Sells /\ Sells \subseteq Int
  BY DEF Active, Used, Sells
<1>2. s <= t /\ t <= s
  BY <1>1 DEF StoreInv, Naming
<1> QED
  BY <1>1, <1>2

\* The submission in progress, as the invariant has it.
LEMMA AtSubmission ==
  ASSUME IInv, BeforeWire \/ tick.pc \in Sending
  PROVE  /\ tick.sell \in Active /\ tick.sell \in Sells
         /\ Active = {tick.sell} /\ ~row.submitted
         /\ tick.next \in {"retry", "sellFills"}
         /\ tick.next \in Stages /\ tick.next \in Plain
         /\ intent[tick.sell].qty = row.quantity
         /\ intent[tick.sell].state = IF At("submitted") THEN "SUBMITTED" ELSE "RESERVED"
<1>1. tick.sell \in Active /\ TypeOK /\ StoreInv
  BY DEF IInv, TickInv, Submitting
<1>2. Active = {tick.sell}
  BY <1>1, OneActive
<1> QED
  BY <1>1, <1>2 DEF IInv, TickInv, Submitting, Continuing, Active, Stages, Plain

\* The stage after a read of the submission.
LEMMA SubmissionRead ==
  ASSUME TypeOK, ReadPosition \/ ReadOrders \/ Snapshot
  PROVE  /\ SameReads /\ tick'.sell = tick.sell /\ tick'.next = tick.next
         /\ ReadPosition => tick'.pc = "readOrders"
         /\ ReadOrders => tick'.pc = "snapshot" /\ tick'.pending = (OpenSells # {})
         /\ Snapshot => /\ tick'.pc = "gate" /\ tick'.snap = held
                        /\ tick'.pending = tick.pending
<1>0. tick \in Ticks
  BY TypeParts DEF Typed
<1>1. CASE ReadPosition
  <2>1. tick' = [tick EXCEPT !.pc = "readOrders", !.qty = held]
    BY <1>1 DEF ReadPosition
  <2> QED
    BY <1>0, <1>1, <2>1 DEF Ticks, SameReads, ReadPosition, ReadOrders, Snapshot, At
<1>2. CASE ReadOrders
  <2>1. tick' = [tick EXCEPT !.pc = "snapshot", !.pending = OpenSells # {}]
    BY <1>2 DEF ReadOrders
  <2> QED
    BY <1>0, <1>2, <2>1 DEF Ticks, SameReads, ReadPosition, ReadOrders, Snapshot, At
<1>3. CASE Snapshot
  <2>1. tick' = [tick EXCEPT !.pc = "gate", !.snap = held]
    BY <1>3 DEF Snapshot
  <2> QED
    BY <1>0, <1>3, <2>1 DEF Ticks, SameReads, ReadPosition, ReadOrders, Snapshot, At
<1> QED
  BY <1>1, <1>2, <1>3

\* A book without the symbol shows that nothing works, unless a lost
\* request is still on its way, and then an order without a number is UNKNOWN.
LEMMA EmptyBook ==
  ASSUME IInv, BeforeWire, OpenSells = {}, ~NeverNumbered
  PROVE  Working = {}
<1> SUFFICES ASSUME NEW s \in Working PROVE FALSE
  OBVIOUS
<1>1. s \in Wired /\ sell[s].at = "wire" /\ s \in Sells
  BY DEF Working, Wired, OpenSells
<1>2. ~order[s].number
  BY <1>1 DEF IInv, StoreInv, Numbering, Landed
<1>3. intent[s].state = "RESERVED"
  BY <1>1, <1>2 DEF IInv, StoreInv, HeldBack, NeverNumbered
<1>4. s = tick.sell
  BY <1>1, <1>3, AtSubmission DEF IInv, StoreInv, Reserving
<1> QED
  BY <1>1, <1>4 DEF IInv, TickInv, Submitting, NoSell

LEMMA ReadsInv ==
  ASSUME IInv, ReadPosition \/ ReadOrders \/ Snapshot
  PROVE  StoreInv' /\ TickInv'
<1>0. TypeOK /\ StoreInv /\ TickInv /\ BeforeWire
  BY DEF IInv, BeforeWire, ReadPosition, ReadOrders, Snapshot, At
<1>1. UNCHANGED <<row, intent, order, sell, held>>
  BY DEF ReadPosition, ReadOrders, Snapshot, ledgers, broker
<1>2. StoreInv'
  BY <1>0, <1>1, StoreFrame, RowSame DEF ledgers, broker
<1>3. /\ tick'.sell = tick.sell /\ tick'.next = tick.next /\ SameReads
      /\ tick'.pc \in {"readOrders", "snapshot", "gate"}
  BY <1>0, SubmissionRead
<1>4. SweepHolds'
  BY <1>0, <1>1, <1>3, SweepKept, CalmFrame DEF TickInv
<1>5. /\ Active' = Active /\ Working' = Working /\ NeverNumbered' = NeverNumbered
  BY <1>1 DEF Active, Working, NeverNumbered
<1>6. Submitting'
  BY <1>0, <1>1, <1>3, <1>5, AtSubmission
  DEF TickInv, Submitting, At, BeforeWire, Sending
<1>7. Adopting' /\ Continuing' /\ Releasing'
  BY <1>0, <1>3, AtSubmission DEF Adopting, Continuing, Releasing, At, BeforeWire, Sending
<1>8. ReadsHold'
  <2>1. CASE ReadPosition
    BY <1>0, <2>1, SubmissionRead DEF ReadsHold, At
  <2>2. CASE ReadOrders
    <3>1. tick'.pc = "snapshot" /\ tick'.pending = (OpenSells # {})
      BY <1>0, <2>2, SubmissionRead
    <3>2. OpenSells = {} /\ ~NeverNumbered => Working = {}
      BY <1>0, EmptyBook
    <3> QED
      BY <1>5, <3>1, <3>2 DEF ReadsHold, At
  <2>3. CASE Snapshot
    <3>1. tick'.pc = "gate" /\ tick'.snap = held /\ tick'.pending = tick.pending
      BY <1>0, <2>3, SubmissionRead
    <3> QED
      BY <1>0, <1>1, <1>5, <2>3, <3>1 DEF ReadsHold, TickInv, Snapshot, At
  <2> QED
    BY <2>1, <2>2, <2>3
<1> QED
  BY <1>2, <1>4, <1>6, <1>7, <1>8 DEF TickInv

LEMMA SendInv ==
  ASSUME IInv, Send
  PROVE  StoreInv' /\ TickInv'
<1>0. TypeOK /\ StoreInv /\ TickInv /\ BeforeWire /\ At("gate")
  BY DEF IInv, BeforeWire, Send, At
<1> DEFINE s == tick.sell
<1>1. /\ s \in Sells /\ Active = {s} /\ ~row.submitted
      /\ tick.next \in {"retry", "sellFills"}
      /\ intent[s].qty = row.quantity /\ intent[s].state = "RESERVED"
  BY <1>0, AtSubmission DEF At
<1>2. sell[s] = NoSell /\ order[s] = NoOrder
  BY <1>0 DEF TickInv, Submitting
<1>3. /\ UNCHANGED <<row, intent, order, held>>
      /\ sell' = [sell EXCEPT ![s].at = "wire"]
  BY DEF Send, ledgers
<1>4. /\ tick'.pc = "await" /\ tick'.sell = s /\ tick'.next = tick.next /\ SameReads
  BY <1>0, TypeParts, GotoEffect DEF Send, Typed, SameReads, Stages
<1>5. /\ sell'[s].at = "wire" /\ sell'[s].filled = 0 /\ sell'[s].age = "young"
      /\ \A t \in Sells \ {s} : sell'[t] = sell[t]
  BY <1>0, <1>1, <1>2, <1>3, TypeParts DEF Typed, SellRecords, NoSell
<1> HIDE DEF s
<1>6. Working = {} /\ held = tick.snap /\ row.quantity <= held
  <2>1. ~tick.pending /\ ~NeverNumbered
    BY <1>1 DEF Send, Permitted, NeverNumbered
  <2>2. Working = {} /\ held = tick.snap
    BY <1>0, <2>1 DEF TickInv, ReadsHold
  <2>3. /\ row.quantity <= tick.qty
        /\ tick.snap = row.quantity \/ tick.snap = tick.qty
    BY <1>1 DEF Send, Permitted, s
  <2>4. held \in Int
    BY <1>0, TypeParts DEF Typed
  <2> QED
    BY <2>2, <2>3, <2>4
<1>7. /\ Working' = {s} /\ Active' = Active /\ Used' = Used
      /\ Wired' = {s}
  BY <1>1, <1>3, <1>5, <1>6 DEF Working, Active, Used, Wired
<1>8. Shareholding' /\ NoOversell' /\ OneAtMost'
  <2>1. Shareholding'
    BY <1>0, <1>2, <1>3, <1>5 DEF StoreInv, Shareholding, NoSell
  <2>2. intent'[s].qty - sell'[s].filled <= held'
    BY <1>0, <1>1, <1>3, <1>5, <1>6, TypeParts DEF Typed, Rows
  <2> QED
    BY <1>7, <2>1, <2>2 DEF NoOversell, OneAtMost
<1>9. Naming'
  <2>1. intent[s].state # "none"
    BY <1>1
  <2> QED
    BY <1>0, <1>3, <1>5, <1>7, <2>1 DEF StoreInv, Naming
<1>10. Numbering'
  <2>1. ~Landed(s)
    BY <1>2 DEF Landed, NoSell
  <2> QED
    BY <1>0, <1>3, <1>5, <2>1 DEF StoreInv, Numbering, Landed
<1>11. Reserving' /\ HeldBack' /\ RowStatus'
  BY <1>0, <1>1, <1>3, <1>7 DEF StoreInv, Reserving, HeldBack, RowStatus
<1>12. Exiting'
  BY <1>1, <1>7 DEF Exiting
<1>13. StoreInv'
  BY <1>8, <1>9, <1>10, <1>11, <1>12 DEF StoreInv
<1>14. SellsCalm
  BY <1>2, <1>5 DEF SellsCalm, Landed, NoSell
<1>15. SweepHolds'
  BY <1>0, <1>4, <1>14, SweepKept DEF TickInv
<1>16. Submitting'
  BY <1>1, <1>2, <1>3, <1>4, <1>5, <1>7 DEF Submitting, At, BeforeWire, Sending
<1>17. Adopting' /\ Continuing' /\ ReadsHold' /\ Releasing'
  BY <1>1, <1>4 DEF Adopting, Continuing, ReadsHold, Releasing, At, BeforeWire, Sending
<1> QED
  BY <1>13, <1>15, <1>16, <1>17 DEF TickInv

LEMMA RefuseInv ==
  ASSUME IInv, Refuse
  PROVE  StoreInv' /\ TickInv'
<1>0. TypeOK /\ StoreInv /\ TickInv /\ (BeforeWire \/ tick.pc \in Sending)
  BY DEF IInv, Refuse, Sending, At
<1> DEFINE s == tick.sell
<1>1. /\ s \in Sells /\ s \in Active /\ Active = {s} /\ ~row.submitted
      /\ tick.next \in Plain /\ tick.next \in Stages
  BY <1>0, AtSubmission
<1>2. order[s] = NoOrder /\ sell[s].at \in {"none", "wire"}
  BY <1>0 DEF TickInv, Submitting, Refuse, NoSell
<1>3. /\ UNCHANGED <<order, held>>
      /\ intent' = [intent EXCEPT ![s] = NoIntent]
      /\ sell' = [sell EXCEPT ![s] = NoSell]
  BY DEF Refuse
<1>4. RowKept
  BY <1>0, LatchEffect DEF Refuse, RowKept
<1>5. tick'.pc \in Plain /\ SameReads
  BY <1>0, <1>1, GotoReads DEF Refuse
<1>6. /\ sell'[s] = NoSell /\ intent'[s] = NoIntent
      /\ \A t \in Sells \ {s} : sell'[t] = sell[t] /\ intent'[t] = intent[t]
  BY <1>0, <1>1, <1>3, TypeParts DEF Typed
<1> HIDE DEF s
<1>7. /\ Working' \subseteq Working /\ Working' \subseteq Sells \ {s}
      /\ Used' = Used \ {s} /\ Active' = {}
      /\ Wired' \subseteq Wired /\ Wired' \subseteq Sells \ {s}
  <2>1. Active' = {}
    <3>1. \A t \in Sells \ {s} : t \notin Active'
      BY <1>1, <1>4, <1>6 DEF Active, RowKept
    <3>2. s \notin Active'
      BY <1>6 DEF Active, NoIntent
    <3> QED
      BY <3>1, <3>2 DEF Active
  <2>2. Used' = Used \ {s}
    BY <1>6 DEF Used, NoIntent
  <2>3. Working' \subseteq Working \ {s} /\ Wired' \subseteq Wired \ {s}
    BY <1>6 DEF Working, Wired, NoSell
  <2>4. Working \subseteq Sells /\ Wired \subseteq Sells
    BY DEF Working, Wired
  <2> QED
    BY <2>1, <2>2, <2>3, <2>4
<1>8. Shareholding' /\ NoOversell' /\ OneAtMost' /\ HeldBack'
  <2>1. Shareholding'
    BY <1>0, <1>3, <1>6, TypeParts, SizeAssumption
    DEF Typed, StoreInv, Shareholding, NoSell
  <2>2. NoOversell' /\ HeldBack'
    BY <1>0, <1>3, <1>6, <1>7 DEF StoreInv, NoOversell, HeldBack
  <2>3. OneAtMost'
    BY <1>0, <1>7 DEF StoreInv, OneAtMost
  <2> QED
    BY <2>1, <2>2, <2>3
<1>9. Naming'
  <2>1. Sells \subseteq Int
    BY DEF Sells
  <2>2. \A t \in Sells : intent'[t].position <= row'.position
    BY <1>0, <1>4, <1>6, TypeParts DEF Typed, Rows, StoreInv, Naming, RowKept, NoIntent
  <2>3. \A t \in Sells : intent'[t].state = "none" =>
          intent'[t] = NoIntent /\ order'[t] = NoOrder /\ sell'[t] = NoSell
    BY <1>0, <1>2, <1>3, <1>6 DEF StoreInv, Naming
  <2>4. ASSUME NEW t \in Used', NEW r \in Sells, r < t
        PROVE  r \in Used'
    <3>1. t \in Used /\ t # s /\ t \in Sells
      BY <1>7 DEF Used
    <3>2. r \in Used
      BY <1>0, <2>4, <3>1 DEF StoreInv, Naming
    <3>3. r # s
      <4>1. t <= s
        BY <1>0, <1>1, <3>1 DEF StoreInv, Naming
      <4> QED
        BY <2>1, <2>4, <3>1, <4>1
    <3> QED
      BY <1>7, <3>2, <3>3
  <2> QED
    BY <1>7, <2>2, <2>3, <2>4 DEF Naming
<1>10. Numbering'
  BY <1>0, <1>2, <1>3, <1>6 DEF StoreInv, Numbering, Landed, NoOrder, NoIntent, NoSell
<1>11. Reserving' /\ RowStatus'
  <2>1. ~row'.submitted /\ RowStatus'
    BY <1>0, <1>1, <1>4 DEF StoreInv, RowStatus, RowKept
  <2>2. \A t \in Sells : intent'[t].state # "RESERVED"
    BY <1>0, <1>1, <1>6 DEF StoreInv, Reserving, NoIntent
  <2> QED
    BY <2>1, <2>2 DEF Reserving
<1>12. Exiting'
  BY <1>0, <1>1, <1>4 DEF StoreInv, Exiting, RowStatus, RowKept
<1>13. SellsCalm
  BY <1>2, <1>6 DEF SellsCalm, Landed
<1> QED
  BY <1>0, <1>5, <1>8, <1>9, <1>10, <1>11, <1>12, <1>13, PlainTick DEF StoreInv

\* The answer: what the order ledger says of the submitted order.
LEMMA AnswerInv ==
  ASSUME IInv, Accepted \/ Ambiguous \/ Unrecorded
  PROVE  StoreInv' /\ TickInv'
<1>0. TypeOK /\ StoreInv /\ TickInv /\ At("await") /\ tick.pc = "await"
  BY DEF IInv, Accepted, Ambiguous, Unrecorded, Answer, At
<1> DEFINE s == tick.sell
<1>1. /\ s \in Sells /\ Active = {s} /\ ~row.submitted
      /\ tick.next \in {"retry", "sellFills"}
      /\ intent[s].qty = row.quantity /\ intent[s].state = "RESERVED"
  BY <1>0, AtSubmission DEF At, Sending
<1>2. PICK pc \in {"accepted", "ambiguous", "unrecorded"},
           unknown \in BOOLEAN, number \in BOOLEAN :
        /\ Answer(pc, unknown, number)
        /\ pc = "ambiguous" <=> ~number
        /\ pc = "ambiguous" => unknown
  BY Zenon DEF Accepted, Ambiguous, Unrecorded
<1>3. /\ UNCHANGED <<row, intent, sell, held>> /\ (number => Landed(s))
      /\ order' = [order EXCEPT ![s] = [unknown |-> unknown, number |-> number]]
  BY <1>2 DEF Answer, broker
<1>4. /\ tick'.pc = pc /\ tick'.sell = s /\ tick'.next = tick.next /\ SameReads
  BY <1>0, <1>2, TypeParts, GotoEffect DEF Answer, Typed, SameReads, Stages
<1>5. /\ order'[s].unknown = unknown /\ order'[s].number = number
      /\ \A t \in Sells \ {s} : order'[t] = order[t]
  BY <1>0, <1>1, <1>3, TypeParts DEF Typed
<1>6. Working \subseteq {s} /\ sell[s].at # "none"
  BY <1>0 DEF TickInv, Submitting, Sending
<1> HIDE DEF s
<1>7. Working' = Working /\ Active' = Active /\ Used' = Used /\ Wired' = Wired
  BY <1>3 DEF Working, Active, Used, Wired
<1>8. Naming'
  BY <1>0, <1>1, <1>3, <1>5, <1>7 DEF StoreInv, Naming
<1>9. Numbering'
  BY <1>0, <1>3, <1>5 DEF StoreInv, Numbering, Landed
<1>10. HeldBack'
  BY <1>0, <1>1, <1>3, <1>5, <1>7 DEF StoreInv, HeldBack
<1>11. Shareholding' /\ NoOversell' /\ OneAtMost' /\ RowStatus' /\ Exiting' /\ Reserving'
  BY <1>0, <1>3, <1>7
  DEF StoreInv, Shareholding, NoOversell, OneAtMost, RowStatus, Exiting, Reserving
<1>12. StoreInv'
  BY <1>8, <1>9, <1>10, <1>11 DEF StoreInv
<1>13. SweepHolds'
  BY <1>0, <1>3, <1>4, CalmFrame, SweepKept DEF TickInv
<1>14. Submitting'
  <2>1. pc # "ambiguous" => Landed(s)
    BY <1>2, <1>3
  <2>2. pc = "ambiguous" => order'[s].unknown /\ ~order'[s].number
    BY <1>2, <1>5
  <2> QED
    BY <1>1, <1>2, <1>3, <1>4, <1>6, <1>7, <2>1, <2>2
    DEF Submitting, At, BeforeWire, Sending, Landed
<1>15. Adopting' /\ Continuing' /\ ReadsHold' /\ Releasing'
  BY <1>1, <1>4 DEF Adopting, Continuing, ReadsHold, Releasing, At, BeforeWire, Sending
<1> QED
  BY <1>12, <1>13, <1>14, <1>15 DEF TickInv

\* An active intent is given another state by the tick that submits it.
LEMMA MarkStore ==
  ASSUME TypeOK, StoreInv, NEW s \in Active, RowKept, ~row.submitted,
         NEW state \in IntentStates \ {"none", "RESERVED"},
         intent' \in [Sells -> Intents],
         \A t \in Sells \ {s} : intent'[t] = intent[t],
         intent'[s].state = state, intent'[s].position = intent[s].position,
         intent'[s].qty = intent[s].qty,
         intent'[s].number \/ state = "SUBMITTED" => Landed(s) /\ intent'[s].number,
         s \in Wired => order[s].unknown,
         UNCHANGED <<order, broker>>
  PROVE  StoreInv'
<1>0. s \in Sells /\ Active = {s} /\ intent[s].state # "none"
  BY OneActive DEF Active
<1>1. UNCHANGED <<order, sell, held>>
  BY DEF broker
<1>2. Working' = Working /\ Used' = Used /\ Wired' = Wired /\ Active' \subseteq {s}
  <2>1. Active' \subseteq {s}
    BY <1>0 DEF Active, RowKept
  <2>2. Used' = Used
    BY <1>0 DEF Used
  <2> QED
    BY <1>1, <2>1, <2>2 DEF Working, Wired
<1>3. Naming'
  <2>1. \A t \in Sells : intent'[t].position <= row'.position
    BY <1>0 DEF StoreInv, Naming, RowKept
  <2>2. \A t \in Sells : intent'[t].state = "none" =>
          intent'[t] = NoIntent /\ order'[t] = NoOrder /\ sell'[t] = NoSell
    BY <1>0, <1>1 DEF StoreInv, Naming
  <2> QED
    BY <1>0, <1>2, <2>1, <2>2 DEF StoreInv, Naming
<1>4. Numbering'
  BY <1>0, <1>1 DEF StoreInv, Numbering, Landed
<1>5. Reserving'
  <2>1. \A t \in Sells : intent'[t].state # "RESERVED"
    BY <1>0 DEF StoreInv, Reserving
  <2> QED
    BY <2>1 DEF Reserving, RowKept
<1>6. HeldBack'
  BY <1>0, <1>1, <1>2 DEF StoreInv, HeldBack, Wired
<1>7. NoOversell'
  BY <1>0, <1>1, <1>2 DEF StoreInv, NoOversell, Working
<1>8. Shareholding' /\ OneAtMost'
  BY <1>1, <1>2 DEF StoreInv, Shareholding, OneAtMost
<1>9. RowStatus' /\ Exiting'
  BY DEF StoreInv, RowStatus, Exiting, RowKept
<1> QED
  BY <1>3, <1>4, <1>5, <1>6, <1>7, <1>8, <1>9 DEF StoreInv

LEMMA MarkSubmittedInv ==
  ASSUME IInv, MarkSubmitted
  PROVE  StoreInv' /\ TickInv'
<1>0. TypeOK /\ StoreInv /\ TickInv /\ At("accepted") /\ tick.pc = "accepted"
  BY DEF IInv, MarkSubmitted, At
<1> DEFINE s == tick.sell
<1>1. /\ s \in Sells /\ s \in Active /\ Active = {s} /\ ~row.submitted
      /\ tick.next \in {"retry", "sellFills"} /\ intent[s].qty = row.quantity
  BY <1>0, AtSubmission DEF Sending
<1>2. UNCHANGED <<row, order, broker>>
  BY DEF MarkSubmitted
<1>3. Working \subseteq {s} /\ Landed(s)
  BY <1>0 DEF TickInv, Submitting, Sending
<1>4. /\ tick'.pc = "submitted" /\ tick'.sell = s /\ tick'.next = tick.next /\ SameReads
  BY <1>0, TypeParts, GotoEffect DEF MarkSubmitted, Typed, SameReads, Stages
<1>5. /\ intent' \in [Sells -> Intents]
      /\ \A t \in Sells \ {s} : intent'[t] = intent[t]
      /\ intent'[s].state = "SUBMITTED" /\ intent'[s].number = TRUE
      /\ intent'[s].position = intent[s].position
      /\ intent'[s].qty = intent[s].qty
  BY <1>0, MarkSubmittedEffect
<1> HIDE DEF s
<1>6. StoreInv'
  <2>1. s \notin Wired
    BY <1>3 DEF Landed, Wired
  <2>2. "SUBMITTED" \in IntentStates \ {"none", "RESERVED"}
    BY DEF IntentStates
  <2> QED
    BY <1>0, <1>1, <1>2, <1>3, <1>5, <2>1, <2>2, RowSame, MarkStore
<1>7. sell' = sell
  BY <1>2 DEF broker
<1>8. SweepHolds'
  BY <1>0, <1>4, <1>7, CalmFrame, SweepKept DEF TickInv
<1>9. Submitting'
  <2>1. s \in Active' /\ Working' = Working
    BY <1>1, <1>2, <1>5, <1>7 DEF Active, Working
  <2> QED
    BY <1>1, <1>2, <1>3, <1>4, <1>5, <1>7, <2>1
    DEF Submitting, At, BeforeWire, Sending, Landed
<1>10. Adopting' /\ Continuing' /\ ReadsHold' /\ Releasing'
  BY <1>1, <1>4 DEF Adopting, Continuing, ReadsHold, Releasing, At, BeforeWire, Sending
<1> QED
  BY <1>6, <1>8, <1>9, <1>10 DEF TickInv

LEMMA MarkExitSubmittedInv ==
  ASSUME IInv, MarkExitSubmitted
  PROVE  StoreInv' /\ TickInv'
<1>0. TypeOK /\ StoreInv /\ TickInv /\ At("submitted") /\ tick.pc = "submitted"
  BY DEF IInv, MarkExitSubmitted, At
<1> DEFINE s == tick.sell
<1>1. /\ s \in Sells /\ Active = {s} /\ tick.next \in Plain /\ tick.next \in Stages
      /\ intent[s].state = "SUBMITTED"
  BY <1>0, AtSubmission DEF Sending
<1>2. Working \subseteq {s}
  BY <1>0 DEF TickInv, Submitting, Sending
<1>3. UNCHANGED <<intent, order, sell, held>>
  BY DEF MarkExitSubmitted, ledgers, broker
<1>4. tick'.pc \in Plain /\ SameReads
  BY <1>0, <1>1, GotoReads DEF MarkExitSubmitted
<1>5. row'.position = row.position /\ row'.submitted /\ row'.status = "EXIT_SUBMITTED"
  BY <1>0, RowEffect DEF MarkExitSubmitted, RowStates
<1> HIDE DEF s
<1>6. Active' = Active /\ Working' = Working /\ Used' = Used /\ Wired' = Wired
  BY <1>3, <1>5 DEF Active, Working, Used, Wired
<1>7. RowStatus' /\ Exiting' /\ Reserving'
  BY <1>0, <1>1, <1>2, <1>3, <1>5, <1>6 DEF StoreInv, RowStatus, Exiting, Reserving
<1>8. Shareholding' /\ Naming' /\ Numbering' /\ HeldBack' /\ OneAtMost' /\ NoOversell'
  BY <1>0, <1>3, <1>5, <1>6
  DEF StoreInv, Shareholding, Naming, Numbering, HeldBack, OneAtMost, NoOversell, Landed
<1> QED
  BY <1>0, <1>3, <1>4, <1>7, <1>8, PlainTick, CalmFrame DEF StoreInv

LEMMA MarkUnansweredInv ==
  ASSUME IInv, MarkUnanswered
  PROVE  StoreInv' /\ TickInv'
<1>0. TypeOK /\ StoreInv /\ TickInv
  BY DEF IInv
<1> DEFINE s == tick.sell
<1>1. PICK state \in {"SUBMISSION_UNKNOWN", "ABORTED"} :
        /\ IF state = "ABORTED" THEN At("unrecorded") ELSE BeforeWire \/ At("ambiguous")
        /\ intent' = [intent EXCEPT ![s].state = state]
  BY DEF MarkUnanswered
<1>2. /\ s \in Sells /\ s \in Active /\ ~row.submitted
      /\ tick.next \in Plain /\ tick.next \in Stages /\ intent[s].state = "RESERVED"
  <2>1. BeforeWire \/ tick.pc \in Sending
    BY <1>1 DEF Sending, At
  <2>2. ~At("submitted")
    BY <1>1 DEF At, BeforeWire
  <2> QED
    BY <2>1, <2>2, AtSubmission
<1>3. state \in IntentStates
  BY DEF IntentStates
<1>4. UNCHANGED <<order, broker>> /\ sell' = sell
  BY DEF MarkUnanswered, broker
<1>5. tick'.pc \in Plain /\ SameReads
  BY <1>0, <1>2, GotoReads DEF MarkUnanswered
<1>6. RowKept
  BY <1>0, LatchEffect DEF MarkUnanswered, RowKept
<1>7. /\ intent' \in [Sells -> Intents]
      /\ \A t \in Sells \ {s} : intent'[t] = intent[t]
      /\ intent'[s].state = state /\ intent'[s].position = intent[s].position
      /\ intent'[s].qty = intent[s].qty /\ intent'[s].number = intent[s].number
  BY <1>0, <1>1, <1>2, <1>3, IntentEffect
<1>8. s \in Wired => order[s].unknown
  <2>1. CASE BeforeWire
    BY <1>0, <2>1 DEF TickInv, Submitting, NoSell, Wired
  <2>2. CASE At("ambiguous")
    BY <1>0, <2>2 DEF TickInv, Submitting
  <2>3. CASE At("unrecorded")
    BY <1>0, <2>3 DEF TickInv, Submitting, At, Landed, Wired
  <2> QED
    BY <1>1, <2>1, <2>2, <2>3
<1>9. intent'[s].number \/ state = "SUBMITTED" => Landed(s) /\ intent'[s].number
  BY <1>0, <1>2, <1>7 DEF StoreInv, Numbering
<1> HIDE DEF s
<1>10. StoreInv'
  BY <1>0, <1>2, <1>3, <1>4, <1>6, <1>7, <1>8, <1>9, MarkStore
<1> QED
  BY <1>0, <1>4, <1>5, <1>10, PlainTick, CalmFrame

-----------------------------------------------------------------------------
(* The stages after it. *)

\* The active intent of a submitted exit is known to the broker.
LEMMA SubmittedLanded ==
  ASSUME StoreInv, row.submitted, NEW s \in Active
  PROVE  /\ intent[s].state = "SUBMITTED" /\ intent[s].number
         /\ Landed(s) /\ s \notin Wired
BY DEF StoreInv, Reserving, Numbering, Active, Landed, Wired

\* A submitted exit ends: its row is closed, or nothing works any more.
LEMMA EndStore ==
  ASSUME TypeOK, StoreInv, row.submitted,
         NEW state \in {"CONFIRMED", "ABORTED"}, EndIntent(state),
         row'.position = row.position, row'.submitted = row.submitted,
         \/ row'.status = "CLOSED"
         \/ row'.status = row.status /\ Working = {},
         UNCHANGED broker,
         \A s \in Sells : /\ order'[s].number = order[s].number
                          /\ s \notin Active => order'[s] = order[s]
  PROVE  StoreInv'
<1>0. state \in IntentStates /\ sell' = sell /\ held' = held
  BY DEF IntentStates, broker
<1>1. \A s \in Sells :
        /\ intent'[s].position = intent[s].position
        /\ intent'[s].qty = intent[s].qty
        /\ intent'[s].number = intent[s].number
        /\ intent'[s].state = IF s \in Active THEN state ELSE intent[s].state
        /\ s \notin Active => intent'[s] = intent[s]
  BY <1>0, EndIntentEffect DEF EndIntent
<1>2. /\ Active' = {} /\ Used' = Used /\ Working' = Working /\ Wired' = Wired
  <2>1. Active' = {}
    BY <1>1 DEF Active
  <2>2. Used' = Used
    BY <1>1 DEF Used, Active
  <2> QED
    BY <1>0, <2>1, <2>2 DEF Working, Wired
<1>3. Naming'
  <2>1. \A s \in Sells : intent'[s].position <= row'.position
    BY <1>1 DEF StoreInv, Naming
  <2>2. \A s \in Sells : intent'[s].state = "none" => s \notin Active
    BY <1>1 DEF Active
  <2>3. \A s \in Sells : intent'[s].state = "none" =>
          intent'[s] = NoIntent /\ order'[s] = NoOrder /\ sell'[s] = NoSell
    BY <1>0, <1>1, <2>2 DEF StoreInv, Naming
  <2> QED
    BY <1>2, <2>1, <2>3 DEF StoreInv, Naming
<1>4. Numbering'
  BY <1>0, <1>1 DEF StoreInv, Numbering, Landed
<1>5. Reserving'
  <2>1. \A s \in Sells : intent'[s].state # "RESERVED"
    BY <1>1, SubmittedLanded DEF StoreInv, Reserving
  <2> QED
    BY <1>2, <2>1 DEF Reserving
<1>6. HeldBack'
  <2>1. \A s \in Wired : s \in Sells /\ s \notin Active
    BY SubmittedLanded DEF Wired
  <2> QED
    BY <1>1, <1>2, <2>1 DEF StoreInv, HeldBack
<1>7. NoOversell' /\ Shareholding' /\ OneAtMost'
  BY <1>0, <1>1, <1>2 DEF StoreInv, NoOversell, Shareholding, OneAtMost, Working
<1>8. RowStatus' /\ Exiting'
  BY <1>2 DEF StoreInv, RowStatus, Exiting
<1> QED
  BY <1>3, <1>4, <1>5, <1>6, <1>7, <1>8 DEF StoreInv

LEMMA SellFillsInv ==
  ASSUME IInv, NEW f \in Facts, SyncSellFills(f)
  PROVE  StoreInv' /\ TickInv'
<1>0. TypeOK /\ StoreInv /\ TickInv
  BY DEF IInv
<1>1. Goto("stale") /\ UNCHANGED broker /\ sell' = sell
  BY DEF SyncSellFills, broker
<1>2. tick'.pc \in Plain /\ SameReads
  BY <1>0, <1>1, GotoReads DEF Plain, Stages
<1>3. TickInv'
  BY <1>0, <1>1, <1>2, PlainTick, CalmFrame
<1>4. CASE UNCHANGED <<row, ledgers>>
  BY <1>0, <1>1, <1>3, <1>4, StoreFrame, RowSame
<1>5. CASE row' = [row EXCEPT !.quantity = row.quantity - f.sold] /\ UNCHANGED ledgers
  <2>1. RowKept
    BY <1>0, <1>5, TypeParts DEF Typed, Rows, RowKept
  <2> QED
    BY <1>0, <1>1, <1>3, <1>5, <2>1, StoreFrame
<1>6. CASE /\ row.submitted /\ Close("CONFIRMED")
           /\ order' = [s \in Sells |->
               IF s \in Active /\ f.sold >= intent[s].qty
               THEN [order[s] EXCEPT !.unknown = FALSE] ELSE order[s]]
  <2>1. \A s \in Sells : /\ order'[s].number = order[s].number
                         /\ s \notin Active => order'[s] = order[s]
    BY <1>0, <1>6, TypeParts DEF Typed, OrderRows
  <2>2. /\ row'.position = row.position /\ row'.submitted = row.submitted
        /\ row'.status = "CLOSED" /\ EndIntent("CONFIRMED")
    BY <1>0, <1>6, CloseEffect DEF IntentStates
  <2> QED
    BY <1>0, <1>1, <1>3, <1>6, <2>1, <2>2, EndStore
<1> QED
  BY <1>4, <1>5, <1>6 DEF SyncSellFills

\* The tick goes on to a release: nothing works, and the intent has ended.
LEMMA AbortInv ==
  ASSUME IInv, Leaving, Working = {}, NEW next \in {"recover", "retire"},
         Abort(next), UNCHANGED <<row, order, broker>>
  PROVE  StoreInv' /\ TickInv'
<1>0. TypeOK /\ StoreInv /\ TickInv /\ next \in Stages
  BY DEF IInv, Stages
<1>1. /\ tick'.pc = "release" /\ tick'.next = next /\ SameReads
      /\ EndIntent("ABORTED")
  BY <1>0, AbortEffect
<1>2. UNCHANGED <<row, order, sell, held>> /\ row.submitted
  BY DEF broker, Leaving
<1>3. StoreInv'
  BY <1>0, <1>1, <1>2, EndStore
<1>4. SweepHolds'
  BY <1>0, <1>1, <1>2, CalmFrame, SweepKept DEF TickInv
<1>5. Releasing'
  BY <1>1, <1>2 DEF Releasing, Leaving, Working, At
<1>6. Adopting' /\ Continuing' /\ Submitting' /\ ReadsHold'
  BY <1>1 DEF Adopting, Continuing, Submitting, ReadsHold, At, BeforeWire, Sending
<1> QED
  BY <1>3, <1>4, <1>5, <1>6 DEF TickInv

\* The row of a submitted exit hides no SELL but the one it names.
LEMMA OwnSell ==
  ASSUME TypeOK, StoreInv, Leaving, NEW s \in Working
  PROVE  s \in Active /\ sell[s].at = "open" /\ Numbered # {} /\ Max(Numbered) = s
<1>1. s \in Active /\ row.submitted /\ s \in Sells
  BY DEF StoreInv, Exiting, Leaving, Active
<1>2. Landed(s) /\ intent[s].number
  BY <1>1, SubmittedLanded
<1>3. sell[s].at = "open"
  BY <1>2 DEF Landed, Working
<1> DEFINE own == {t \in OfRow : intent[t].number}
<1>4. s \in own
  BY <1>1, <1>2 DEF OfRow, Active
<1>5. Numbered = own
  BY <1>4 DEF Numbered
<1>6. \A t \in own : t <= s
  <2> SUFFICES ASSUME NEW t \in own PROVE t <= s
    OBVIOUS
  <2>1. t \in Used
    BY DEF StoreInv, Naming, OfRow, NoIntent, Used
  <2> QED
    BY <1>1, <2>1 DEF StoreInv, Naming
<1>7. own \in SUBSET Sells
  BY DEF OfRow
<1> HIDE DEF own
<1> QED
  BY <1>1, <1>3, <1>4, <1>5, <1>6, <1>7, MaxOfSells

\* What the market, and a cancel, do to an order: it arrives, leaves the
\* book, is published or grows old.
SellMoves(s) ==
  /\ sell'[s].filled = sell[s].filled
  /\ \/ sell'[s].at = sell[s].at
     \/ sell[s].at = "wire" /\ sell'[s].at \in {"open", "lost"}
     \/ sell[s].at = "open" /\ sell'[s].at = "gone"
  /\ sell'[s].age # "young" => sell[s].age # "young" \/ Landed(s)
  /\ order'[s].number = order[s].number
  /\ order[s].unknown => order'[s].unknown
  /\ intent[s].state = "none" => sell'[s] = sell[s] /\ order'[s] = order[s]

LEMMA MoveStore ==
  ASSUME StoreInv, UNCHANGED <<row, intent, held>>, \A s \in Sells : SellMoves(s)
  PROVE  StoreInv' /\ SellsCalm /\ Active' = Active /\ Working' \subseteq Working
<1>1. /\ Active' = Active /\ Used' = Used
      /\ Working' \subseteq Working /\ Wired' \subseteq Wired
  BY DEF Active, Used, Working, Wired, SellMoves
<1>2. Naming'
  BY <1>1 DEF StoreInv, Naming, SellMoves
<1>3. Numbering' /\ SellsCalm
  <2>1. \A s \in Sells : Landed(s) => Landed(s)' /\ (sell[s].at # "open" => sell'[s].at # "open")
    BY DEF SellMoves, Landed
  <2>2. Numbering'
    BY <2>1 DEF StoreInv, Numbering, SellMoves
  <2> QED
    BY <2>1, <2>2 DEF SellsCalm, Landed
<1>4. HeldBack'
  BY <1>1 DEF StoreInv, HeldBack, SellMoves, Wired
<1>5. NoOversell'
  BY <1>1 DEF StoreInv, NoOversell, SellMoves, Working
<1>6. Shareholding' /\ RowStatus' /\ Reserving' /\ Exiting' /\ OneAtMost'
  BY <1>1 DEF StoreInv, Shareholding, RowStatus, Reserving, Exiting, OneAtMost, SellMoves
<1> QED
  BY <1>1, <1>2, <1>3, <1>4, <1>5, <1>6 DEF StoreInv

LEMMA CancelInv ==
  ASSUME IInv, NEW next \in {"recover", "confirm"}, Cancel(next), UNCHANGED held
  PROVE  StoreInv' /\ TickInv'
<1>0. TypeOK /\ StoreInv /\ TickInv /\ At("cancel") /\ tick.sell \in Sells
  BY TypeParts DEF IInv, Cancel, Typed, Ticks
<1>1. intent[tick.sell].state # "none" /\ Leaving
  BY <1>0 DEF TickInv, Releasing, At
<1>2. PICK taken \in BOOLEAN, unknown \in BOOLEAN :
        /\ taken => tick.sell \in OpenSells
        /\ sell' = [sell EXCEPT ![tick.sell].at = IF taken THEN "gone" ELSE @]
        /\ order' = [order EXCEPT ![tick.sell].unknown = unknown \/ @]
  BY DEF Cancel
<1>3. UNCHANGED <<row, intent, held>> /\ Goto(next)
  BY DEF Cancel
<1>4. \A s \in Sells : SellMoves(s)
  <2>1. \A s \in Sells \ {tick.sell} : sell'[s] = sell[s] /\ order'[s] = order[s]
    BY <1>0, <1>2, TypeParts DEF Typed
  <2>2. /\ sell'[tick.sell].filled = sell[tick.sell].filled
        /\ sell'[tick.sell].age = sell[tick.sell].age
        /\ \/ sell'[tick.sell].at = sell[tick.sell].at
           \/ sell[tick.sell].at = "open" /\ sell'[tick.sell].at = "gone"
    BY <1>0, <1>2, TypeParts DEF Typed, SellRecords, OpenSells
  <2>3. order'[tick.sell].number = order[tick.sell].number
    <3> DEFINE u == unknown \/ order[tick.sell].unknown
    <3>1. order' = [order EXCEPT ![tick.sell].unknown = u]
      BY <1>2
    <3> HIDE DEF u
    <3> QED
      BY <1>0, <3>1, TypeParts DEF Typed, OrderRows
  <2>4. order[tick.sell].unknown => order'[tick.sell].unknown
    <3> DEFINE u == unknown \/ order[tick.sell].unknown
    <3>1. order' = [order EXCEPT ![tick.sell].unknown = u]
      BY <1>2
    <3> HIDE DEF u
    <3>2. order'[tick.sell].unknown = u
      BY <1>0, <3>1, TypeParts DEF Typed, OrderRows
    <3> QED
      BY <3>2 DEF u
  <2> QED
    BY <1>1, <2>1, <2>2, <2>3, <2>4 DEF SellMoves
<1>5. StoreInv' /\ SellsCalm
  BY <1>0, <1>3, <1>4, MoveStore
<1>6. SameReads /\ tick'.pc = next
  BY <1>0, <1>3, GotoReads DEF Stages
<1>7. TickInv'
  <2>1. SweepHolds'
    BY <1>0, <1>5, <1>6, SweepKept DEF TickInv
  <2>2. Releasing'
    BY <1>1, <1>3, <1>6 DEF Releasing, Leaving, At
  <2>3. Adopting' /\ Continuing' /\ Submitting' /\ ReadsHold'
    BY <1>6 DEF Adopting, Continuing, Submitting, ReadsHold, At, BeforeWire, Sending
  <2> QED
    BY <2>1, <2>2, <2>3 DEF TickInv
<1> QED
  BY <1>5, <1>7

LEMMA StaleSellInv ==
  ASSUME IInv, StaleSellTimeout
  PROVE  StoreInv' /\ TickInv'
<1>0. TypeOK /\ StoreInv /\ TickInv
  BY DEF IInv
<1>1. CASE SkipStale /\ UNCHANGED <<held, crashes>>
  BY <1>1, QuietStep, RowSame DEF SkipStale, ledgers, broker, Plain
<1>2. CASE AskCancel /\ UNCHANGED <<held, crashes>>
  <2>1. PICK s \in Active : tick' = [tick EXCEPT !.pc = "cancel", !.sell = s]
    BY <1>2 DEF AskCancel
  <2>2. s \in Sells /\ intent[s].state # "none"
    BY DEF Active
  <2>3. UNCHANGED <<row, ledgers, broker>> /\ Leaving /\ sell' = sell
    BY <1>2 DEF AskCancel, broker
  <2>4. tick'.pc = "cancel" /\ SameReads /\ tick'.sell = s
    BY <1>0, <2>1, <2>2, TypeParts DEF Typed, Ticks, SameReads
  <2>5. StoreInv'
    BY <1>0, <2>3, StoreFrame, RowSame
  <2>6. SweepHolds'
    BY <1>0, <2>3, <2>4, CalmFrame, SweepKept DEF TickInv
  <2>7. Releasing'
    BY <2>2, <2>3, <2>4 DEF Releasing, Leaving, At, ledgers
  <2>8. Adopting' /\ Continuing' /\ Submitting' /\ ReadsHold'
    BY <2>4 DEF Adopting, Continuing, Submitting, ReadsHold, At, BeforeWire, Sending
  <2> QED
    BY <2>5, <2>6, <2>7, <2>8 DEF TickInv
<1>3. CASE (Cancel("confirm") \/ Cancel("recover")) /\ UNCHANGED <<held, crashes>>
  BY <1>3, CancelInv
<1>4. CASE Confirm /\ UNCHANGED <<held, crashes>>
  <2>1. UNCHANGED <<row, order, broker>>
    BY <1>4 DEF Confirm, broker
  <2>2. Leaving
    BY <1>0, <1>4 DEF Confirm, TickInv, Releasing, At
  <2>3. CASE OpenSells = {} /\ Abort("recover")
    <3>1. Working = {}
      BY <1>0, <2>2, <2>3, OwnSell DEF OpenSells, Working
    <3> QED
      BY <2>1, <2>2, <2>3, <3>1, AbortInv
  <2>4. CASE Goto("recover") /\ UNCHANGED intent
    BY <2>1, <2>4, QuietStep, RowSame DEF ledgers, Plain
  <2> QED
    BY <1>4, <2>3, <2>4 DEF Confirm
<1> QED
  BY <1>1, <1>2, <1>3, <1>4 DEF StaleSellTimeout

LEMMA RecoverInv ==
  ASSUME IInv, NEW f \in Reports \cup {Silence}, RecoverDeadExit(f)
  PROVE  StoreInv' /\ TickInv'
<1>0. TypeOK /\ StoreInv /\ TickInv
  BY DEF IInv
<1>1. UNCHANGED <<row, order, broker>>
  BY DEF RecoverDeadExit
<1>2. CASE Goto("retire") /\ UNCHANGED intent
  BY <1>1, <1>2, QuietStep, RowSame DEF ledgers, Plain
<1>3. CASE Leaving /\ f.terminal /\ f.sold < row.quantity /\ Abort("retire")
  <2>1. Working = {}
    <3> SUFFICES ASSUME NEW s \in Working PROVE FALSE
      OBVIOUS
    <3>1. /\ s \in Sells /\ sell[s].at = "open" /\ Numbered # {} /\ Max(Numbered) = s
      BY <1>0, <1>3, OwnSell DEF Active
    <3>2. PICK book \in Books : f = Report(book)
      BY <1>3 DEF Reports, Silence
    <3>3. /\ f.sold = sell[s].published
          /\ f.terminal <=> \/ sell[s].published > 0 /\ sell[s].published >= row.quantity
                            \/ s \notin book /\ tick.ages[s] = "old"
      BY <3>1, <3>2 DEF Report
    <3>4. sell[s].published \in Int /\ row.quantity \in Int
      BY <1>0, <3>1, TypeParts DEF Typed, SellRecords, Rows
    <3>5. s \notin book /\ tick.ages[s] = "old"
      BY <1>3, <3>3, <3>4
    <3>6. s \in OpenSells
      BY <3>1 DEF OpenSells
    <3>7. tick.read /\ s \notin tick.sweep
      BY <3>1, <3>2, <3>5, <3>6 DEF Books
    <3> QED
      BY <1>0, <3>1, <3>5, <3>6, <3>7 DEF TickInv, SweepHolds
  <2> QED
    BY <1>1, <1>3, <2>1, AbortInv
<1> QED
  BY <1>2, <1>3 DEF RecoverDeadExit

LEMMA ReleaseInv ==
  ASSUME IInv, Release
  PROVE  StoreInv' /\ TickInv'
<1>0. TypeOK /\ StoreInv /\ TickInv /\ At("release") /\ Leaving /\ Working = {}
  BY DEF IInv, Release, TickInv, Releasing, At
<1>1. tick.next \in Plain /\ tick.next \in Stages
  BY <1>0 DEF TickInv, Continuing, Plain, Stages
<1>2. tick'.pc \in Plain /\ SameReads
  BY <1>0, <1>1, GotoReads DEF Release
<1>3. UNCHANGED <<intent, order, sell, held>>
  BY DEF Release, ledgers, broker
<1>4. row'.position = row.position /\ ~row'.submitted /\ row'.status = "EXIT_PENDING"
  BY <1>0, RowEffect DEF Release, RowStates
<1>5. Active' = Active /\ Working' = Working /\ Used' = Used /\ Wired' = Wired
  BY <1>3, <1>4 DEF Active, Working, Used, Wired
<1>6. RowStatus' /\ Exiting' /\ Reserving'
  BY <1>0, <1>3, <1>4, <1>5 DEF StoreInv, RowStatus, Exiting, Reserving
<1>7. Shareholding' /\ Naming' /\ Numbering' /\ HeldBack' /\ OneAtMost' /\ NoOversell'
  BY <1>0, <1>3, <1>4, <1>5
  DEF StoreInv, Shareholding, Naming, Numbering, HeldBack, OneAtMost, NoOversell, Landed
<1> QED
  BY <1>0, <1>2, <1>3, <1>6, <1>7, PlainTick, CalmFrame DEF StoreInv

LEMMA RetireInv ==
  ASSUME IInv, NEW f, RetireUnconfirmed(f)
  PROVE  StoreInv' /\ TickInv'
<1>0. TypeOK /\ StoreInv /\ TickInv
  BY DEF IInv
<1>1. tick' = NoTick /\ UNCHANGED <<order, broker>> /\ sell' = sell
  BY DEF RetireUnconfirmed, broker
<1>2. TickInv'
  BY <1>0, <1>1, PlainTick, CalmFrame, NoTickEffect DEF YoungAges, Plain
<1>3. CASE UNCHANGED <<row, intent>>
  BY <1>0, <1>1, <1>2, <1>3, StoreFrame, RowSame DEF ledgers
<1>4. CASE Leaving /\ Close("ABORTED")
  <2>1. /\ row'.position = row.position /\ row'.submitted = row.submitted
        /\ row'.status = "CLOSED" /\ EndIntent("ABORTED")
    BY <1>0, <1>4, CloseEffect DEF IntentStates
  <2> QED
    BY <1>0, <1>1, <1>2, <1>4, <2>1, EndStore DEF Leaving
<1> QED
  BY <1>3, <1>4 DEF RetireUnconfirmed

LEMMA RecoverReadInv ==
  ASSUME IInv, RecoverRead \/ RecoverUnread
  PROVE  StoreInv' /\ TickInv'
<1>0. TypeOK /\ StoreInv /\ TickInv /\ tick \in Ticks
  BY TypeParts DEF IInv, Typed
<1>1. CASE RecoverUnread
  BY <1>1, QuietStep, RowSame DEF RecoverUnread, Plain
<1>2. CASE RecoverRead
  <2>1. tick'.pc = "recoverRow" /\ SameReads
    <3>1. tick' = [tick EXCEPT !.pc = "recoverRow", !.book = held]
      BY <1>2 DEF RecoverRead
    <3> QED
      BY <1>0, <3>1 DEF Ticks, SameReads
  <2>2. UNCHANGED <<row, ledgers, broker>> /\ sell' = sell
    BY <1>2 DEF RecoverRead, broker
  <2> QED
    BY <1>0, <2>1, <2>2, StoreFrame, RowSame, PlainTick, CalmFrame DEF Plain
<1> QED
  BY <1>1, <1>2

-----------------------------------------------------------------------------
(* The death of a tick, the market and the reconciliation service. *)

LEMMA CrashInv ==
  ASSUME IInv, Crash
  PROVE  StoreInv' /\ TickInv'
<1>0. TypeOK /\ StoreInv /\ TickInv
  BY DEF IInv
<1>1. tick' = NoTick /\ UNCHANGED <<row, ledgers, broker>> /\ sell' = sell
  BY DEF Crash, broker
<1> QED
  BY <1>0, <1>1, StoreFrame, RowSame, PlainTick, CalmFrame, NoTickEffect
  DEF YoungAges, Plain

\* The market does not disturb what a tick relies on.
LEMMA MarketTick ==
  ASSUME IInv, UNCHANGED <<row, intent, order, tick>>, SellsCalm,
         Working' \subseteq Working, held' = held \/ Working # {},
         \A s \in Sells : /\ sell[s] = NoSell => sell'[s] = NoSell
                          /\ sell[s].at # "none" => sell'[s].at # "none"
  PROVE  TickInv'
<1>0. TypeOK /\ TickInv
  BY DEF IInv
<1>1. Active' = Active /\ NeverNumbered' = NeverNumbered
  BY DEF Active, NeverNumbered
<1>2. SweepHolds'
  BY <1>0, SweepKept DEF TickInv, SameReads
<1>3. Adopting' /\ Continuing'
  BY <1>0 DEF TickInv, Adopting, Continuing, At, BeforeWire
<1>4. Releasing'
  BY <1>0 DEF TickInv, Releasing, Leaving, At
<1>5. ReadsHold'
  BY <1>0, <1>1 DEF TickInv, ReadsHold, At
<1>6. Submitting'
  <2>0. tick.sell \in Sells
    BY <1>0, TypeParts DEF Typed, Ticks
  <2>1. Landed(tick.sell) => Landed(tick.sell)'
    BY <2>0 DEF SellsCalm, Landed
  <2> QED
    BY <1>0, <1>1, <2>0, <2>1 DEF TickInv, Submitting, At, BeforeWire
<1> QED
  BY <1>2, <1>3, <1>4, <1>5, <1>6 DEF TickInv

LEMMA FillInv ==
  ASSUME IInv, NEW s \in Sells, Fill(s)
  PROVE  StoreInv' /\ TickInv'
<1>0. TypeOK /\ StoreInv /\ TickInv
  BY DEF IInv
<1>1. s \in Working /\ sell[s].at = "open" /\ held > 0 /\ held' = held - 1
  BY DEF Fill, OpenSells, Working
<1>2. UNCHANGED <<row, intent, order, tick>>
  BY DEF Fill, ledgers
<1>3. /\ sell'[s].filled = sell[s].filled + 1 /\ sell'[s].at \in {"open", "gone"}
      /\ sell'[s].age = sell[s].age
      /\ \A t \in Sells \ {s} : sell'[t] = sell[t]
  <2> DEFINE mid == [sell EXCEPT ![s].filled = sell[s].filled + 1]
  <2>1. /\ mid[s].filled = sell[s].filled + 1 /\ mid[s].age = sell[s].age
        /\ mid[s] = [at |-> sell[s].at, filled |-> sell[s].filled + 1,
                     published |-> sell[s].published, age |-> sell[s].age]
        /\ \A t \in Sells \ {s} : mid[t] = sell[t]
        /\ DOMAIN mid = Sells
    BY <1>0, TypeParts DEF Typed, SellRecords
  <2>2. PICK at \in {"open", "gone"} : sell' = [mid EXCEPT ![s].at = at]
    BY DEF Fill
  <2> HIDE DEF mid
  <2> QED
    BY <2>1, <2>2
<1>4. /\ Active' = Active /\ Used' = Used
      /\ Working' \subseteq Working /\ Wired' = Wired /\ Working \subseteq {s}
  <2>1. Working \subseteq {s}
    BY <1>0, <1>1 DEF StoreInv, OneAtMost
  <2> QED
    BY <1>1, <1>2, <1>3, <2>1 DEF Active, Used, Working, Wired
<1>5. intent[s].state # "none"
  BY <1>0, <1>1 DEF StoreInv, Naming, NoSell
<1>6. Naming'
  BY <1>0, <1>2, <1>3, <1>4, <1>5 DEF StoreInv, Naming
<1>7. Numbering' /\ SellsCalm
  BY <1>0, <1>1, <1>2, <1>3 DEF StoreInv, Numbering, Landed, SellsCalm
<1>8. Shareholding' /\ NoOversell'
  <2>0. held \in Int /\ Shares \in Int /\ \A t \in Sells : sell[t].filled \in Int /\ intent[t].qty \in Int
    BY <1>0, TypeParts, SizeAssumption DEF Typed, SellRecords, Intents
  <2>1. Shareholding'
    BY <1>0, <1>1, <1>3, <2>0 DEF StoreInv, Shareholding
  <2>2. intent[s].qty - sell[s].filled <= held
    BY <1>0, <1>1 DEF StoreInv, NoOversell
  <2>3. intent'[s].qty - sell'[s].filled <= held'
    BY <1>1, <1>2, <1>3, <2>0, <2>2
  <2> QED
    BY <1>4, <2>1, <2>3 DEF NoOversell
<1>9. RowStatus' /\ Reserving' /\ HeldBack' /\ Exiting' /\ OneAtMost'
  BY <1>0, <1>2, <1>4 DEF StoreInv, RowStatus, Reserving, HeldBack, Exiting, OneAtMost
<1>10. TickInv'
  <2>1. \A t \in Sells : /\ sell[t] = NoSell => sell'[t] = NoSell
                         /\ sell[t].at # "none" => sell'[t].at # "none"
    BY <1>1, <1>3 DEF NoSell
  <2> QED
    BY <1>1, <1>2, <1>4, <1>7, <2>1, MarketTick
<1> QED
  BY <1>6, <1>7, <1>8, <1>9, <1>10 DEF StoreInv

LEMMA MarketInv ==
  ASSUME IInv, NEW s \in Sells, Market(s)
  PROVE  StoreInv' /\ TickInv'
<1>0. TypeOK /\ StoreInv
  BY DEF IInv
<1>1. CASE Fill(s)
  BY <1>1, FillInv
<1>2. CASE Land(s) \/ Publish(s) \/ Lapse(s) \/ Age(s)
  <2>1. UNCHANGED <<row, intent, order, held, tick>>
    BY <1>2 DEF Land, Publish, Lapse, Age, ledgers
  <2>2. \A t \in Sells \ {s} : sell'[t] = sell[t]
    BY <1>0, <1>2, TypeParts DEF Land, Publish, Lapse, Age, Typed
  <2>3. intent[s].state # "none" /\ sell[s] # NoSell
    <3>1. sell[s] # NoSell
      BY <1>2 DEF Land, Publish, Lapse, Age, NoSell, OpenSells, Landed
    <3> QED
      BY <1>0, <3>1 DEF StoreInv, Naming
  <2>4. /\ sell'[s].filled = sell[s].filled
        /\ \/ sell'[s].at = sell[s].at
           \/ sell[s].at = "wire" /\ sell'[s].at \in {"open", "lost"}
           \/ sell[s].at = "open" /\ sell'[s].at = "gone"
        /\ sell'[s].age # "young" => sell[s].age # "young" \/ Landed(s)
    <3>1. CASE Land(s)
      BY <1>0, <3>1, TypeParts DEF Land, Typed, SellRecords
    <3>2. CASE Publish(s)
      BY <1>0, <3>2, TypeParts DEF Publish, Typed, SellRecords
    <3>3. CASE Lapse(s)
      BY <1>0, <3>3, TypeParts DEF Lapse, Typed, SellRecords, OpenSells
    <3>4. CASE Age(s)
      BY <1>0, <3>4, TypeParts DEF Age, Typed, SellRecords
    <3> QED
      BY <1>2, <3>1, <3>2, <3>3, <3>4
  <2>5. \A t \in Sells : SellMoves(t)
    BY <2>1, <2>2, <2>3, <2>4 DEF SellMoves
  <2>6. StoreInv' /\ SellsCalm /\ Working' \subseteq Working
    BY <1>0, <2>1, <2>5, MoveStore
  <2>7. \A t \in Sells : /\ sell[t] = NoSell => sell'[t] = NoSell
                         /\ sell[t].at # "none" => sell'[t].at # "none"
    BY <2>2, <2>3, <2>4
  <2> QED
    BY <2>1, <2>6, <2>7, MarketTick
<1> QED
  BY <1>1, <1>2 DEF Market

LEMMA ResolveIntentInv ==
  ASSUME IInv, NEW s \in Sells, ResolveIntent(s)
  PROVE  StoreInv' /\ TickInv'
<1>0. TypeOK /\ StoreInv /\ TickInv
  BY DEF IInv
<1>1. /\ UNCHANGED <<row, order, sell, held, tick>>
      /\ intent[s].state = "SUBMISSION_UNKNOWN"
  BY DEF ResolveIntent, broker
<1>2. /\ \A t \in Sells \ {s} : intent'[t] = intent[t]
      /\ intent'[s].state = "ABORTED" /\ intent'[s].position = intent[s].position
      /\ intent'[s].qty = intent[s].qty /\ intent'[s].number = intent[s].number
  BY <1>0, IntentEffect DEF ResolveIntent, IntentStates
<1>3. /\ Active' = Active \ {s} /\ Used' = Used /\ Working' = Working /\ Wired' = Wired
  <2>1. Active' = Active \ {s}
    BY <1>1, <1>2 DEF Active
  <2>2. Used' = Used
    BY <1>1, <1>2 DEF Used
  <2> QED
    BY <1>1, <2>1, <2>2 DEF Working, Wired
<1>4. Naming'
  <2>1. \A t \in Sells : intent'[t].position <= row'.position
    BY <1>0, <1>1, <1>2 DEF StoreInv, Naming
  <2>2. \A t \in Sells : intent'[t].state = "none" =>
          intent'[t] = NoIntent /\ order'[t] = NoOrder /\ sell'[t] = NoSell
    BY <1>0, <1>1, <1>2 DEF StoreInv, Naming
  <2> QED
    BY <1>0, <1>3, <2>1, <2>2 DEF StoreInv, Naming
<1>5. Numbering'
  BY <1>0, <1>1, <1>2 DEF StoreInv, Numbering, Landed
<1>6. row.submitted => s \notin Active
  BY <1>0, <1>1 DEF StoreInv, Reserving
<1>7. Reserving' /\ Exiting'
  <2>1. \A t \in Sells : intent'[t].state = "RESERVED" =>
          t # s /\ intent[t].state = "RESERVED"
    BY <1>2
  <2>2. \A t \in Sells : intent'[t].state = "RESERVED" => t \in Active'
    BY <1>0, <1>3, <2>1 DEF StoreInv, Reserving
  <2>3. row.submitted => \A t \in Active' : intent'[t].state = "SUBMITTED"
    BY <1>0, <1>2, <1>3, <1>6 DEF StoreInv, Reserving, Active
  <2>4. Exiting'
    BY <1>0, <1>1, <1>3, <1>6 DEF StoreInv, Exiting, RowStatus
  <2> QED
    BY <1>1, <2>2, <2>3, <2>4 DEF Reserving
<1>8. HeldBack' /\ NoOversell'
  BY <1>0, <1>1, <1>2, <1>3 DEF StoreInv, HeldBack, NoOversell, Working, Wired
<1>9. Shareholding' /\ RowStatus' /\ OneAtMost'
  BY <1>0, <1>1, <1>3 DEF StoreInv, Shareholding, RowStatus, OneAtMost
<1>10. TickInv'
  <2>1. SweepHolds'
    BY <1>0, <1>1, SweepKept, CalmFrame DEF TickInv, SameReads
  <2>2. Adopting' /\ Continuing' /\ ReadsHold'
    BY <1>0, <1>1, <1>3
    DEF TickInv, Adopting, Continuing, ReadsHold, At, BeforeWire, NeverNumbered
  <2>3. Submitting'
    <3>1. ASSUME BeforeWire \/ tick.pc \in Sending
          PROVE  tick.sell # s /\ tick.sell \in Sells
      BY <1>1, <3>1, AtSubmission
    <3>2. BeforeWire' <=> BeforeWire
      BY <1>1 DEF BeforeWire
    <3> QED
      BY <1>0, <1>1, <1>2, <1>3, <3>1, <3>2
      DEF TickInv, Submitting, At, Landed
  <2>4. Releasing'
    <3>1. tick.sell \in Sells
      BY <1>0, TypeParts DEF Typed, Ticks
    <3> QED
      BY <1>0, <1>1, <1>2, <1>3, <3>1 DEF TickInv, Releasing, Leaving, At
  <2> QED
    BY <2>1, <2>2, <2>3, <2>4 DEF TickInv
<1> QED
  BY <1>4, <1>5, <1>7, <1>8, <1>9, <1>10 DEF StoreInv

LEMMA ResolveOrderInv ==
  ASSUME IInv, NEW s \in Sells, ResolveOrder(s)
  PROVE  StoreInv' /\ TickInv'
<1>0. TypeOK /\ StoreInv /\ TickInv
  BY DEF IInv
<1>1. /\ UNCHANGED <<row, intent, sell, held, tick>>
      /\ order[s].unknown /\ order[s].number
      /\ order' = [order EXCEPT ![s].unknown = FALSE]
  BY DEF ResolveOrder, broker
<1>2. order'[s].number = order[s].number /\ \A t \in Sells \ {s} : order'[t] = order[t]
  BY <1>0, <1>1, TypeParts DEF Typed, OrderRows
<1>3. Landed(s) /\ order[s] # NoOrder
  BY <1>0, <1>1 DEF StoreInv, Numbering, NoOrder
<1>4. Active' = Active /\ Used' = Used /\ Working' = Working /\ Wired' = Wired
  BY <1>1 DEF Active, Used, Working, Wired
<1>5. Naming'
  BY <1>0, <1>1, <1>2, <1>3, <1>4 DEF StoreInv, Naming
<1>6. Numbering'
  BY <1>0, <1>1, <1>2 DEF StoreInv, Numbering, Landed
<1>7. HeldBack'
  BY <1>0, <1>1, <1>2, <1>3, <1>4 DEF StoreInv, HeldBack, Wired, Landed
<1>8. /\ Shareholding' /\ RowStatus' /\ Reserving' /\ Exiting' /\ OneAtMost' /\ NoOversell'
  BY <1>0, <1>1, <1>4
  DEF StoreInv, Shareholding, RowStatus, Reserving, Exiting, OneAtMost, NoOversell
<1>9. TickInv'
  <2>1. SweepHolds'
    BY <1>0, <1>1, SweepKept, CalmFrame DEF TickInv, SameReads
  <2>2. Adopting' /\ Continuing' /\ Releasing'
    BY <1>0, <1>1, <1>4
    DEF TickInv, Adopting, Continuing, Releasing, Leaving, At, BeforeWire
  <2>3. NeverNumbered => NeverNumbered'
    BY <1>1, <1>2 DEF NeverNumbered
  <2>4. ReadsHold'
    BY <1>0, <1>1, <1>4, <2>3 DEF TickInv, ReadsHold, At
  <2>5. Submitting'
    <3>1. BeforeWire \/ At("await") \/ At("ambiguous") => tick.sell # s
      BY <1>0, <1>1, <1>3 DEF TickInv, Submitting
    <3>2. (BeforeWire' <=> BeforeWire) /\ tick.sell \in Sells
      BY <1>0, <1>1, TypeParts DEF BeforeWire, Typed, Ticks
    <3> QED
      BY <1>0, <1>1, <1>2, <1>4, <3>1, <3>2 DEF TickInv, Submitting, At, Landed
  <2> QED
    BY <2>1, <2>2, <2>4, <2>5 DEF TickInv
<1> QED
  BY <1>5, <1>6, <1>7, <1>8, <1>9 DEF StoreInv

\* Every step preserves the inductive invariant.
LEMMA NextInv == IInv /\ [Next]_vars => IInv'
<1> SUFFICES ASSUME IInv, [Next]_vars PROVE StoreInv' /\ TickInv'
  BY NextType DEF IInv
<1>0. TypeOK
  BY DEF IInv
<1>1. CASE UNCHANGED vars
  <2>1. UNCHANGED <<row, ledgers, broker>> /\ sell' = sell /\ tick' = tick
    BY <1>1 DEF vars, ledgers, broker
  <2>2. StoreInv'
    BY <2>1, StoreFrame, RowSame DEF IInv
  <2>3. TickInv'
    <3>1. \A s \in Sells : /\ sell[s] = NoSell => sell'[s] = NoSell
                           /\ sell[s].at # "none" => sell'[s].at # "none"
      BY <2>1
    <3>2. Working' = Working /\ UNCHANGED <<row, intent, order, tick, held>>
      BY <2>1 DEF Working, ledgers, broker
    <3> QED
      BY <2>1, <3>1, <3>2, MarketTick, CalmFrame
  <2> QED
    BY <2>2, <2>3
<1>2. CASE TickStep
  <2>1. CASE AdoptRead \/ Adopt
    BY <2>1, AdoptInv
  <2>2. CASE \E read, allowed \in BOOLEAN : Sweep(read, allowed)
    BY <2>2, SweepInv
  <2>3. CASE SyncBuyFills
    BY <2>3, BuyFillsInv
  <2>4. CASE RunExits \/ RetryLatched
    BY <2>4, ExitsInv
  <2>5. CASE SubmitSell
    BY <2>5, ReadsInv, SendInv, RefuseInv, AnswerInv, MarkSubmittedInv,
       MarkExitSubmittedInv, MarkUnansweredInv DEF SubmitSell
  <2>6. CASE \E f \in Reports \cup {Silence} :
               SyncSellFills(f) \/ RecoverDeadExit(f) \/ RetireUnconfirmed(f)
    BY <1>0, <2>6, ReportType, SellFillsInv, RecoverInv, RetireInv
  <2>7. CASE StaleSellTimeout
    BY <2>7, StaleSellInv
  <2>8. CASE RecoverRead \/ RecoverUnread
    BY <2>8, RecoverReadInv
  <2>9. CASE Release
    BY <2>9, ReleaseInv
  <2> QED
    BY <1>2, <2>1, <2>2, <2>3, <2>4, <2>5, <2>6, <2>7, <2>8, <2>9 DEF TickStep
<1>3. CASE Crash
  BY <1>3, CrashInv
<1>4. CASE \E s \in Sells : Market(s) \/ Service(s)
  BY <1>4, MarketInv, ResolveIntentInv, ResolveOrderInv DEF Service
<1> QED
  BY <1>1, <1>2, <1>3, <1>4 DEF Next

-----------------------------------------------------------------------------
(* The theorems. *)

\* What the stores, the broker and the tick say of each other holds in every
\* reachable state.
THEOREM Invariance == Spec => []IInv
<1> QED
  BY InitInv, NextInv, PTL DEF Spec

\* Every variable keeps its type; a row never claims no shares, nor more than
\* were bought (sync_sell_fills, sync_buy_fills, adoption).
THEOREM TypeCorrect == Spec => []TypeOK
<1>1. IInv => TypeOK
  BY DEF IInv
<1> QED
  BY <1>1, Invariance, PTL

LEMMA OneWorking == IInv => OneWorkingSell
<1> SUFFICES ASSUME IInv PROVE Cardinality(Working) <= 1
  BY DEF OneWorkingSell
<1>1. CASE Working = {}
  BY <1>1, FS_EmptySet
<1>2. CASE Working # {}
  <2>1. PICK s \in Working : TRUE
    BY <1>2
  <2>2. Working = {s}
    BY <2>1 DEF IInv, StoreInv, OneAtMost
  <2> QED
    BY <2>2, FS_Singleton
<1> QED
  BY <1>1, <1>2

\* At most one SELL of the symbol is on its way or working, whatever answers
\* were lost, intents released and rows adopted (reserve, evaluate_sell_gate).
THEOREM OneSell == Spec => []OneWorkingSell
<1> QED
  BY OneWorking, Invariance, PTL

\* No SELL asks for more than the broker holds, although the quantity comes
\* from the book and the reads are outdated when it is sent.
THEOREM NeverOversold == Spec => []NoOversell
<1>1. IInv => NoOversell
  BY DEF IInv, StoreInv
<1> QED
  BY <1>1, Invariance, PTL

\* Only release_dead_exit takes a submitted exit back to EXIT_PENDING.
LEMMA ReleasedIsDead ==
  ASSUME IInv, [Next]_vars,
         row.status = "EXIT_SUBMITTED", row'.status = "EXIT_PENDING"
  PROVE  Working = {}
<1>0. TypeOK /\ row \in Rows
  BY TypeParts DEF IInv, Typed
<1>1. CASE row' = row
  BY <1>1
<1>2. CASE Latch
  BY <1>0, <1>2, LatchEffect
<1>3. CASE \E state \in IntentStates : Close(state)
  BY <1>0, <1>3, CloseEffect
<1>4. CASE Release
  BY <1>4 DEF IInv, TickInv, Releasing, Release, At
<1>5. CASE \E q : row' = [row EXCEPT !.quantity = q]
  BY <1>0, <1>5 DEF Rows
<1>6. CASE row'.status \in {"OPEN", "EXIT_SUBMITTED"}
  BY <1>6
<1>7. \/ row' = row \/ Latch \/ Release
      \/ \E state \in IntentStates : Close(state)
      \/ \E q : row' = [row EXCEPT !.quantity = q]
      \/ row'.status \in {"OPEN", "EXIT_SUBMITTED"}
  <2>1. CASE UNCHANGED vars \/ Crash \/ \E s \in Sells : Market(s) \/ Service(s)
    BY <2>1 DEF vars, Crash, Market, Service, Land, Fill, Publish, Lapse, Age,
       ResolveIntent, ResolveOrder
  <2>2. CASE AdoptRead \/ (\E read, allowed \in BOOLEAN : Sweep(read, allowed))
             \/ SyncBuyFills \/ RecoverRead \/ RecoverUnread \/ Release
    BY <2>2 DEF AdoptRead, Sweep, SyncBuyFills, RecoverRead, RecoverUnread
  <2>8. CASE Adopt
    BY <2>8 DEF Adopt
  <2>3. CASE RunExits \/ RetryLatched
    BY <2>3 DEF RunExits, Hold, LatchExit, DecideSell, RetryLatched
  <2>4. CASE SubmitSell /\ ~MarkExitSubmitted
    BY <2>4 DEF SubmitSell, ReadPosition, ReadOrders, Snapshot, Send, Refuse,
       Accepted, Ambiguous, Unrecorded, Answer, MarkSubmitted, MarkUnanswered
  <2>5. CASE MarkExitSubmitted
    BY <1>0, <2>5, RowEffect DEF MarkExitSubmitted, RowStates
  <2>6. CASE \E f \in Reports \cup {Silence} :
               SyncSellFills(f) \/ RecoverDeadExit(f) \/ RetireUnconfirmed(f)
    BY <2>6 DEF SyncSellFills, RecoverDeadExit, RetireUnconfirmed, IntentStates
  <2>7. CASE StaleSellTimeout
    BY <2>7 DEF StaleSellTimeout, SkipStale, AskCancel, Cancel, Confirm
  <2> QED
    BY <2>1, <2>2, <2>3, <2>4, <2>5, <2>6, <2>7, <2>8 DEF Next, TickStep
<1> QED
  BY <1>1, <1>2, <1>3, <1>4, <1>5, <1>6, <1>7

\* A position goes back to EXIT_PENDING, where it is sold again, only when no
\* earlier SELL can still execute (recover_dead_exits, exit_timeout).
THEOREM ReleasedIsSafe == Spec => ReleasedExitIsDead
<1>1. IInv /\ [Next]_vars =>
        [row.status = "EXIT_SUBMITTED" /\ row'.status = "EXIT_PENDING"
           => Working = {}]_vars
  BY ReleasedIsDead
<1> QED
  BY <1>1, Invariance, PTL DEF Spec, ReleasedExitIsDead

=============================================================================
