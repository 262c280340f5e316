---------------------- MODULE PositionLifecycleProofs ----------------------
(***************************************************************************)
(* Proofs about PositionLifecycle, for any ticks, shares, intents and      *)
(* crashes.  A mark written late can make any intent that was reserved     *)
(* active again, so the invariant leans on the confirmed counts, which no  *)
(* mark writes: at most one intent has shares that are not booked, and     *)
(* what the row claims is what the broker holds but for its fills.  For    *)
(* each stage of a tick it says what its intent can be: an intent that is  *)
(* being submitted belongs to one tick, and nothing is confirmed before it *)
(* is filled.                                                              *)
(***************************************************************************)
EXTENDS PositionLifecycle, FiniteSetTheorems, WellFoundedInduction, TLAPS

Submitting ==
  {"check", "send", "await", "accepted", "writeSubmitted", "ambiguous",
   "writeUnknown", "refused"}
Unanswered == {"check", "send", "await", "ambiguous"}
Resolving == {"lookup", "missed", "writeRequired", "apply"}
Bought == States \ ({"SETUP_DETECTED"} \cup FillPending)
Unsold == {"SETUP_DETECTED", "STOP_ACTIVE", "TARGET_1_ACTIVE"} \cup FillPending

Used(i) == intent[i].state # "none"
Unbooked == {i \in Sells : Used(i) /\ intent[i].confirmed < intent[i].qty}

\* What an unused intent looks like, and how far a used one has come.
IntentOK(i) ==
  /\ intent[i].state = "none" =>
       intent[i] = NoIntent /\ sell[i] = NoSell /\ ~number[i]
  /\ intent[i].state # "none" => intent[i].qty > 0
  /\ intent[i].confirmed <= sell[i].published
  /\ sell[i].published <= sell[i].filled
  /\ sell[i].filled <= intent[i].qty
  /\ sell[i].at \in {"none", "wire", "refused", "lost"} => sell[i].filled = 0
  /\ sell[i].at = "open" => sell[i].filled < intent[i].qty
  /\ intent[i].state = "CONFIRMED" => intent[i].confirmed = intent[i].qty
  /\ intent[i].state = "ABORTED" => position.state = "MANUAL_REVIEW"
  /\ i \in Unbooked =>
       position.state \in {Target(intent[i].full), "MANUAL_REVIEW", "CLOSED"}
  /\ Used(i) /\ intent[i].full /\ i \notin Unbooked => position.state = "CLOSED"

OneUnbooked == \A i, j \in Unbooked : i = j
OnePartial ==
  \A i, j \in Sells :
    Used(i) /\ Used(j) /\ ~intent[i].full /\ ~intent[j].full => i = j

\* What the row claims is what the broker holds, but for the fills of an
\* exit that are not booked yet.
Book ==
  /\ position.state \in Unsold => \A i \in Sells : ~Used(i)
  /\ position.state \in {"SETUP_DETECTED"} \cup FillPending =>
       /\ held = buy.filled /\ position.filled <= buy.published
       /\ position.remaining = position.filled
  /\ buy.published <= buy.filled
  /\ position.state \in Bought => buy.filled = Shares
  /\ position.state \in Bought /\ Unbooked = {} => held = position.remaining
  /\ \A i \in Unbooked :
       /\ held + sell[i].filled = position.remaining + intent[i].confirmed
       /\ intent[i].qty <= position.remaining + intent[i].confirmed
       /\ intent[i].full => intent[i].qty = position.remaining + intent[i].confirmed

TickOK(t) ==
  LET i == tick[t].intent
  IN  /\ tick[t].pc \in Submitting \cup Resolving => intent[i].state # "none"
      /\ tick[t].pc \in Unanswered => i \in Active /\ ~number[i]
      /\ tick[t].pc \in {"check", "send"} => sell[i].at = "none"
      /\ tick[t].pc = "apply" =>
           tick[t].found <= sell[i].published /\ (tick[t].found > 0 => number[i])
      /\ tick[t].pc = "record" => tick[t].found <= buy.published

OneSubmits ==
  \A t, u \in Ticks :
    tick[t].pc \in Submitting /\ tick[u].pc \in Submitting
      /\ tick[t].intent = tick[u].intent => t = u

Orders == (\A i \in Sells : IntentOK(i)) /\ OneUnbooked /\ OnePartial
StoreInv == Orders /\ Book
TicksInv == OneSubmits /\ \A t \in Ticks : TickOK(t)
IInv == TypeOK /\ StoreInv /\ TicksInv

-----------------------------------------------------------------------------
TickType ==
  [pc : Stages, holding : 0 .. Shares, full : BOOLEAN, resumed : BOOLEAN,
   intent : Sells, found : 0 .. Shares, booked : 0 .. Shares]

\* Only tick t moves, and what it submits it submitted before, or it is new.
OnlyTick(t) ==
  /\ tick' \in [Ticks -> TickType]
  /\ \A u \in Ticks \ {t} : tick'[u] = tick[u]
  /\ tick'[t].pc \in Submitting =>
       \/ tick[t].pc \in Submitting /\ tick'[t].intent = tick[t].intent
       \/ intent[tick'[t].intent].state = "none"

\* What the other ticks rely on in a step of t.
KeepsOthers(t) ==
  /\ buy.published <= buy'.published
  /\ \A i \in Sells :
       /\ intent[i].state # "none" => intent'[i].state # "none"
       /\ sell[i].published <= sell'[i].published
       /\ number[i] => number'[i]
       /\ \A u \in Ticks \ {t} :
            /\ tick[u].pc \in Unanswered /\ tick[u].intent = i
            /\ i \in Active /\ ~number[i]
            => i \in Active' /\ ~number'[i] /\ (sell[i].at = "none" => sell'[i].at = "none")

\* Then the invariant of the other ticks holds on.
LEMMA OthersHold ==
  ASSUME TypeOK, TicksInv, TypeOK', NEW t \in Ticks,
         OnlyTick(t), KeepsOthers(t), TickOK(t)'
  PROVE  TicksInv'
<1> DEFINE Owns(u) == tick[u].pc \in Submitting
<1>1. \A u \in Ticks : tick[u] \in TickType /\ tick'[u] \in TickType
  BY DEF TypeOK, TickType
<1>2. OneSubmits'
  <2> SUFFICES ASSUME NEW u \in Ticks, NEW v \in Ticks, u # v,
                      tick'[u].pc \in Submitting, tick'[v].pc \in Submitting,
                      tick'[u].intent = tick'[v].intent
               PROVE  FALSE
    BY DEF OneSubmits
  <2>1. CASE u # t /\ v # t
    BY <2>1 DEF OnlyTick, TicksInv, OneSubmits
  <2>2. ASSUME NEW w \in Ticks \ {t}, tick'[w].pc \in Submitting,
               tick'[t].pc \in Submitting, tick'[w].intent = tick'[t].intent
        PROVE  FALSE
    <3>1. tick[w].pc \in Submitting /\ tick[w].intent = tick'[t].intent
      BY <2>2 DEF OnlyTick
    <3>2. intent[tick[w].intent].state # "none"
      BY <3>1 DEF TicksInv, TickOK
    <3>3. tick[t].pc \in Submitting /\ tick'[t].intent = tick[t].intent
      BY <2>2, <3>1, <3>2 DEF OnlyTick
    <3> QED
      BY <3>1, <3>3 DEF TicksInv, OneSubmits
  <2> QED
    BY <2>1, <2>2
<1>3. ASSUME NEW u \in Ticks \ {t}
      PROVE  TickOK(u)'
  <2>1. TickOK(u) /\ tick'[u] = tick[u] /\ tick[u].intent \in Sells
    BY <1>1 DEF TicksInv, OnlyTick, TickType
  <2>2. /\ sell \in [Sells -> [at : Places, filled : 0 .. Shares, published : 0 .. Shares, today : BOOLEAN]]
        /\ sell' \in [Sells -> [at : Places, filled : 0 .. Shares, published : 0 .. Shares, today : BOOLEAN]]
        /\ buy.published \in 0 .. Shares /\ buy'.published \in 0 .. Shares
        /\ tick[u].found \in 0 .. Shares
    BY <1>1, <2>1 DEF TypeOK, TickType
  <2> QED
    BY <2>1, <2>2, PositionAssumption DEF TickOK, KeepsOthers, Submitting, Unanswered, Resolving
<1> QED
  BY <1>2, <1>3 DEF TicksInv

-----------------------------------------------------------------------------
\* The steps of a tick that only read.
Reads(t) ==
  \/ ReadHoldings(t) \/ Load(t) \/ FindFill(t) \/ FindNothing(t)
  \/ FindIntent(t) \/ LookUp(t) \/ LookUpBook(t) \/ LookUpNothing(t)
  \/ Decide(t) \/ Execute(t) \/ ReserveNothing(t)
  \/ CheckBroker(t) \/ Refused(t) \/ Raises(t)
  \/ TestRequired(t) \/ TestSubmitted(t) \/ TestUnknown(t)

LEMMA TickBecomes ==
  ASSUME TypeOK, NEW t \in Ticks, NEW r \in TickType, Becomes(t, r)
  PROVE  /\ tick' \in [Ticks -> TickType]
         /\ tick'[t] = r /\ \A u \in Ticks \ {t} : tick'[u] = tick[u]
BY DEF TypeOK, TickType, Becomes

\* The records a tick becomes, and that they are of its type.
LEMMA TickTypes ==
  ASSUME TypeOK, NEW t \in Ticks
  PROVE  /\ tick[t] \in TickType /\ Idle \in TickType
         /\ [Idle EXCEPT !.pc = "manage"] \in TickType
         /\ \A s \in Stages : [tick[t] EXCEPT !.pc = s] \in TickType
         /\ \A s \in Stages, n \in 0 .. Shares :
              /\ [tick[t] EXCEPT !.pc = s, !.holding = n] \in TickType
              /\ [tick[t] EXCEPT !.pc = s, !.found = n] \in TickType
         /\ \A s \in Stages, b \in BOOLEAN :
              /\ [tick[t] EXCEPT !.pc = s, !.full = b] \in TickType
              /\ [tick[t] EXCEPT !.pc = s, !.resumed = b] \in TickType
         /\ \A s \in Stages, i \in Sells : [tick[t] EXCEPT !.pc = s, !.intent = i] \in TickType
<1> USE PositionAssumption DEF Sells
<1>1. tick[t] \in TickType /\ Idle \in TickType
  BY DEF TypeOK, TickType, Stages, Idle
<1>2. [Idle EXCEPT !.pc = "manage"] \in TickType
  BY <1>1 DEF TickType, Stages
<1> HIDE DEF Sells
<1>3. \A s \in Stages : [tick[t] EXCEPT !.pc = s] \in TickType
  BY <1>1 DEF TickType
<1>4. \A s \in Stages, n \in 0 .. Shares :
        /\ [tick[t] EXCEPT !.pc = s, !.holding = n] \in TickType
        /\ [tick[t] EXCEPT !.pc = s, !.found = n] \in TickType
  BY <1>1 DEF TickType
<1>5. \A s \in Stages, b \in BOOLEAN :
        /\ [tick[t] EXCEPT !.pc = s, !.full = b] \in TickType
        /\ [tick[t] EXCEPT !.pc = s, !.resumed = b] \in TickType
  BY <1>1 DEF TickType
<1>6. \A s \in Stages, i \in Sells : [tick[t] EXCEPT !.pc = s, !.intent = i] \in TickType
  BY <1>1 DEF TickType
<1> QED
  BY <1>1, <1>2, <1>3, <1>4, <1>5, <1>6

LEMMA ReadsOwn ==
  ASSUME TypeOK, StoreInv, NEW t \in Ticks, TickOK(t), Reads(t)
  PROVE  OnlyTick(t) /\ TickOK(t)' /\ UNCHANGED <<stores, broker, crashes>>
<1> DEFINE Sound(r) ==
      /\ r.pc \in Submitting =>
           tick[t].pc \in Submitting /\ r.intent = tick[t].intent
      /\ r.pc \in Submitting \cup Resolving => intent[r.intent].state # "none"
      /\ r.pc \in Unanswered => r.intent \in Active /\ ~number[r.intent]
      /\ r.pc \in {"check", "send"} => sell[r.intent].at = "none"
      /\ r.pc = "apply" =>
           r.found <= sell[r.intent].published /\ (r.found > 0 => number[r.intent])
      /\ r.pc = "record" => r.found <= buy.published
<1> USE PositionAssumption
<1>0. tick[t] \in TickType
  BY TickTypes
<1>a. UNCHANGED <<stores, broker, crashes>>
  BY DEF Reads, ReadHoldings, Load, FindFill, FindNothing, FindIntent, LookUp, LookUpBook, LookUpNothing, Decide, Execute, ReserveNothing, CheckBroker, Refused, Raises, TestRequired, TestSubmitted, TestUnknown, Test
<1>b. ASSUME NEW r \in TickType, Becomes(t, r), Sound(r)
      PROVE  OnlyTick(t) /\ TickOK(t)'
  <2>1. /\ tick' \in [Ticks -> TickType]
        /\ tick'[t] = r /\ \A u \in Ticks \ {t} : tick'[u] = tick[u]
    BY <1>b, TickBecomes
  <2>2. /\ Active' = Active /\ intent' = intent /\ number' = number
        /\ sell' = sell /\ buy' = buy
    BY <1>a DEF Active, stores, broker
  <2> QED
    BY <1>b, <2>1, <2>2 DEF OnlyTick, TickOK
<1>c. Sound(Idle) /\ Sound([Idle EXCEPT !.pc = "manage"])
  BY DEF Idle, Submitting, Resolving, Unanswered
<1>d. \A s \in {"load", "find", "fill", "execute", "resume", "reserve", "trail"} :
        Sound([tick[t] EXCEPT !.pc = s])
  BY <1>0 DEF Submitting, Resolving, Unanswered, TickType
<1>e. {"load", "find", "fill", "record", "lookup", "apply", "missed", "execute",
       "resume", "reserve", "trail", "send", "refused", "ambiguous",
       "writeRequired", "writeSubmitted", "writeUnknown"} \subseteq Stages
  BY DEF Stages
<1>1. CASE ReadHoldings(t)
  <2>1. held \in 0 .. Shares
    BY DEF TypeOK
  <2>2. Sound([tick[t] EXCEPT !.pc = "load", !.holding = held])
    BY <1>0 DEF Submitting, Resolving, Unanswered, TickType
  <2> QED
    BY <1>a, <1>b, <1>e, <1>1, <2>1, <2>2, TickTypes DEF ReadHoldings
<1>2. CASE Load(t)
  <2>1. Goto(t, "find") \/ Goto(t, "fill") \/ GoesOn(t, position)
    BY <1>2 DEF Load
  <2> QED
    BY <1>a, <1>b, <1>c, <1>d, <1>e, <2>1, TickTypes DEF Goto, GoesOn, Ends
<1>3. CASE FindFill(t) \/ FindNothing(t)
  <2>1. buy.published \in 0 .. Shares
    BY DEF TypeOK
  <2>2. Sound([tick[t] EXCEPT !.pc = "record", !.found = buy.published])
    BY <2>1, <1>0 DEF Submitting, Resolving, Unanswered, TickType
  <2> QED
    BY <1>a, <1>b, <1>c, <1>e, <1>3, <2>1, <2>2, TickTypes DEF FindFill, FindNothing, Ends
<1>4. CASE FindIntent(t)
  <2>1. CASE Ends(t)
    BY <1>a, <1>b, <1>c, <2>1, TickTypes DEF Ends
  <2>2. ASSUME NEW i \in Active,
               Becomes(t, [tick[t] EXCEPT !.pc = "lookup", !.intent = i,
                 !.full = IF tick[t].resumed THEN @ ELSE intent[i].full,
                 !.booked = intent[i].confirmed])
        PROVE  OnlyTick(t) /\ TickOK(t)'
    <3> DEFINE r == [tick[t] EXCEPT !.pc = "lookup", !.intent = i,
                       !.full = IF tick[t].resumed THEN @ ELSE intent[i].full,
                       !.booked = intent[i].confirmed]
    <3>1. /\ i \in Sells /\ intent[i].full \in BOOLEAN
          /\ intent[i].confirmed \in 0 .. Shares /\ intent[i].state # "none"
      BY <2>2 DEF TypeOK, Active
    <3>2. r \in TickType
      BY <1>0, <1>e, <3>1 DEF TickType
    <3>3. Sound(r)
      BY <3>1, <1>0 DEF Submitting, Resolving, Unanswered, TickType
    <3> HIDE DEF r, Sound
    <3> QED
      BY <1>b, <2>2, <3>2, <3>3 DEF r
  <2> QED
    BY <1>a, <1>4, <2>1, <2>2 DEF FindIntent
<1>5. CASE LookUp(t) \/ LookUpBook(t)
  <2>1. /\ tick[t].pc = "lookup" /\ number[tick[t].intent]
        /\ intent[tick[t].intent].state # "none" /\ tick[t].intent \in Sells
    BY <1>5, TickTypes DEF LookUp, LookUpBook, At, Sought, TickOK, Resolving, TickType
  <2>2. sell[tick[t].intent].published \in 0 .. Shares /\ 0 \in 0 .. Shares
        /\ 0 <= sell[tick[t].intent].published
    BY <2>1 DEF TypeOK
  <2>3. ASSUME NEW n \in 0 .. Shares, n <= sell[tick[t].intent].published
        PROVE  Sound([tick[t] EXCEPT !.pc = "apply", !.found = n])
    BY <2>1, <2>3, <1>0 DEF Submitting, Resolving, Unanswered, TickType
  <2>4. PICK n \in 0 .. Shares :
          /\ n <= sell[tick[t].intent].published
          /\ Becomes(t, [tick[t] EXCEPT !.pc = "apply", !.found = n])
    <3>1. CASE LookUp(t)
      <4>1. sell[tick[t].intent].published <= sell[tick[t].intent].published
        BY <2>2
      <4>2. Becomes(t, [tick[t] EXCEPT !.pc = "apply",
                                       !.found = sell[tick[t].intent].published])
        BY <3>1 DEF LookUp, Sought
      <4> QED  BY <2>2, <4>1, <4>2
    <3>2. CASE LookUpBook(t)
      <4> WITNESS 0 \in 0 .. Shares
      <4> QED  BY <2>2, <3>2 DEF LookUpBook
    <3> QED  BY <1>5, <3>1, <3>2
  <2> QED
    BY <1>a, <1>b, <1>e, <2>3, <2>4, TickTypes
<1>6. CASE LookUpNothing(t)
  <2>1. tick[t].pc = "lookup" /\ intent[tick[t].intent].state # "none"
    BY <1>6 DEF LookUpNothing, At, TickOK, Resolving
  <2>2. Sound([tick[t] EXCEPT !.pc = "missed"])
    BY <2>1, <1>0 DEF Submitting, Resolving, Unanswered, TickType
  <2> QED
    BY <1>a, <1>b, <1>e, <1>6, <2>2, TickTypes DEF LookUpNothing, Goto
<1>7. CASE Decide(t)
  <2>1. ASSUME NEW full \in BOOLEAN
        PROVE  Sound([tick[t] EXCEPT !.pc = "execute", !.full = full])
    BY <1>0 DEF Submitting, Resolving, Unanswered, TickType
  <2> QED
    BY <1>a, <1>b, <1>c, <1>d, <1>e, <1>7, <2>1, TickTypes DEF Decide, Ends, Goto
<1>8. CASE Execute(t) \/ ReserveNothing(t)
  BY <1>a, <1>b, <1>c, <1>d, <1>e, <1>8, TickTypes DEF Execute, ReserveNothing, Ends, Goto
<1>9. CASE CheckBroker(t) \/ Refused(t) \/ Raises(t)
  <2>1. /\ tick[t].pc \in {"check", "send", "await"}
        /\ intent[tick[t].intent].state # "none"
        /\ tick[t].intent \in Active /\ ~number[tick[t].intent]
        /\ CheckBroker(t) => sell[tick[t].intent].at = "none"
    BY <1>9 DEF CheckBroker, Refused, Raises, At, TickOK, Submitting, Unanswered
  <2>2. /\ Sound([tick[t] EXCEPT !.pc = "refused"])
        /\ Sound([tick[t] EXCEPT !.pc = "ambiguous"])
        /\ CheckBroker(t) => Sound([tick[t] EXCEPT !.pc = "send"])
    BY <2>1, <1>0 DEF Submitting, Resolving, Unanswered, TickType
  <2> QED
    BY <1>a, <1>b, <1>e, <1>9, <2>2, TickTypes DEF CheckBroker, Refused, Raises, Goto
<1>10. ASSUME NEW pc \in {"missed", "accepted", "ambiguous"},
              NEW next \in {"writeRequired", "writeSubmitted", "writeUnknown"},
              next = "writeRequired" <=> pc = "missed", Test(t, pc, next)
       PROVE  OnlyTick(t) /\ TickOK(t)'
  <2>1. tick[t].pc = pc /\ intent[tick[t].intent].state # "none"
    BY <1>10 DEF Test, At, TickOK, Submitting, Resolving
  <2>2. Sound([tick[t] EXCEPT !.pc = next])
    BY <1>10, <2>1, <1>0 DEF Submitting, Resolving, Unanswered, TickType
  <2> QED
    BY <1>a, <1>b, <1>c, <1>e, <1>10, <2>2, TickTypes DEF Test, Goto, Ends
<1>11. CASE TestRequired(t) \/ TestSubmitted(t) \/ TestUnknown(t)
  <2> HIDE DEF Sound
  <2>1. \/ Test(t, "missed", "writeRequired") \/ Test(t, "accepted", "writeSubmitted")
        \/ Test(t, "ambiguous", "writeUnknown")
    BY <1>11 DEF TestRequired, TestSubmitted, TestUnknown
  <2> DEFINE Done == OnlyTick(t) /\ TickOK(t)'
  <2>2. Test(t, "missed", "writeRequired") => Done
    BY <1>10
  <2>3. Test(t, "accepted", "writeSubmitted") => Done
    BY <1>10
  <2>4. Test(t, "ambiguous", "writeUnknown") => Done
    BY <1>10
  <2> QED
    BY <1>a, <2>1, <2>2, <2>3, <2>4
<1> QED
  BY <1>a, <1>1, <1>2, <1>3, <1>4, <1>5, <1>6, <1>7, <1>8, <1>9, <1>11 DEF Reads

-----------------------------------------------------------------------------
PositionType ==
  [state : States, filled : 0 .. Shares, remaining : 0 .. Shares, stop : BOOLEAN]
IntentType ==
  [state : IntentStates, qty : 0 .. Shares, confirmed : 0 .. Shares, full : BOOLEAN]
SellType ==
  [at : Places, filled : 0 .. Shares, published : 0 .. Shares, today : BOOLEAN]
StoreTypes ==
  /\ position \in PositionType /\ intent \in [Sells -> IntentType]
  /\ number \in [Sells -> BOOLEAN] /\ sell \in [Sells -> SellType]
  /\ buy \in [filled : 0 .. Shares, published : 0 .. Shares]
  /\ held \in 0 .. Shares

LEMMA Types ==
  TypeOK <=>
    StoreTypes /\ tick \in [Ticks -> TickType] /\ crashes \in 0 .. MaxCrashes
BY DEF TypeOK, StoreTypes, PositionType, IntentType, SellType, TickType

\* A step of tick t.
LEMMA TickStepKeeps ==
  ASSUME IInv, NEW t \in Ticks, StoreTypes', StoreInv', crashes' \in 0 .. MaxCrashes,
         OnlyTick(t), KeepsOthers(t), TickOK(t)'
  PROVE  IInv'
<1>1. TypeOK'
  BY Types DEF OnlyTick, StoreTypes, PositionType, IntentType, SellType, TickType, TypeOK
<1>2. TicksInv'
  BY <1>1, OthersHold DEF IInv
<1> QED
  BY <1>1, <1>2 DEF IInv

\* A tick that ends or goes on to manage relies on nothing.
LEMMA Rests ==
  ASSUME TypeOK, NEW t \in Ticks, NEW r \in TickType, Becomes(t, r),
         r.pc \notin Submitting \cup Resolving \cup {"record"}
  PROVE  OnlyTick(t) /\ TickOK(t)'
<1>1. /\ tick' \in [Ticks -> TickType]
      /\ tick'[t] = r /\ \A u \in Ticks \ {t} : tick'[u] = tick[u]
  BY TickBecomes
<1> QED
  BY <1>1 DEF OnlyTick, TickOK, Submitting, Unanswered, Resolving

LEMMA Returning ==
  ASSUME TypeOK, NEW t \in Ticks, NEW p, Ends(t) \/ GoesOn(t, p) \/ Returns(t, p)
  PROVE  OnlyTick(t) /\ TickOK(t)'
<1>1. Becomes(t, Idle) \/ Becomes(t, [Idle EXCEPT !.pc = "manage"])
  BY DEF Ends, GoesOn, Returns
<1>2. /\ Idle \in TickType /\ [Idle EXCEPT !.pc = "manage"] \in TickType
      /\ Idle.pc = "idle" /\ [Idle EXCEPT !.pc = "manage"].pc = "manage"
  BY TickTypes DEF Idle
<1>3. {"idle", "manage"} \cap (Submitting \cup Resolving \cup {"record"}) = {}
  BY DEF Submitting, Resolving
<1> QED
  BY <1>1, <1>2, <1>3, Rests

\* What leaves the stores and the broker alone.
LEMMA StoresStay ==
  ASSUME IInv, UNCHANGED <<stores, broker>>, NEW t \in Ticks
  PROVE  StoreTypes' /\ StoreInv' /\ KeepsOthers(t)
<1>1. StoreTypes
  BY Types DEF IInv
<1>2. Active' = Active /\ position' = position /\ intent' = intent /\ number' = number
      /\ sell' = sell /\ buy' = buy /\ held' = held
  BY DEF Active, stores, broker
<1>3. StoreTypes'
  BY <1>1, <1>2 DEF StoreTypes
<1>4. StoreInv'
  BY <1>2 DEF IInv, StoreInv, Orders, IntentOK, OneUnbooked, OnePartial, Book, Unbooked, Used, Target
<1>5. /\ \A i \in Sells : sell[i].published \in 0 .. Shares
      /\ buy.published \in 0 .. Shares
  BY <1>1 DEF StoreTypes, SellType
<1>6. KeepsOthers(t)
  BY <1>2, <1>5, PositionAssumption DEF KeepsOthers
<1> QED
  BY <1>3, <1>4, <1>6

LEMMA ReadsKeep ==
  ASSUME IInv, NEW t \in Ticks, Reads(t)
  PROVE  IInv'
<1>1. OnlyTick(t) /\ TickOK(t)' /\ UNCHANGED <<stores, broker, crashes>>
  BY ReadsOwn DEF IInv, TicksInv
<1>2. crashes' \in 0 .. MaxCrashes
  BY <1>1, Types DEF IInv
<1> QED
  BY <1>1, <1>2, StoresStay, TickStepKeeps

LEMMA CrashKeeps ==
  ASSUME IInv, NEW t \in Ticks, Crash(t)
  PROVE  IInv'
<1>1. crashes' \in 0 .. MaxCrashes
  BY Types, PositionAssumption DEF IInv, Crash
<1>2. OnlyTick(t) /\ TickOK(t)'
  BY Returning DEF IInv, Crash
<1> QED
  BY <1>1, <1>2, StoresStay, TickStepKeeps DEF Crash

-----------------------------------------------------------------------------
(* The broker's steps and the buyer's. *)

\* What they share: the ticks, the intents and the numbers stay.
LEMMA MarketKeeps ==
  ASSUME IInv, StoreTypes', StoreInv', UNCHANGED <<tick, intent, number, crashes>>,
         buy.published <= buy'.published,
         \A i \in Sells :
           /\ sell[i].published <= sell'[i].published
           /\ intent[i].state # "none" /\ sell[i].at = "none" => sell'[i].at = "none"
  PROVE  IInv'
<1>1. TypeOK'
  BY Types DEF IInv, TypeOK, StoreTypes, PositionType, IntentType, SellType
<1>2. Active' = Active
  BY DEF Active
<1>3. OneSubmits'
  BY DEF IInv, TicksInv, OneSubmits
<1>4. ASSUME NEW u \in Ticks
      PROVE  TickOK(u)'
  <2>1. TickOK(u) /\ tick[u].intent \in Sells /\ tick[u].found \in 0 .. Shares
    BY DEF IInv, TicksInv, TypeOK
  <2>2. /\ sell[tick[u].intent].published \in 0 .. Shares
        /\ sell'[tick[u].intent].published \in 0 .. Shares
        /\ buy.published \in 0 .. Shares /\ buy'.published \in 0 .. Shares
    BY <2>1, Types DEF IInv, StoreTypes, SellType
  <2>3. /\ sell[tick[u].intent].published <= sell'[tick[u].intent].published
        /\ intent[tick[u].intent].state # "none" /\ sell[tick[u].intent].at = "none"
             => sell'[tick[u].intent].at = "none"
    BY <2>1
  <2> HIDE DEF TickOK
  <2>4. tick'[u] = tick[u] /\ intent' = intent /\ number' = number
    OBVIOUS
  <2> QED
    BY <1>2, <2>1, <2>2, <2>3, <2>4, PositionAssumption
    DEF TickOK, Submitting, Resolving, Unanswered
<1> QED
  BY <1>1, <1>3, <1>4 DEF IInv, TicksInv

LEMMA BuyFillsKeeps ==
  ASSUME IInv, BuyFills PROVE IInv'
<1> USE PositionAssumption
<1>1. StoreTypes /\ StoreInv
  BY Types DEF IInv
<1>2. /\ buy.filled \in 0 .. Shares /\ buy.published \in 0 .. Shares /\ held \in 0 .. Shares
      /\ buy.filled < Shares /\ buy'.filled = buy.filled + 1
      /\ buy'.published = buy.published /\ held' = held + 1
      /\ buy' \in [filled : 0 .. Shares, published : 0 .. Shares]
      /\ UNCHANGED <<position, intent, number, sell, tick, crashes>>
  BY <1>1 DEF BuyFills, StoreTypes, stores
<1>3. /\ position.state \in {"SETUP_DETECTED"} \cup FillPending
      /\ held = buy.filled /\ \A i \in Sells : intent[i].state = "none"
  BY <1>1, <1>2 DEF StoreInv, Book, Bought, Unsold, Used, StoreTypes, PositionType
<1>4. StoreTypes'
  BY <1>1, <1>2, <1>3 DEF StoreTypes
<1>5. Unbooked = {} /\ Unbooked' = {}
  BY <1>2, <1>3 DEF Unbooked, Used
<1>6. position.state \notin Bought
  BY <1>3 DEF Bought, FillPending
<1>7. Book'
  BY <1>1, <1>2, <1>3, <1>5, <1>6 DEF StoreInv, Book, Bought, Used
<1>8. Orders'
  BY <1>1, <1>2, <1>3, <1>5 DEF StoreInv, Orders, IntentOK, OneUnbooked, OnePartial, Used
<1>9. \A i \in Sells : sell[i].published \in 0 .. Shares
  BY <1>1 DEF StoreTypes, SellType
<1> QED
  BY <1>2, <1>4, <1>7, <1>8, <1>9, MarketKeeps DEF StoreInv

LEMMA BuyIsPublishedKeeps ==
  ASSUME IInv, BuyIsPublished PROVE IInv'
<1> USE PositionAssumption
<1>1. StoreTypes /\ StoreInv
  BY Types DEF IInv
<1>2. /\ buy.filled \in 0 .. Shares /\ buy.published \in 0 .. Shares
      /\ buy.published < buy.filled /\ buy'.filled = buy.filled
      /\ buy'.published = buy.published + 1
      /\ buy' \in [filled : 0 .. Shares, published : 0 .. Shares]
      /\ UNCHANGED <<position, intent, number, sell, held, tick, crashes>>
  BY <1>1 DEF BuyIsPublished, StoreTypes, stores
<1>3. StoreTypes' /\ position.filled \in 0 .. Shares
  BY <1>1, <1>2 DEF StoreTypes, PositionType
<1>4. Unbooked' = Unbooked /\ \A i \in Sells : Used(i)' <=> Used(i)
  BY <1>2 DEF Unbooked, Used
<1>5. Book'
  BY <1>1, <1>2, <1>3, <1>4 DEF StoreInv, Book
<1>6. Orders'
  BY <1>1, <1>2, <1>4 DEF StoreInv, Orders, IntentOK, OneUnbooked, OnePartial, Target
<1>7. \A i \in Sells : sell[i].published \in 0 .. Shares
  BY <1>1 DEF StoreTypes, SellType
<1> QED
  BY <1>2, <1>3, <1>5, <1>6, <1>7, MarketKeeps DEF StoreInv

LEMMA EntrySubmittedKeeps ==
  ASSUME IInv, EntrySubmitted PROVE IInv'
<1> USE PositionAssumption
<1>1. StoreTypes /\ StoreInv
  BY Types DEF IInv
<1>2. /\ position.state = "SETUP_DETECTED" /\ position'.state = "ENTRY_SUBMITTED"
      /\ position'.filled = position.filled /\ position'.remaining = position.remaining
      /\ position' \in PositionType
      /\ UNCHANGED <<intent, number, sell, buy, held, tick, crashes>>
  BY <1>1 DEF EntrySubmitted, SetState, broker, StoreTypes, PositionType, States, FillPending
<1>3. StoreTypes'
  BY <1>1, <1>2 DEF StoreTypes
<1>4. Unbooked = {} /\ Unbooked' = {} /\ \A i \in Sells : ~Used(i) /\ ~Used(i)'
  BY <1>1, <1>2 DEF Unbooked, Used, StoreInv, Book, Unsold
<1>5. Book'
  BY <1>1, <1>2, <1>4 DEF StoreInv, Book, Bought, FillPending
<1>6. Orders'
  BY <1>1, <1>2, <1>4 DEF StoreInv, Orders, IntentOK, OneUnbooked, OnePartial, Used
<1>7. /\ \A i \in Sells : sell[i].published \in 0 .. Shares
      /\ buy.published \in 0 .. Shares
  BY <1>1 DEF StoreTypes, SellType
<1> QED
  BY <1>2, <1>3, <1>5, <1>6, <1>7, MarketKeeps DEF StoreInv

\* A step of one SELL at the broker that keeps what its intent relies on.
GoesForward(i) ==
  /\ sell[i].published <= sell'[i].published
  /\ sell[i].at = "none" => sell'[i].at = "none"

LEMMA SellKeeps ==
  ASSUME IInv, NEW i \in Sells, StoreTypes', Book', IntentOK(i)',
         \A j \in Sells \ {i} : sell'[j] = sell[j],
         UNCHANGED <<stores, buy, tick, crashes>>, GoesForward(i)
  PROVE  IInv'
<1>1. Active' = Active /\ position' = position /\ intent' = intent /\ number' = number
  BY DEF Active, stores
<1>2. \A j \in Sells : IntentOK(j)'
  BY <1>1 DEF IInv, StoreInv, Orders, IntentOK, Unbooked, Used, Target
<1>3. Orders'
  BY <1>1, <1>2 DEF IInv, StoreInv, Orders, OneUnbooked, OnePartial, Unbooked, Used
<1>4. /\ \A j \in Sells : sell[j].published \in 0 .. Shares
      /\ buy.published \in 0 .. Shares
  BY Types DEF IInv, StoreTypes, SellType
<1>5. \A j \in Sells :
        /\ sell[j].published <= sell'[j].published
        /\ intent[j].state # "none" /\ sell[j].at = "none" => sell'[j].at = "none"
  BY <1>4, PositionAssumption DEF GoesForward
<1>6. buy.published <= buy'.published
  BY <1>4, PositionAssumption
<1> QED
  BY <1>1, <1>2, <1>3, <1>5, <1>6, MarketKeeps DEF StoreInv

LEMMA LandKeeps ==
  ASSUME IInv, NEW i \in Sells, Land(i) PROVE IInv'
<1> USE PositionAssumption
<1>1. StoreTypes /\ StoreInv /\ IntentOK(i)
  BY Types DEF IInv, StoreInv, Orders
<1>2. PICK at \in {"open", "refused", "lost"} : sell' = [sell EXCEPT ![i].at = at]
  BY DEF Land
<1>3. /\ sell[i].at = "wire" /\ sell[i] \in SellType
      /\ UNCHANGED <<position, intent, number, buy, held, tick, crashes>>
  BY <1>1 DEF Land, stores, StoreTypes
<1>4. /\ sell'[i] = [sell[i] EXCEPT !.at = at] /\ sell'[i] \in SellType
      /\ \A j \in Sells \ {i} : sell'[j] = sell[j]
      /\ sell' \in [Sells -> SellType]
  BY <1>1, <1>2, <1>3 DEF StoreTypes, SellType, Places
<1>5. StoreTypes'
  BY <1>1, <1>3, <1>4 DEF StoreTypes
<1>6. /\ sell'[i].at = at /\ sell'[i].filled = sell[i].filled
      /\ sell'[i].published = sell[i].published
  BY <1>3, <1>4 DEF SellType
<1>7. Unbooked' = Unbooked /\ \A j \in Sells : Used(j)' <=> Used(j)
  BY <1>3 DEF Unbooked, Used
<1>8. /\ intent[i].state # "none" /\ intent[i].qty > 0 /\ sell[i].filled = 0
      /\ sell[i].filled < intent[i].qty
  BY <1>1, <1>3 DEF IntentOK, NoSell
<1>9. IntentOK(i)'
  BY <1>1, <1>2, <1>3, <1>6, <1>7, <1>8 DEF IntentOK, Target, Used
<1>10. \A j \in Sells : sell'[j].filled = sell[j].filled
  BY <1>4, <1>6
<1>11. Book'
  BY <1>1, <1>3, <1>7, <1>10 DEF StoreInv, Book, Unbooked
<1> QED
  BY <1>3, <1>4, <1>5, <1>6, <1>9, <1>11, SellKeeps DEF SellType, stores, GoesForward

LEMMA PublishKeeps ==
  ASSUME IInv, NEW i \in Sells, Publish(i) PROVE IInv'
<1> USE PositionAssumption
<1>1. StoreTypes /\ StoreInv /\ IntentOK(i) /\ sell[i] \in SellType
  BY Types DEF IInv, StoreInv, Orders, StoreTypes
<1>2. /\ sell[i].published < sell[i].filled
      /\ sell[i].published \in 0 .. Shares /\ sell[i].filled \in 0 .. Shares
      /\ sell[i].published + 1 \in 0 .. Shares
      /\ intent[i].confirmed <= sell[i].published /\ intent[i].confirmed \in 0 .. Shares
      /\ UNCHANGED <<position, intent, number, buy, held, tick, crashes>>
  BY <1>1 DEF Publish, stores, SellType, StoreTypes, IntentType, IntentOK
<1>3. /\ sell'[i] = [sell[i] EXCEPT !.published = sell[i].published + 1]
      /\ \A j \in Sells \ {i} : sell'[j] = sell[j]
      /\ sell' \in [Sells -> SellType]
  BY <1>1, <1>2 DEF Publish, StoreTypes, SellType
<1>4. StoreTypes'
  BY <1>1, <1>2, <1>3 DEF StoreTypes
<1>5. /\ sell'[i].at = sell[i].at /\ sell'[i].filled = sell[i].filled
      /\ sell'[i].published = sell[i].published + 1
  BY <1>1, <1>3 DEF SellType
<1>6. Unbooked' = Unbooked /\ \A j \in Sells : Used(j)' <=> Used(j)
  BY <1>2 DEF Unbooked, Used
<1>7. intent[i].state # "none"
  BY <1>1, <1>2 DEF IntentOK, NoSell
<1>8. IntentOK(i)'
  BY <1>1, <1>2, <1>5, <1>6, <1>7 DEF IntentOK, Target, Used
<1>9. \A j \in Sells : sell'[j].filled = sell[j].filled
  BY <1>3, <1>5
<1>10. Book'
  BY <1>1, <1>2, <1>6, <1>9 DEF StoreInv, Book, Unbooked
<1>11. GoesForward(i)
  BY <1>2, <1>5 DEF GoesForward
<1>12. UNCHANGED <<stores, buy, tick, crashes>>
  BY <1>2 DEF stores
<1>13. \A j \in Sells \ {i} : sell'[j] = sell[j]
  BY <1>3
<1> QED
  BY <1>4, <1>8, <1>10, <1>11, <1>12, <1>13, SellKeeps

LEMMA EndOfDayKeeps ==
  ASSUME IInv, NEW i \in Sells, EndOfDay(i) PROVE IInv'
<1> USE PositionAssumption
<1>1. StoreTypes /\ StoreInv /\ IntentOK(i) /\ sell[i] \in SellType
  BY Types DEF IInv, StoreInv, Orders, StoreTypes
<1>2. /\ sell[i].at \in {"open", "gone"}
      /\ UNCHANGED <<position, intent, number, buy, held, tick, crashes>>
  BY DEF EndOfDay, Landed, stores
<1>3. sell' = [sell EXCEPT ![i] = [sell[i] EXCEPT !.at = "gone", !.today = FALSE]]
  BY <1>1 DEF EndOfDay, StoreTypes
<1>4. /\ sell'[i] = [sell[i] EXCEPT !.at = "gone", !.today = FALSE]
      /\ \A j \in Sells \ {i} : sell'[j] = sell[j]
      /\ [sell[i] EXCEPT !.at = "gone", !.today = FALSE] \in SellType
      /\ sell' \in [Sells -> SellType]
  BY <1>1, <1>3 DEF StoreTypes, SellType, Places
<1>5. StoreTypes'
  BY <1>1, <1>2, <1>4 DEF StoreTypes
<1>6. /\ sell'[i].at = "gone" /\ sell'[i].filled = sell[i].filled
      /\ sell'[i].published = sell[i].published /\ sell[i].published \in 0 .. Shares
  BY <1>1, <1>4 DEF SellType
<1>7. Unbooked' = Unbooked /\ \A j \in Sells : Used(j)' <=> Used(j)
  BY <1>2 DEF Unbooked, Used
<1>8. intent[i].state # "none"
  BY <1>1, <1>2 DEF IntentOK, NoSell
<1>9. IntentOK(i)'
  BY <1>1, <1>2, <1>6, <1>7, <1>8 DEF IntentOK, Target, Used
<1>10. \A j \in Sells : sell'[j].filled = sell[j].filled
  BY <1>4, <1>6
<1>11. Book'
  BY <1>1, <1>2, <1>7, <1>10 DEF StoreInv, Book, Unbooked
<1>12. GoesForward(i)
  BY <1>2, <1>6 DEF GoesForward
<1>13. UNCHANGED <<stores, buy, tick, crashes>>
  BY <1>2 DEF stores
<1>14. \A j \in Sells \ {i} : sell'[j] = sell[j]
  BY <1>4
<1> QED
  BY <1>5, <1>9, <1>11, <1>12, <1>13, <1>14, SellKeeps

LEMMA FillKeeps ==
  ASSUME IInv, NEW i \in Sells, Fill(i) PROVE IInv'
<1> USE PositionAssumption
<1> DEFINE at == IF sell[i].filled + 1 = intent[i].qty THEN "gone" ELSE "open"
<1>1. StoreTypes /\ StoreInv /\ IntentOK(i) /\ sell[i] \in SellType /\ intent[i] \in IntentType
  BY Types DEF IInv, StoreInv, Orders, StoreTypes
<1>2. /\ sell[i].at = "open" /\ held > 0 /\ held' = held - 1 /\ held \in 0 .. Shares
      /\ held' \in 0 .. Shares
      /\ UNCHANGED <<position, intent, number, buy, tick, crashes>>
  BY <1>1 DEF Fill, stores, StoreTypes
<1>3. /\ intent[i].state # "none" /\ sell[i].filled < intent[i].qty
      /\ sell[i].filled \in 0 .. Shares /\ intent[i].qty \in 0 .. Shares
      /\ sell[i].filled + 1 \in 0 .. Shares
      /\ sell[i].published \in 0 .. Shares /\ sell[i].published <= sell[i].filled
      /\ intent[i].confirmed \in 0 .. Shares /\ intent[i].confirmed <= sell[i].published
  BY <1>1, <1>2 DEF IntentOK, NoSell, SellType, IntentType
<1>4. sell' = [sell EXCEPT ![i] = [sell[i] EXCEPT !.filled = sell[i].filled + 1, !.at = at]]
  BY <1>1 DEF Fill, StoreTypes
<1>5. at \in {"open", "gone"} /\ (at = "open" => sell[i].filled + 1 < intent[i].qty)
  BY <1>3
<1> HIDE DEF at
<1>6. /\ sell'[i] = [sell[i] EXCEPT !.filled = sell[i].filled + 1, !.at = at]
      /\ \A j \in Sells \ {i} : sell'[j] = sell[j]
      /\ [sell[i] EXCEPT !.filled = sell[i].filled + 1, !.at = at] \in SellType
      /\ sell' \in [Sells -> SellType]
  BY <1>1, <1>3, <1>4, <1>5 DEF StoreTypes, SellType, Places
<1>7. StoreTypes'
  BY <1>1, <1>2, <1>6 DEF StoreTypes
<1>8. /\ sell'[i].at = at /\ sell'[i].filled = sell[i].filled + 1
      /\ sell'[i].published = sell[i].published
  BY <1>1, <1>6 DEF SellType
<1>9. Unbooked' = Unbooked /\ \A j \in Sells : Used(j)' <=> Used(j)
  BY <1>2 DEF Unbooked, Used
<1>10. IntentOK(i)'
  BY <1>1, <1>2, <1>3, <1>5, <1>8, <1>9 DEF IntentOK, Target, Used
<1>11. i \in Unbooked /\ \A j \in Unbooked : j = i
  BY <1>1, <1>3 DEF StoreInv, Orders, OneUnbooked, Unbooked, Used
<1>12. Book'
  <2>1. position.state \notin Unsold
    BY <1>1, <1>3 DEF StoreInv, Book, Used
  <2>2. ASSUME NEW j \in Unbooked
        PROVE  held' + sell'[j].filled = position.remaining + intent[j].confirmed
    <3>1. j = i
      BY <1>11
    <3>2. held + sell[i].filled = position.remaining + intent[i].confirmed
      BY <1>1, <3>1 DEF StoreInv, Book
    <3> QED
      BY <1>2, <1>3, <1>8, <3>1, <3>2
  <2> QED
    BY <1>1, <1>2, <1>9, <1>11, <2>1, <2>2 DEF StoreInv, Book, Unsold
<1>13. GoesForward(i)
  BY <1>2, <1>3, <1>8 DEF GoesForward
<1>14. UNCHANGED <<stores, buy, tick, crashes>>
  BY <1>2 DEF stores
<1>15. \A j \in Sells \ {i} : sell'[j] = sell[j]
  BY <1>6
<1> QED
  BY <1>7, <1>10, <1>12, <1>13, <1>14, <1>15, SellKeeps

-----------------------------------------------------------------------------
(* The ticks' writes to the row alone. *)

LEMMA EligibleIsBooked ==
  ASSUME StoreInv, position.state \in Eligible
  PROVE  Unbooked = {}
BY DEF StoreInv, Orders, IntentOK, Target, Eligible, Unbooked

\* Intents, numbers and the broker stay; so the other ticks hold on.
LEMMA RowKeeps ==
  ASSUME IInv, NEW t \in Ticks, position' \in PositionType, StoreInv',
         UNCHANGED <<intent, number, broker, crashes>>, OnlyTick(t), TickOK(t)'
  PROVE  IInv'
<1>1. StoreTypes /\ crashes \in 0 .. MaxCrashes
  BY Types DEF IInv
<1>2. Active' = Active /\ intent' = intent /\ number' = number
      /\ sell' = sell /\ buy' = buy /\ held' = held /\ crashes' = crashes
  BY DEF Active, broker
<1>3. StoreTypes' /\ crashes' \in 0 .. MaxCrashes
  BY <1>1, <1>2 DEF StoreTypes
<1>4. /\ \A i \in Sells : sell[i].published \in 0 .. Shares
      /\ buy.published \in 0 .. Shares
  BY <1>1 DEF StoreTypes, SellType
<1>5. KeepsOthers(t)
  BY <1>2, <1>4, PositionAssumption DEF KeepsOthers
<1> QED
  BY <1>3, <1>5, TickStepKeeps

\* A move of the row while every intent is booked.
LEMMA MoveKeeps ==
  ASSUME IInv, NEW s \in {"TRAILING"} \cup Submitted, position.state \in Eligible,
         SetState(s), UNCHANGED <<intent, number, broker>>
  PROVE  position' \in PositionType /\ StoreInv'
<1>1. StoreTypes /\ StoreInv
  BY Types DEF IInv
<1>a. s \in States
  BY DEF States, Eligible, Submitted
<1>2. /\ position'.state = s /\ position'.filled = position.filled
      /\ position'.remaining = position.remaining /\ position' \in PositionType
  BY <1>1, <1>a DEF SetState, StoreTypes, PositionType
<1>3. /\ Unbooked = {} /\ Unbooked' = {} /\ intent' = intent /\ number' = number
      /\ sell' = sell /\ buy' = buy /\ held' = held
      /\ \A i \in Sells : Used(i)' <=> Used(i)
  BY <1>1, EligibleIsBooked DEF Unbooked, Used, broker
<1>4. /\ s \in Bought \ {"MANUAL_REVIEW", "CLOSED"} /\ position.state \in Bought \ {"MANUAL_REVIEW", "CLOSED"}
      /\ s \notin Unsold
  BY DEF Bought, States, Eligible, Submitted, FillPending, Unsold
<1>5. Book'
  BY <1>1, <1>2, <1>3, <1>4 DEF StoreInv, Book, Unsold
<1>6. Orders'
  BY <1>1, <1>2, <1>3, <1>4 DEF StoreInv, Orders, IntentOK, OneUnbooked, OnePartial
<1> QED
  BY <1>2, <1>5, <1>6 DEF StoreInv

LEMMA TrailKeeps ==
  ASSUME IInv, NEW t \in Ticks, Trail(t) PROVE IInv'
<1>1. OnlyTick(t) /\ TickOK(t)'
  BY Returning DEF IInv, Trail
<1>2. CASE position.state = "PARTIAL_EXITED"
  <2>1. position' \in PositionType /\ StoreInv'
    BY <1>2, MoveKeeps DEF Trail, Eligible
  <2> QED
    BY <1>1, <2>1, RowKeeps DEF Trail
<1>3. CASE position.state # "PARTIAL_EXITED"
  BY <1>1, <1>3, StoresStay, TickStepKeeps, Types DEF Trail, stores, broker, IInv
<1> QED
  BY <1>2, <1>3

LEMMA ResumeKeeps ==
  ASSUME IInv, NEW t \in Ticks, Resume(t) PROVE IInv'
<1> DEFINE reachable == position.state \in Eligible /\ MaySubmit(tick[t].full)
           r == [tick[t] EXCEPT !.pc = "find", !.resumed = TRUE]
<1>1. /\ IF reachable THEN SetState(Target(tick[t].full)) ELSE UNCHANGED position
      /\ Becomes(t, r) \/ Ends(t)
      /\ UNCHANGED <<intent, number, broker, crashes>>
  BY DEF Resume
<1>2. r \in TickType /\ r.pc = "find"
  <2>1. tick[t] \in TickType
    BY TickTypes DEF IInv
  <2> QED
    BY <2>1 DEF Stages, TickType
<1>3. OnlyTick(t) /\ TickOK(t)'
  <2>1. "find" \notin Submitting \cup Resolving \cup {"record"}
    BY DEF Submitting, Resolving
  <2> QED
    BY <1>1, <1>2, <2>1, Rests, Returning DEF IInv
<1>4. CASE reachable
  <2>1. Target(tick[t].full) \in {"TRAILING"} \cup Submitted
    BY DEF Target, Submitted
  <2>2. position' \in PositionType /\ StoreInv'
    BY <1>1, <1>4, <2>1, MoveKeeps
  <2> QED
    BY <1>1, <1>3, <2>2, RowKeeps
<1>5. CASE ~reachable
  <2>1. UNCHANGED <<stores, broker, crashes>>
    BY <1>1, <1>5 DEF stores, broker
  <2> QED
    BY <1>3, <2>1, StoresStay, TickStepKeeps, Types DEF IInv
<1> QED
  BY <1>4, <1>5

LEMMA FinalizeKeeps ==
  ASSUME IInv, NEW t \in Ticks, Finalize(t) PROVE IInv'
<1>1. OnlyTick(t) /\ TickOK(t)'
  BY Returning DEF IInv, Finalize
<1>2. StoreTypes /\ StoreInv
  BY Types DEF IInv
<1>3. /\ position'.state = position.state /\ position'.filled = position.filled
      /\ position'.remaining = position.remaining /\ position' \in PositionType
  <2>1. position.stop \in BOOLEAN
    BY <1>2 DEF StoreTypes, PositionType
  <2> DEFINE b == position.stop \/ position.state = "STOP_ACTIVE"
  <2>2. position' = [position EXCEPT !.stop = b]
    BY DEF Finalize
  <2>3. b \in BOOLEAN
    BY <2>1
  <2> HIDE DEF b
  <2> QED
    BY <1>2, <2>2, <2>3 DEF StoreTypes, PositionType
<1>4. /\ Unbooked' = Unbooked /\ intent' = intent /\ number' = number
      /\ sell' = sell /\ buy' = buy /\ held' = held
      /\ \A i \in Sells : Used(i)' <=> Used(i)
  BY DEF Finalize, Unbooked, Used, broker
<1>5. StoreInv'
  BY <1>2, <1>3, <1>4 DEF StoreInv, Orders, IntentOK, OneUnbooked, OnePartial, Book, Target
<1> QED
  BY <1>1, <1>3, <1>5, RowKeeps DEF Finalize

LEMMA RecordFillKeeps ==
  ASSUME IInv, NEW t \in Ticks, RecordFill(t) PROVE IInv'
<1> USE PositionAssumption
<1> DEFINE n == tick[t].found
           state == IF n = Shares THEN "STOP_ACTIVE" ELSE "PARTIALLY_FILLED"
<1>1. /\ StoreTypes /\ StoreInv /\ tick[t] \in TickType /\ TypeOK
      /\ crashes \in 0 .. MaxCrashes
  BY Types, TickTypes DEF IInv
<1>2. OnlyTick(t) /\ TickOK(t)'
  <2>1. Ends(t) \/ Goto(t, "finalize")
    BY DEF RecordFill
  <2>2. /\ [tick[t] EXCEPT !.pc = "finalize"] \in TickType
        /\ [tick[t] EXCEPT !.pc = "finalize"].pc = "finalize"
    BY <1>1 DEF TickType, Stages
  <2>3. "finalize" \notin Submitting \cup Resolving \cup {"record"}
    BY DEF Submitting, Resolving
  <2> QED
    BY <1>1, <2>1, <2>2, <2>3, Rests, Returning DEF Goto
<1>3. CASE ~Recordable(t)
  <2>1. UNCHANGED <<stores, broker, crashes>>
    BY <1>3 DEF RecordFill, stores, broker
  <2> QED
    BY <1>1, <1>2, <2>1, StoresStay, TickStepKeeps
<1>4. CASE Recordable(t)
  <2>1. /\ position' = [position EXCEPT !.filled = n, !.remaining = n, !.state = state]
        /\ UNCHANGED <<intent, number, broker, crashes>>
        /\ position.state \in FillPending
    BY <1>4 DEF RecordFill, Recordable
  <2>2. n \in 0 .. Shares /\ n <= buy.published
    BY <1>1 DEF TickType, RecordFill, At, IInv, TicksInv, TickOK
  <2>3. state \in {"STOP_ACTIVE", "PARTIALLY_FILLED"} /\ (state = "STOP_ACTIVE" => n = Shares)
    OBVIOUS
  <2> HIDE DEF n, state
  <2>4. /\ position'.state = state /\ position'.filled = n /\ position'.remaining = n
        /\ position' \in PositionType
    BY <1>1, <2>1, <2>2, <2>3 DEF StoreTypes, PositionType, States, Eligible, FillPending
  <2>5. /\ \A i \in Sells : intent[i].state = "none"
        /\ held = buy.filled /\ buy.published <= buy.filled
        /\ Unbooked = {} /\ Unbooked' = {} /\ intent' = intent /\ number' = number
        /\ sell' = sell /\ buy' = buy /\ held' = held
    BY <1>1, <2>1 DEF StoreInv, Book, Unsold, Unbooked, Used, broker
  <2>6. buy.published \in 0 .. Shares /\ buy.filled \in 0 .. Shares
    BY <1>1 DEF StoreTypes
  <2>7. state = "STOP_ACTIVE" => buy.filled = Shares /\ held = n
    BY <2>2, <2>3, <2>5, <2>6
  <2>8. Book'
    BY <2>2, <2>3, <2>4, <2>5, <2>7 DEF Book, Bought, FillPending, Used
  <2>9. Orders'
    BY <1>1, <2>5 DEF StoreInv, Orders, IntentOK, OneUnbooked, OnePartial, Used
  <2> QED
    BY <1>2, <2>1, <2>4, <2>8, <2>9, RowKeeps DEF StoreInv
<1> QED
  BY <1>3, <1>4

-----------------------------------------------------------------------------
(* The ticks' writes to the intents. *)

\* A mark is written; whatever the intent was, it is active then.
LEMMA OverwriteKeeps ==
  ASSUME IInv, NEW t \in Ticks, NEW i \in Sells, Used(i),
         NEW s \in {"SUBMITTED", "SUBMISSION_UNKNOWN", "RECONCILIATION_REQUIRED"},
         Overwrite(i, s), UNCHANGED <<position, number, broker, crashes>>,
         OnlyTick(t), TickOK(t)'
  PROVE  IInv'
<1>1. StoreTypes /\ StoreInv /\ intent[i] \in IntentType /\ crashes \in 0 .. MaxCrashes
  BY Types DEF IInv, StoreTypes
<1>2. /\ intent' = [intent EXCEPT ![i] = [intent[i] EXCEPT !.state = s]]
      /\ [intent[i] EXCEPT !.state = s] \in IntentType
  BY <1>1 DEF Overwrite, StoreTypes, IntentType, IntentStates
<1>3. /\ intent' \in [Sells -> IntentType]
      /\ \A j \in Sells \ {i} : intent'[j] = intent[j]
      /\ intent'[i].state = s /\ intent'[i].qty = intent[i].qty
      /\ intent'[i].confirmed = intent[i].confirmed
      /\ intent'[i].full = intent[i].full
  BY <1>1, <1>2 DEF StoreTypes, IntentType
<1>4. /\ position' = position /\ number' = number
      /\ sell' = sell /\ buy' = buy /\ held' = held
  BY DEF broker
<1>5. /\ StoreTypes' /\ crashes' \in 0 .. MaxCrashes
      /\ \A j \in Sells : sell[j].published \in 0 .. Shares
      /\ buy.published \in 0 .. Shares
  BY <1>1, <1>3, <1>4 DEF StoreTypes, SellType
<1>6. /\ \A j \in Sells : /\ Used(j)' <=> Used(j)
                          /\ intent'[j].qty = intent[j].qty
                          /\ intent'[j].confirmed = intent[j].confirmed
                          /\ intent'[j].full = intent[j].full
      /\ Unbooked' = Unbooked /\ Active' = Active \cup {i}
  BY <1>3 DEF Used, Unbooked, Active
<1>7. ASSUME NEW j \in Sells PROVE IntentOK(j)'
  <2>1. IntentOK(j)
    BY <1>1 DEF StoreInv, Orders
  <2>2. CASE j = i
    BY <1>3, <1>4, <1>6, <2>1, <2>2 DEF IntentOK, Target, Used
  <2>3. CASE j # i
    BY <1>3, <1>4, <1>6, <2>1, <2>3 DEF IntentOK, Target
  <2> QED
    BY <2>2, <2>3
<1>8. Book' /\ Orders'
  BY <1>1, <1>4, <1>6, <1>7 DEF StoreInv, Orders, Book, OneUnbooked, OnePartial, Unbooked
<1>9. KeepsOthers(t)
  BY <1>4, <1>5, <1>6, PositionAssumption DEF KeepsOthers, Used
<1> QED
  BY <1>5, <1>8, <1>9, TickStepKeeps DEF StoreInv

LEMMA MarksKeep ==
  ASSUME IInv, NEW t \in Ticks, MarkRequired(t) \/ MarkSubmitted(t) \/ MarkUnknown(t)
  PROVE  IInv'
<1>1. OnlyTick(t) /\ TickOK(t)'
  <2>1. Ends(t) \/ Returns(t, position)
    BY DEF MarkRequired, MarkSubmitted, MarkUnknown
  <2> QED
    BY <2>1, Returning DEF IInv
<1>2. Sought(t) \in Sells /\ Used(Sought(t))
  <2>1. tick[t].pc \in Submitting \cup Resolving
    BY DEF MarkRequired, MarkSubmitted, MarkUnknown, Write, At, Submitting, Resolving
  <2>2. tick[t].intent \in Sells
    BY DEF IInv, TypeOK
  <2> QED
    BY <2>1, <2>2 DEF IInv, TicksInv, TickOK, Sought, Used
<1>3. PICK s \in {"SUBMITTED", "SUBMISSION_UNKNOWN", "RECONCILIATION_REQUIRED"} :
        Overwrite(Sought(t), s)
  BY DEF MarkRequired, MarkSubmitted, MarkUnknown, Write
<1>4. UNCHANGED <<position, number, broker, crashes>>
  BY DEF MarkRequired, MarkSubmitted, MarkUnknown, Write
<1> QED
  BY <1>1, <1>2, <1>3, <1>4, OverwriteKeeps

LEMMA ReserveKeeps ==
  ASSUME IInv, NEW t \in Ticks, Reserve(t) PROVE IInv'
<1> USE PositionAssumption
<1> DEFINE full == tick[t].full
           q == Quantity(full)
           new == [state |-> "RESERVED", qty |-> q, confirmed |-> 0, full |-> full]
<1>1. /\ StoreTypes /\ StoreInv /\ tick[t] \in TickType /\ TypeOK
      /\ crashes \in 0 .. MaxCrashes
  BY Types, TickTypes DEF IInv
<1>2. PICK i \in Sells :
        /\ intent[i].state = "none"
        /\ intent' = [intent EXCEPT ![i] = new]
        /\ Becomes(t, [tick[t] EXCEPT !.pc = "check", !.intent = i])
  BY DEF Reserve
<1>3. /\ position.state \in Eligible /\ q > 0 /\ Active = {}
      /\ SetState(Target(full)) /\ UNCHANGED <<number, sell, buy, held, crashes>>
      /\ MaySubmit(full)
  BY DEF Reserve, broker
<1>4. full \in BOOLEAN
  BY <1>1 DEF TickType
<1>5. position.remaining \in 0 .. Shares
  BY <1>1 DEF StoreTypes, PositionType
<1>6. q \in 0 .. Shares /\ q <= position.remaining /\ (full => q = position.remaining)
  <2>1. position.remaining \div 2 \in 0 .. Shares /\ position.remaining \div 2 <= position.remaining
    BY <1>5
  <2>2. CASE full
    BY <1>5, <2>2 DEF Quantity
  <2>3. CASE ~full
    BY <2>1, <2>3 DEF Quantity
  <2> QED
    BY <2>2, <2>3
<1> HIDE DEF full, q
<1>a. ~full => \A j \in Sells : ~Used(j)
  <2>1. ~full => position.state \in {"STOP_ACTIVE", "TARGET_1_ACTIVE"}
    BY <1>3 DEF MaySubmit, Legal, Moves, From, Target
  <2> QED
    BY <1>1, <2>1 DEF StoreInv, Book, Unsold
<1>7. new \in IntentType
  BY <1>4, <1>6 DEF IntentType, IntentStates
<1>8. /\ intent' \in [Sells -> IntentType] /\ intent'[i] = new
      /\ \A j \in Sells \ {i} : intent'[j] = intent[j]
      /\ intent'[i].state = "RESERVED" /\ intent'[i].qty = q
      /\ intent'[i].confirmed = 0 /\ intent'[i].full = full
  BY <1>1, <1>2, <1>7 DEF StoreTypes
<1>9. Unbooked = {} /\ Unbooked' = {i} /\ i \in Active'
  <2>1. Unbooked = {}
    BY <1>1, <1>3, EligibleIsBooked
  <2>2. i \in Unbooked' /\ i \in Active'
    BY <1>3, <1>6, <1>8 DEF Unbooked, Used, Active
  <2>3. \A j \in Sells \ {i} : j \notin Unbooked'
    BY <1>8, <2>1 DEF Unbooked, Used
  <2>4. Unbooked' \subseteq Sells
    BY DEF Unbooked
  <2> QED
    BY <2>1, <2>2, <2>3, <2>4
<1>10. /\ position'.state = Target(full) /\ position'.filled = position.filled
       /\ position'.remaining = position.remaining /\ position' \in PositionType
       /\ Target(full) \in Submitted
  BY <1>1, <1>3 DEF SetState, StoreTypes, PositionType, States, Target, Submitted
<1>11. StoreTypes' /\ crashes' \in 0 .. MaxCrashes
  BY <1>1, <1>3, <1>8, <1>10 DEF StoreTypes
<1>12. sell[i] = NoSell /\ ~number[i]
  BY <1>1, <1>2 DEF StoreInv, Orders, IntentOK
<1>13. ASSUME NEW j \in Sells PROVE IntentOK(j)'
  <2>1. IntentOK(j)
    BY <1>1 DEF StoreInv, Orders
  <2>2. CASE j = i
    BY <1>3, <1>6, <1>8, <1>9, <1>10, <1>12, <2>2 DEF IntentOK, NoSell
  <2>3. CASE j # i
    <3>1. intent[j].state # "ABORTED" /\ ~(Used(j) /\ intent[j].full) /\ j \notin Unbooked'
      BY <1>3, <1>9, <2>1, <2>3 DEF IntentOK, Eligible
    <3> QED
      BY <1>3, <1>8, <2>1, <2>3, <3>1 DEF IntentOK, Used
  <2> QED
    BY <2>2, <2>3
<1>14. Book'
  <2>1. position.state \in Bought /\ Target(full) \in Bought
        /\ Target(full) \notin Unsold \cup {"SETUP_DETECTED"} \cup FillPending
    BY <1>3, <1>10 DEF Bought, States, Eligible, Submitted, FillPending, Unsold
  <2>2. held = position.remaining /\ buy.published <= buy.filled /\ buy.filled = Shares
    BY <1>1, <1>9, <2>1 DEF StoreInv, Book
  <2>3. sell[i].filled = 0
    BY <1>12 DEF NoSell
  <2>4. /\ held' + sell'[i].filled = position'.remaining + intent'[i].confirmed
        /\ intent'[i].qty <= position'.remaining + intent'[i].confirmed
        /\ intent'[i].full => intent'[i].qty = position'.remaining + intent'[i].confirmed
    BY <1>3, <1>5, <1>6, <1>8, <1>10, <2>2, <2>3
  <2> QED
    BY <1>3, <1>9, <1>10, <2>1, <2>2, <2>4 DEF Book
<1>15. OneUnbooked' /\ OnePartial'
  <2>1. OneUnbooked'
    BY <1>9 DEF OneUnbooked
  <2>2. \A j \in Sells \ {i} : (Used(j)' <=> Used(j)) /\ intent'[j].full = intent[j].full
    BY <1>8 DEF Used
  <2>3. OnePartial'
    <3>1. CASE full
      BY <1>1, <1>8, <2>2, <3>1 DEF StoreInv, Orders, OnePartial
    <3>2. CASE ~full
      BY <1>a, <2>2, <3>2 DEF OnePartial
    <3> QED
      BY <3>1, <3>2
  <2> QED
    BY <2>1, <2>3
<1>16. OnlyTick(t) /\ TickOK(t)'
  <2> DEFINE r == [tick[t] EXCEPT !.pc = "check", !.intent = i]
  <2>1. r \in TickType /\ r.pc = "check" /\ r.intent = i
    BY <1>1 DEF TickType, Stages
  <2> HIDE DEF r
  <2>2. /\ tick' \in [Ticks -> TickType]
        /\ tick'[t] = r /\ \A u \in Ticks \ {t} : tick'[u] = tick[u]
    BY <1>1, <1>2, <2>1, TickBecomes DEF r
  <2>3. OnlyTick(t)
    BY <1>2, <2>1, <2>2 DEF OnlyTick
  <2>4. TickOK(t)'
    BY <1>3, <1>8, <1>9, <1>12, <2>1, <2>2 DEF TickOK, NoSell
  <2> QED
    BY <2>3, <2>4
<1>17. KeepsOthers(t)
  <2>1. /\ \A j \in Sells : sell[j].published \in 0 .. Shares
        /\ buy.published \in 0 .. Shares
    BY <1>1 DEF StoreTypes, SellType
  <2> QED
    BY <1>2, <1>3, <1>8, <2>1 DEF KeepsOthers
<1> QED
  BY <1>11, <1>13, <1>14, <1>15, <1>16, <1>17, TickStepKeeps DEF StoreInv, Orders

-----------------------------------------------------------------------------
(* Submission, and the end of an exit. *)

\* The intent a tick is submitting is submitted by no other tick.
LEMMA SubmitsAlone ==
  ASSUME IInv, NEW t \in Ticks, tick[t].pc \in Submitting, NEW u \in Ticks \ {t}
  PROVE  ~(tick[u].pc \in Unanswered /\ tick[u].intent = tick[t].intent)
BY DEF IInv, TicksInv, OneSubmits, Unanswered, Submitting

\* A tick that goes on with its submission.
LEMMA SubmitsOn ==
  ASSUME IInv, NEW t \in Ticks, tick[t].pc \in Submitting,
         NEW s \in Submitting, Goto(t, s)
  PROVE  /\ OnlyTick(t)
         /\ tick'[t].pc = s /\ tick'[t].intent = tick[t].intent
<1>1. tick[t] \in TickType
  BY TickTypes DEF IInv
<1>2. [tick[t] EXCEPT !.pc = s] \in TickType
  BY <1>1 DEF TickType, Stages, Submitting
<1>3. /\ tick' \in [Ticks -> TickType]
      /\ tick'[t] = [tick[t] EXCEPT !.pc = s]
      /\ \A u \in Ticks \ {t} : tick'[u] = tick[u]
  BY <1>2, TickBecomes DEF Goto, IInv
<1>4. tick'[t].pc = s /\ tick'[t].intent = tick[t].intent
  BY <1>1, <1>3 DEF TickType
<1> QED
  BY <1>3, <1>4 DEF OnlyTick

LEMMA SendKeeps ==
  ASSUME IInv, NEW t \in Ticks, Send(t) PROVE IInv'
<1> USE PositionAssumption
<1> DEFINE i == tick[t].intent
<1>1. StoreTypes /\ StoreInv /\ crashes \in 0 .. MaxCrashes /\ TickOK(t)
  BY Types DEF IInv, TicksInv
<1>2. tick[t].pc = "send" /\ i \in Sells
  BY DEF Send, At, IInv, TypeOK
<1>3. /\ i \in Active /\ ~number[i] /\ sell[i].at = "none"
      /\ intent[i].state # "none"
  BY <1>1, <1>2 DEF TickOK, Submitting, Unanswered
<1>4. OnlyTick(t) /\ tick'[t].pc = "await" /\ tick'[t].intent = i
  BY <1>2, SubmitsOn DEF Submitting, Send
<1>5. /\ sell' = [sell EXCEPT ![i] = [sell[i] EXCEPT !.at = "wire"]]
      /\ UNCHANGED <<position, intent, number, buy, held, crashes>>
  BY DEF Send, stores, Sought
<1> HIDE DEF i
<1>6. sell[i] \in SellType /\ [sell[i] EXCEPT !.at = "wire"] \in SellType
  BY <1>1, <1>2 DEF StoreTypes, SellType, Places
<1>7. /\ sell'[i].at = "wire" /\ sell'[i].filled = sell[i].filled
      /\ sell'[i].published = sell[i].published
      /\ \A j \in Sells \ {i} : sell'[j] = sell[j]
      /\ sell' \in [Sells -> SellType]
  BY <1>1, <1>2, <1>5, <1>6 DEF StoreTypes, SellType
<1>8. /\ Active' = Active /\ Unbooked' = Unbooked
      /\ \A j \in Sells : Used(j)' <=> Used(j)
  BY <1>5 DEF Active, Unbooked, Used
<1>9. StoreTypes' /\ crashes' \in 0 .. MaxCrashes
  BY <1>1, <1>5, <1>7 DEF StoreTypes
<1>10. ASSUME NEW j \in Sells PROVE IntentOK(j)'
  <2>1. IntentOK(j)
    BY <1>1 DEF StoreInv, Orders
  <2>2. CASE j = i
    BY <1>3, <1>5, <1>7, <1>8, <2>1, <2>2 DEF IntentOK, Target
  <2>3. CASE j # i
    BY <1>5, <1>7, <1>8, <2>1, <2>3 DEF IntentOK, Target
  <2> QED
    BY <2>2, <2>3
<1>11. Book' /\ Orders'
  <2>1. \A j \in Sells : sell'[j].filled = sell[j].filled
    BY <1>7
  <2>2. Book'
    BY <1>1, <1>5, <1>8, <2>1 DEF StoreInv, Book, Unbooked
  <2> QED
    BY <1>1, <1>5, <1>8, <1>10, <2>2 DEF StoreInv, Orders, OneUnbooked, OnePartial
<1>12. KeepsOthers(t)
  <2>1. ASSUME NEW u \in Ticks \ {t}
        PROVE  ~(tick[u].pc \in Unanswered /\ tick[u].intent = i)
    BY <1>2, SubmitsAlone DEF Submitting, i
  <2>2. \A j \in Sells : sell[j].published \in 0 .. Shares /\ sell'[j].published = sell[j].published
    BY <1>1, <1>7 DEF StoreTypes, SellType
  <2>3. buy.published \in 0 .. Shares
    BY <1>1 DEF StoreTypes
  <2> QED
    BY <1>5, <1>7, <1>8, <2>1, <2>2, <2>3 DEF KeepsOthers
<1>13. TickOK(t)'
  BY <1>3, <1>4, <1>5, <1>8 DEF TickOK
<1> QED
  BY <1>4, <1>9, <1>10, <1>11, <1>12, <1>13, TickStepKeeps DEF StoreInv

LEMMA AnsweredKeeps ==
  ASSUME IInv, NEW t \in Ticks, Answered(t, "accepted") \/ Answered(t, "refused")
  PROVE  IInv'
<1> USE PositionAssumption
<1> DEFINE i == tick[t].intent
<1>1. StoreTypes /\ StoreInv /\ crashes \in 0 .. MaxCrashes /\ TickOK(t)
  BY Types DEF IInv, TicksInv
<1>2. tick[t].pc = "await" /\ i \in Sells
  BY DEF Answered, At, IInv, TypeOK
<1>3. i \in Active /\ intent[i].state # "none"
  BY <1>1, <1>2 DEF TickOK, Submitting, Unanswered
<1>4. PICK s \in {"accepted", "refused"} : Goto(t, s)
  BY DEF Answered
<1>5. OnlyTick(t) /\ tick'[t].pc = s /\ tick'[t].intent = i
  BY <1>2, <1>4, SubmitsOn DEF Submitting
<1>6. /\ number' = [number EXCEPT ![i] = TRUE]
      /\ UNCHANGED <<position, intent, sell, buy, held, crashes>>
  BY DEF Answered, broker, Sought
<1> HIDE DEF i
<1>7. /\ number' \in [Sells -> BOOLEAN] /\ number'[i]
      /\ \A j \in Sells \ {i} : number'[j] = number[j]
  BY <1>1, <1>2, <1>6 DEF StoreTypes
<1>8. /\ Active' = Active /\ Unbooked' = Unbooked
      /\ \A j \in Sells : Used(j)' <=> Used(j)
  BY <1>6 DEF Active, Unbooked, Used
<1>9. StoreTypes' /\ crashes' \in 0 .. MaxCrashes
  BY <1>1, <1>6, <1>7 DEF StoreTypes
<1>10. ASSUME NEW j \in Sells PROVE IntentOK(j)'
  BY <1>1, <1>3, <1>6, <1>7, <1>8 DEF StoreInv, Orders, IntentOK, Target
<1>11. Book' /\ Orders'
  BY <1>1, <1>6, <1>8, <1>10 DEF StoreInv, Orders, Book, OneUnbooked, OnePartial
<1>12. KeepsOthers(t)
  <2>1. ASSUME NEW u \in Ticks \ {t}
        PROVE  ~(tick[u].pc \in Unanswered /\ tick[u].intent = i)
    BY <1>2, SubmitsAlone DEF Submitting, i
  <2>2. /\ \A j \in Sells : sell[j].published \in 0 .. Shares
        /\ buy.published \in 0 .. Shares
    BY <1>1 DEF StoreTypes, SellType
  <2> QED
    BY <1>6, <1>7, <1>8, <2>1, <2>2 DEF KeepsOthers
<1>13. TickOK(t)'
  BY <1>3, <1>5, <1>6, <1>8 DEF TickOK, Unanswered
<1> QED
  BY <1>5, <1>9, <1>10, <1>11, <1>12, <1>13, TickStepKeeps DEF StoreInv

LEMMA AbortExitKeeps ==
  ASSUME IInv, NEW t \in Ticks, AbortExit(t) PROVE IInv'
<1> USE PositionAssumption
<1> DEFINE i == tick[t].intent
<1>1. /\ StoreTypes /\ StoreInv /\ crashes \in 0 .. MaxCrashes /\ TickOK(t)
      /\ OnlyTick(t) /\ TickOK(t)'
  BY Types, Returning DEF IInv, TicksInv, AbortExit
<1>2. tick[t].pc = "refused" /\ i \in Sells
  BY DEF AbortExit, At, IInv, TypeOK
<1>3. intent[i].state # "none" /\ intent[i] \in IntentType
  BY <1>1, <1>2 DEF TickOK, Submitting, StoreTypes
<1>4. UNCHANGED <<number, sell, buy, held, crashes>>
  BY DEF AbortExit, broker
<1>5. CASE Terminal(i) \/ ~Legal(position.state, "MANUAL_REVIEW")
  <2>1. UNCHANGED <<stores, broker>>
    BY <1>4, <1>5 DEF AbortExit, Sought, stores, broker
  <2> QED
    BY <1>1, <1>4, <2>1, StoresStay, TickStepKeeps
<1>6. CASE ~Terminal(i) /\ Legal(position.state, "MANUAL_REVIEW")
  <2>1. /\ position' = [position EXCEPT !.state = "MANUAL_REVIEW"]
        /\ intent' = [intent EXCEPT ![i] = [intent[i] EXCEPT !.state = "ABORTED"]]
    BY <1>2, <1>3, <1>6, <1>1 DEF AbortExit, Sought, SetState, Overwrite, StoreTypes
  <2>2. position.state \in Submitted
    BY <1>6 DEF Legal, Moves, Submitted
  <2> HIDE DEF i
  <2>3. i \in Active
    BY <1>2, <1>3, <1>6 DEF Active, Terminal, IntentType, IntentStates
  <2>4. [intent[i] EXCEPT !.state = "ABORTED"] \in IntentType
    BY <1>3 DEF IntentType, IntentStates
  <2>5. /\ intent' \in [Sells -> IntentType]
        /\ \A j \in Sells \ {i} : intent'[j] = intent[j]
        /\ intent'[i].state = "ABORTED" /\ intent'[i].qty = intent[i].qty
        /\ intent'[i].confirmed = intent[i].confirmed
        /\ intent'[i].full = intent[i].full
    BY <1>1, <1>2, <1>3, <2>1, <2>4 DEF StoreTypes, IntentType
  <2>6. /\ position'.state = "MANUAL_REVIEW" /\ position' \in PositionType
        /\ position'.filled = position.filled /\ position'.remaining = position.remaining
    BY <1>1, <2>1 DEF StoreTypes, PositionType, States
  <2>7. /\ \A j \in Sells : /\ Used(j)' <=> Used(j)
                            /\ intent'[j].qty = intent[j].qty
                            /\ intent'[j].confirmed = intent[j].confirmed
                            /\ intent'[j].full = intent[j].full
        /\ Unbooked' = Unbooked /\ \A j \in Active \ {i} : j \in Active'
    BY <1>3, <2>5 DEF Used, Unbooked, Active
  <2>8. StoreTypes' /\ crashes' \in 0 .. MaxCrashes
    BY <1>1, <1>4, <2>5, <2>6 DEF StoreTypes
  <2>9. ASSUME NEW j \in Sells PROVE IntentOK(j)'
    <3>1. IntentOK(j)
      BY <1>1 DEF StoreInv, Orders
    <3>2. ~(Used(j) /\ intent[j].full /\ j \notin Unbooked)
      BY <2>2, <3>1 DEF IntentOK, Submitted
    <3>3. CASE j = i
      BY <1>3, <1>4, <2>5, <2>6, <2>7, <3>1, <3>2, <3>3 DEF IntentOK
    <3>4. CASE j # i
      BY <1>4, <2>5, <2>6, <2>7, <3>1, <3>2, <3>4 DEF IntentOK
    <3> QED
      BY <3>3, <3>4
  <2>10. Book' /\ Orders'
    <3>1. position.state \in Bought /\ "MANUAL_REVIEW" \notin Unsold
          /\ "MANUAL_REVIEW" \notin {"SETUP_DETECTED"} \cup FillPending
      BY <2>2 DEF Bought, States, Submitted, FillPending, Unsold
    <3>2. Book'
      BY <1>1, <1>4, <2>6, <2>7, <3>1 DEF StoreInv, Book, Unbooked
    <3> QED
      BY <1>1, <2>7, <2>9, <3>2 DEF StoreInv, Orders, OneUnbooked, OnePartial
  <2>11. KeepsOthers(t)
    <3>1. ASSUME NEW u \in Ticks \ {t}
          PROVE  ~(tick[u].pc \in Unanswered /\ tick[u].intent = i)
      BY <1>2, SubmitsAlone DEF Submitting, i
    <3>2. /\ \A j \in Sells : sell[j].published \in 0 .. Shares
          /\ buy.published \in 0 .. Shares
      BY <1>1 DEF StoreTypes, SellType
    <3>3. \A j \in Active \ {i} : j \in Active'
      BY <2>7
    <3>4. \A j \in Sells : intent[j].state # "none" => intent'[j].state # "none"
      BY <2>5
    <3> QED
      BY <1>4, <3>1, <3>2, <3>3, <3>4 DEF KeepsOthers
  <2> QED
    BY <1>1, <2>8, <2>9, <2>10, <2>11, TickStepKeeps DEF StoreInv
<1> QED
  BY <1>5, <1>6

-----------------------------------------------------------------------------
(* A fill of an exit is booked. *)

\* What Apply does when it does not raise, in terms of the intent it books
\* and of the state the row is booked from.
BookedFrom(t) ==
  IF position.state \in Submitted THEN position.state ELSE Target(tick[t].full)

LEMMA Booking ==
  ASSUME IInv, NEW t \in Ticks, Apply(t),
         intent' # intent \/ position' # position
  PROVE  \E n \in 0 .. Shares, done \in BOOLEAN :
           LET i == tick[t].intent
               full == tick[t].full
           IN  /\ i \in Active /\ position.state \in Eligible \cup Submitted
               /\ intent[i].confirmed <= n /\ n <= sell[i].published
               /\ tick[t].found = 0 => ~done
               /\ done => n = intent[i].qty /\ Legal(BookedFrom(t), Exited(full))
               /\ ~done => n = intent[i].confirmed \/ n < intent[i].qty
               /\ position' = [position EXCEPT
                    !.remaining = @ - (n - intent[i].confirmed),
                    !.state = IF done THEN Exited(full) ELSE BookedFrom(t)]
               /\ intent' = [intent EXCEPT
                    ![i].confirmed = n,
                    ![i].state = IF done THEN "CONFIRMED" ELSE @]
<1> USE PositionAssumption
<1> DEFINE i == tick[t].intent
           n == IF tick[t].found = 0 THEN Booked(t) ELSE tick[t].found
           done == tick[t].found > 0 /\ IsFilled(n, intent[i].qty)
<1>1. /\ StoreTypes /\ StoreInv /\ TickOK(t) /\ i \in Sells /\ tick[t].pc = "apply"
      /\ tick[t].found \in 0 .. Shares
  BY Types DEF IInv, TicksInv, Apply, At, TypeOK
<1>2. /\ intent[i].state # "none" /\ intent[i] \in IntentType /\ IntentOK(i)
      /\ tick[t].found <= sell[i].published
  BY <1>1 DEF TickOK, Resolving, StoreTypes, StoreInv, Orders
<1>3. /\ ~Terminal(i) /\ n >= Booked(t)
      /\ ~(position.state \notin Submitted /\ ~MaySubmit(tick[t].full))
      /\ ~(done /\ ~Legal(BookedFrom(t), Exited(tick[t].full)))
      /\ position' = [position EXCEPT
           !.remaining = @ - (n - Booked(t)),
           !.state = IF done THEN Exited(tick[t].full) ELSE BookedFrom(t)]
      /\ intent' = [intent EXCEPT
           ![i].confirmed = n, ![i].state = IF done THEN "CONFIRMED" ELSE @]
  BY <1>1, <1>2 DEF Apply, Sought, IntentType, Booked, BookedFrom
<1>4. i \in Active
  BY <1>1, <1>2, <1>3 DEF Active, Terminal, IntentType, IntentStates
<1>5. position.state \in Eligible \cup Submitted
  BY <1>3 DEF MaySubmit, Legal, Moves, From, Target, Eligible, Submitted
<1>6. /\ Booked(t) = intent[i].confirmed /\ Booked(t) \in 0 .. Shares
      /\ intent[i].qty \in 0 .. Shares /\ sell[i].published \in 0 .. Shares
      /\ sell[i].filled \in 0 .. Shares
      /\ intent[i].confirmed <= sell[i].published
      /\ sell[i].published <= sell[i].filled /\ sell[i].filled <= intent[i].qty
  BY <1>1, <1>2 DEF Booked, Sought, IntentType, StoreTypes, SellType, IntentOK
<1>7. n \in 0 .. Shares /\ intent[i].confirmed <= n /\ n <= sell[i].published
  BY <1>1, <1>2, <1>3, <1>6
<1>8. /\ done => n = intent[i].qty
      /\ ~done => n = intent[i].confirmed \/ n < intent[i].qty
  BY <1>1, <1>6, <1>7 DEF IsFilled
<1>9. done \in BOOLEAN /\ (tick[t].found = 0 => ~done)
  BY <1>1
<1> HIDE DEF n, done
<1>10. position' = [position EXCEPT
         !.remaining = @ - (n - intent[i].confirmed),
         !.state = IF done THEN Exited(tick[t].full) ELSE BookedFrom(t)]
  BY <1>3, <1>6
<1> QED
  BY <1>3, <1>4, <1>5, <1>7, <1>8, <1>9, <1>10

LEMMA ApplyKeeps ==
  ASSUME IInv, NEW t \in Ticks, Apply(t) PROVE IInv'
<1> USE PositionAssumption
<1> DEFINE i == tick[t].intent
<1>1. /\ StoreTypes /\ StoreInv /\ crashes \in 0 .. MaxCrashes /\ TickOK(t)
      /\ i \in Sells /\ tick[t].pc = "apply"
  BY Types DEF IInv, TicksInv, Apply, At, TypeOK
<1>2. OnlyTick(t) /\ TickOK(t)'
  <2>1. Ends(t) \/ Returns(t, position) \/ Returns(t, position')
    BY DEF Apply
  <2> QED
    BY <2>1, Returning DEF IInv
<1>3. UNCHANGED <<number, sell, buy, held, crashes>>
  BY DEF Apply, broker
<1>4. CASE intent' = intent /\ position' = position
  <2>1. UNCHANGED <<stores, broker>>
    BY <1>3, <1>4 DEF stores, broker
  <2> QED
    BY <1>1, <1>2, <1>3, <2>1, StoresStay, TickStepKeeps
<1>5. CASE intent' # intent \/ position' # position
  <2> DEFINE full == tick[t].full
             from == BookedFrom(t)
             confirmed == intent[i].confirmed
             qty == intent[i].qty
  <2>1. PICK n \in 0 .. Shares, done \in BOOLEAN :
          /\ i \in Active /\ position.state \in Eligible \cup Submitted
          /\ confirmed <= n /\ n <= sell[i].published
          /\ tick[t].found = 0 => ~done
          /\ done => n = qty /\ Legal(from, Exited(full))
          /\ ~done => n = confirmed \/ n < qty
          /\ position' = [position EXCEPT
               !.remaining = @ - (n - confirmed),
               !.state = IF done THEN Exited(full) ELSE from]
          /\ intent' = [intent EXCEPT
               ![i].confirmed = n, ![i].state = IF done THEN "CONFIRMED" ELSE @]
    BY <1>5, Booking
  <2>a. full \in BOOLEAN
    BY DEF IInv, TypeOK
  <2>b. /\ from \in Submitted
        /\ position.state \in Submitted => from = position.state
    BY <2>a DEF BookedFrom, Target, Submitted
  <2> HIDE DEF i, from, full
  <2>2. /\ intent[i] \in IntentType /\ IntentOK(i) /\ position \in PositionType
        /\ qty \in 0 .. Shares /\ confirmed \in 0 .. Shares
        /\ position.remaining \in 0 .. Shares
        /\ sell[i].published \in 0 .. Shares /\ sell[i].filled \in 0 .. Shares
        /\ held \in 0 .. Shares /\ intent[i].full \in BOOLEAN
    BY <1>1 DEF StoreTypes, StoreInv, Orders, IntentType, SellType, PositionType
  <2>3. /\ sell[i].published <= sell[i].filled /\ sell[i].filled <= qty
        /\ Used(i) /\ qty > 0
        /\ position.state \notin {"MANUAL_REVIEW", "CLOSED"}
        /\ position.state \notin Unsold
    BY <1>1, <2>1, <2>2 DEF IntentOK, Active, Used, Eligible, Submitted, StoreInv, Book
  <2>4. ASSUME NEW j \in Unbooked
        PROVE  position.state = Target(intent[j].full) /\ from = position.state
    <3>1. IntentOK(j)
      BY <1>1 DEF StoreInv, Orders, Unbooked
    <3>2. position.state = Target(intent[j].full)
      BY <2>3, <3>1 DEF IntentOK
    <3>3. position.state \in Submitted
      BY <3>2 DEF Target, Submitted
    <3> QED
      BY <2>b, <3>2, <3>3
  <2>5. ASSUME NEW j \in Sells, Used(j), intent[j].full
        PROVE  j \in Unbooked
    BY <1>1, <2>3, <2>5 DEF StoreInv, Orders, IntentOK
  <2>6. ASSUME NEW j \in Unbooked, done
        PROVE  full = intent[j].full /\ (intent[j].full => Exited(full) = "CLOSED")
    <3>1. Legal(Target(intent[j].full), Exited(full))
      BY <2>1, <2>4, <2>6
    <3>2. intent[j].full \in BOOLEAN
      BY <1>1 DEF StoreTypes, IntentType, Unbooked
    <3> QED
      BY <2>a, <3>1, <3>2 DEF Legal, Moves, Target, Exited
  <2>7. i \notin Unbooked => ~intent[i].full /\ confirmed = qty /\ n = qty
    BY <1>1, <2>1, <2>2, <2>3, <2>5 DEF Unbooked
  <2>8. i \in Unbooked =>
          /\ confirmed < qty /\ (done <=> n = qty)
          /\ held + sell[i].filled = position.remaining + confirmed
          /\ qty <= position.remaining + confirmed
          /\ intent[i].full => qty = position.remaining + confirmed
          /\ \A j \in Unbooked : j = i
    BY <1>1, <2>1, <2>2 DEF StoreInv, Orders, Book, OneUnbooked, Unbooked
  <2> DEFINE remaining == position.remaining - (n - confirmed)
             state == IF done THEN Exited(full) ELSE from
             istate == IF done THEN "CONFIRMED" ELSE intent[i].state
  <2>9. /\ remaining \in 0 .. Shares
        /\ i \notin Unbooked => remaining = position.remaining
        /\ i \in Unbooked =>
             /\ held + sell[i].filled = remaining + n
             /\ qty <= remaining + n
             /\ intent[i].full => qty = remaining + n
             /\ done => held = remaining
    <3> HIDE DEF confirmed, qty
    <3> QED
      BY <2>1, <2>2, <2>3, <2>7, <2>8
  <2>10. /\ state \in {"PARTIAL_EXIT_SUBMITTED", "EXIT_SUBMITTED", "PARTIAL_EXITED", "CLOSED"}
         /\ istate \in IntentStates
         /\ ~done => state = from /\ istate = intent[i].state
         /\ done => istate = "CONFIRMED" /\ state = Exited(full)
    BY <2>2, <2>b DEF Exited, Submitted, IntentStates, IntentType
  <2> HIDE DEF remaining, state, istate
  <2>11. /\ position'.state = state /\ position'.remaining = remaining
         /\ position' \in PositionType
    BY <2>1, <2>2, <2>9, <2>10 DEF PositionType, States, Eligible, Submitted, remaining, state
  <2>12. intent' = [intent EXCEPT ![i] = [intent[i] EXCEPT !.confirmed = n, !.state = istate]]
    BY <1>1, <2>1, <2>2 DEF istate, IntentType, StoreTypes
  <2>13. [intent[i] EXCEPT !.confirmed = n, !.state = istate] \in IntentType
    BY <2>2, <2>10 DEF IntentType
  <2>14. /\ intent' \in [Sells -> IntentType]
         /\ \A j \in Sells \ {i} : intent'[j] = intent[j]
         /\ intent'[i].state = istate /\ intent'[i].confirmed = n
         /\ intent'[i].qty = qty /\ intent'[i].full = intent[i].full
    BY <1>1, <2>2, <2>12, <2>13 DEF StoreTypes, IntentType
  <2>15. istate \notin {"none", "ABORTED"} /\ (istate = "CONFIRMED" => n = qty)
    BY <2>1, <2>10 DEF Active
  <2>16. /\ \A j \in Sells : /\ Used(j)' <=> Used(j)
                             /\ intent'[j].full = intent[j].full
         /\ \A j \in Sells \ {i} : j \in Unbooked' <=> j \in Unbooked
         /\ i \in Unbooked' <=> n < qty
    BY <1>1, <2>3, <2>14, <2>15 DEF Used, Unbooked
  <2> HIDE DEF confirmed, qty
  <2>17. Unbooked' = IF i \in Unbooked /\ done THEN {} ELSE Unbooked
    <3>1. Unbooked \subseteq Sells /\ Unbooked' \subseteq Sells
      BY DEF Unbooked
    <3>2. CASE i \in Unbooked
      <4>1. Unbooked = {i}
        BY <2>8, <3>2
      <4>2. n < qty <=> ~done
        BY <2>1, <2>2, <2>3, <2>8, <3>2
      <4> QED
        BY <2>16, <3>1, <4>1, <4>2
    <3>3. CASE i \notin Unbooked
      <4>1. i \notin Unbooked'
        BY <2>2, <2>7, <2>16, <3>3
      <4> QED
        <5>1. \A j \in Sells : j \in Unbooked' <=> j \in Unbooked
          BY <2>16, <3>3, <4>1
        <5> QED
          BY <3>1, <3>3, <5>1
    <3> QED
      BY <3>2, <3>3
  <2>18. StoreTypes' /\ crashes' \in 0 .. MaxCrashes
    BY <1>1, <1>3, <2>11, <2>14 DEF StoreTypes
  <2>19. ASSUME NEW j \in Sells, j \in Unbooked'
         PROVE  position'.state \in {Target(intent[j].full), "CLOSED"}
    <3>1. j \in Unbooked /\ ~(i \in Unbooked /\ done)
      BY <2>17, <2>19
    <3>2. CASE ~done
      BY <2>4, <2>10, <2>11, <3>1, <3>2
    <3>3. CASE done
      <4>1. i \notin Unbooked /\ ~intent[i].full
        BY <2>7, <3>1, <3>3
      <4>2. intent[j].full
        <5>1. Used(j)
          BY <3>1 DEF Unbooked
        <5> QED
          BY <1>1, <2>3, <3>1, <4>1, <5>1 DEF StoreInv, Orders, OnePartial
      <4> QED
        BY <2>6, <2>10, <2>11, <3>1, <3>3, <4>2
    <3> QED
      BY <3>2, <3>3
  <2>20. ASSUME NEW j \in Sells, Used(j), intent[j].full, j \notin Unbooked'
         PROVE  position'.state = "CLOSED"
    <3>1. j \in Unbooked
      BY <2>5, <2>20
    <3>2. done
      BY <2>17, <2>20, <3>1
    <3> QED
      BY <2>6, <2>10, <2>11, <2>20, <3>1, <3>2
  <2>21. ASSUME NEW j \in Sells PROVE IntentOK(j)'
    <3>1. IntentOK(j) /\ (Used(j)' <=> Used(j)) /\ intent'[j].full = intent[j].full
      BY <1>1, <2>16 DEF StoreInv, Orders
    <3>2. /\ j \in Unbooked' => position'.state \in {Target(intent'[j].full), "CLOSED"}
          /\ Used(j)' /\ intent'[j].full /\ j \notin Unbooked' => position'.state = "CLOSED"
      BY <2>19, <2>20, <3>1 DEF Target
    <3>3. CASE j = i
      BY <1>3, <2>1, <2>2, <2>3, <2>14, <2>15, <3>1, <3>2, <3>3 DEF IntentOK, Target, Used, qty
    <3>4. CASE j # i
      <4>1. intent[j].state # "ABORTED"
        BY <2>3, <3>1 DEF IntentOK
      <4> QED
        BY <1>3, <2>14, <3>1, <3>2, <3>4, <4>1 DEF IntentOK, Target
    <3> QED
      BY <3>3, <3>4
  <2>22. Orders'
    <3>1. OneUnbooked'
      BY <1>1, <2>17 DEF StoreInv, Orders, OneUnbooked
    <3>2. OnePartial'
      BY <1>1, <2>16 DEF StoreInv, Orders, OnePartial
    <3> QED
      BY <2>21, <3>1, <3>2 DEF Orders
  <2>23. Book'
    <3>1. position.state \in Bought
      BY <2>1, <2>3 DEF Bought, States, Eligible, Submitted, Unsold, FillPending
    <3>2. buy.filled = Shares /\ buy.published <= buy.filled
      BY <1>1, <3>1 DEF StoreInv, Book
    <3>3. state \notin Unsold /\ state \notin {"SETUP_DETECTED"} \cup FillPending
      BY <2>10 DEF Unsold, FillPending
    <3>4. Unbooked' = {} => held = remaining
      <4>1. CASE i \in Unbooked
        BY <2>9, <2>17, <4>1
      <4>2. CASE i \notin Unbooked
        BY <1>1, <2>9, <2>17, <3>1, <4>2 DEF StoreInv, Book
      <4> QED
        BY <4>1, <4>2
    <3>5. ASSUME NEW j \in Unbooked'
          PROVE  /\ held + sell[j].filled = remaining + intent'[j].confirmed
                 /\ intent'[j].qty <= remaining + intent'[j].confirmed
                 /\ intent'[j].full => intent'[j].qty = remaining + intent'[j].confirmed
      <4>1. j \in Unbooked /\ j \in Sells
        BY <2>17 DEF Unbooked
      <4>2. CASE j = i
        BY <2>9, <2>14, <4>1, <4>2
      <4>3. CASE j # i
        <5>1. i \notin Unbooked /\ intent'[j] = intent[j]
          BY <2>8, <2>14, <4>1, <4>3
        <5> QED
          BY <1>1, <2>9, <4>1, <5>1 DEF StoreInv, Book
      <4> QED
        BY <4>2, <4>3
    <3> QED
      BY <1>3, <2>11, <3>2, <3>3, <3>4, <3>5 DEF Book
  <2>24. KeepsOthers(t)
    <3>1. /\ \A j \in Sells : sell[j].published \in 0 .. Shares
          /\ buy.published \in 0 .. Shares
      BY <1>1 DEF StoreTypes, SellType
    <3>2. ~number[i] => ~done
      <4>1. tick[t].found > 0 => number[i]
        BY <1>1 DEF TickOK, i
      <4>2. tick[t].found \in 0 .. Shares
        BY DEF IInv, TypeOK
      <4> QED
        BY <2>1, <4>1, <4>2
    <3>3. \A j \in Active : ~number[j] => j \in Active'
      BY <2>10, <2>14, <3>2 DEF Active
    <3> QED
      BY <1>3, <2>16, <3>1, <3>3 DEF KeepsOthers, Used
  <2> QED
    BY <1>2, <2>18, <2>22, <2>23, <2>24, TickStepKeeps DEF StoreInv
<1> QED
  BY <1>4, <1>5

-----------------------------------------------------------------------------
(* The theorems. *)

LEMMA InitHolds == Init => IInv
<1> SUFFICES ASSUME Init PROVE IInv
  OBVIOUS
<1> USE PositionAssumption
<1>1. 0 \in 0 .. Shares /\ 0 \in 0 .. MaxCrashes /\ 1 \in Sells
  BY DEF Sells
<1>2. TypeOK
  <2>1. position \in [state : States, filled : 0 .. Shares,
                      remaining : 0 .. Shares, stop : BOOLEAN]
    BY <1>1 DEF Init, States
  <2>2. NoIntent \in IntentType /\ NoSell \in SellType /\ Idle \in TickType
    BY <1>1 DEF NoIntent, IntentType, IntentStates, NoSell, SellType, Places, Idle, TickType, Stages
  <2>3. intent \in [Sells -> IntentType] /\ sell \in [Sells -> SellType]
        /\ tick \in [Ticks -> TickType] /\ number \in [Sells -> BOOLEAN]
    BY <2>2 DEF Init
  <2> QED
    BY <1>1, <2>1, <2>3 DEF TypeOK, Init, IntentType, SellType, TickType
<1>3. \A i \in Sells : intent[i] = NoIntent /\ sell[i] = NoSell /\ ~number[i]
  BY DEF Init
<1>4. Unbooked = {} /\ \A i \in Sells : ~Used(i)
  BY <1>3 DEF Unbooked, Used, NoIntent
<1>5. StoreInv
  <2>1. \A i \in Sells : IntentOK(i)
    BY <1>3, <1>4 DEF IntentOK, NoIntent, NoSell, Used
  <2>2. Book
    BY <1>3, <1>4 DEF Init, Book, Bought, NoIntent
  <2> QED
    BY <1>4, <2>1, <2>2 DEF StoreInv, Orders, OneUnbooked, OnePartial
<1>6. TicksInv
  <2>1. \A t \in Ticks : tick[t].pc = "idle"
    BY DEF Init, Idle
  <2> QED
    BY <2>1 DEF TicksInv, OneSubmits, TickOK, Submitting, Unanswered, Resolving
<1> QED
  BY <1>2, <1>5, <1>6 DEF IInv

LEMMA TickKeeps ==
  ASSUME IInv, NEW t \in Ticks, TickStep(t) PROVE IInv'
<1>1. CASE Reads(t)
  BY <1>1, ReadsKeep
<1>2. CASE RecordFill(t)
  BY <1>2, RecordFillKeeps
<1>3. CASE Finalize(t)
  BY <1>3, FinalizeKeeps
<1>4. CASE MarkRequired(t) \/ MarkSubmitted(t) \/ MarkUnknown(t)
  BY <1>4, MarksKeep
<1>5. CASE Apply(t)
  BY <1>5, ApplyKeeps
<1>6. CASE Trail(t)
  BY <1>6, TrailKeeps
<1>7. CASE Resume(t)
  BY <1>7, ResumeKeeps
<1>8. CASE Reserve(t)
  BY <1>8, ReserveKeeps
<1>9. CASE Send(t)
  BY <1>9, SendKeeps
<1>10. CASE Answered(t, "accepted") \/ Answered(t, "refused")
  BY <1>10, AnsweredKeeps
<1>11. CASE AbortExit(t)
  BY <1>11, AbortExitKeeps
<1> QED
  BY <1>1, <1>2, <1>3, <1>4, <1>5, <1>6, <1>7, <1>8, <1>9, <1>10, <1>11
  DEF TickStep, Reconcile, Submit, Reads

LEMMA StepHolds == IInv /\ [Next]_vars => IInv'
<1> SUFFICES ASSUME IInv, [Next]_vars PROVE IInv'
  OBVIOUS
<1>1. CASE UNCHANGED vars
  <2>1. Active' = Active
    BY <1>1 DEF vars, Active
  <2>2. Unbooked' = Unbooked /\ \A i \in Sells : Used(i)' <=> Used(i)
    BY <1>1 DEF vars, Unbooked, Used
  <2> QED
    BY <1>1, <2>1, <2>2 DEF vars, IInv, TypeOK, StoreInv, Orders, TicksInv, IntentOK, OneUnbooked, OnePartial, Book, OneSubmits, TickOK, Target
<1>2. CASE EntrySubmitted \/ BuyFills \/ BuyIsPublished
  BY <1>2, EntrySubmittedKeeps, BuyFillsKeeps, BuyIsPublishedKeeps
<1>3. ASSUME NEW t \in Ticks, TickStep(t) \/ Crash(t) PROVE IInv'
  BY <1>3, TickKeeps, CrashKeeps
<1>4. ASSUME NEW i \in Sells, Market(i) PROVE IInv'
  BY <1>4, LandKeeps, FillKeeps, PublishKeeps, EndOfDayKeeps DEF Market
<1> QED
  BY <1>1, <1>2, <1>3, <1>4 DEF Next

\* The invariant holds for any number of ticks, shares, exits and crashes.
THEOREM PositionInvariance == Spec => []IInv
BY InitHolds, StepHolds, PTL DEF Spec

\* The rows, the orders and the ticks keep their types: no row claims less
\* than no share or more than were bought, although a fill is looked up
\* outside the lock and booked under it.
THEOREM TypeCorrect == Spec => []TypeOK
<1>1. IInv => TypeOK
  BY DEF IInv
<1> QED
  BY <1>1, PositionInvariance, PTL

\* A SELL that can still execute has an active intent or its position waits
\* for the operator: lookups that find nothing, late answers and ticks that
\* die never leave an order at work behind a row that may be sold again.
THEOREM WorkingOwned == Spec => []WorkingIsOwned
<1>1. IInv => WorkingIsOwned
  <2> SUFFICES ASSUME IInv, NEW i \in Working, i \notin Active
               PROVE  position.state = "MANUAL_REVIEW"
    BY DEF WorkingIsOwned
  <2>1. StoreTypes /\ IntentOK(i) /\ i \in Sells /\ sell[i].at \in {"wire", "open"}
    BY Types DEF IInv, StoreInv, Orders, Working
  <2>2. /\ intent[i].state \in IntentStates /\ intent[i].state # "none"
        /\ intent[i].qty > 0
        /\ sell[i].filled \in 0 .. Shares /\ sell[i].published \in 0 .. Shares
        /\ intent[i].qty \in 0 .. Shares /\ intent[i].confirmed \in 0 .. Shares
    BY <2>1 DEF IntentOK, NoSell, StoreTypes, IntentType, SellType
  <2>3. sell[i].filled < intent[i].qty
    BY <2>1, <2>2 DEF IntentOK
  <2>4. intent[i].confirmed <= sell[i].published /\ sell[i].published <= sell[i].filled
    BY <2>1 DEF IntentOK
  <2>5. intent[i].confirmed # intent[i].qty
    BY <2>2, <2>3, <2>4, PositionAssumption
  <2>6. intent[i].state # "CONFIRMED"
    BY <2>1, <2>5 DEF IntentOK
  <2>7. intent[i].state = "ABORTED"
    BY <2>1, <2>2, <2>6 DEF Active, IntentStates
  <2> QED
    BY <2>1, <2>7 DEF IntentOK
<1> QED
  BY <1>1, PositionInvariance, PTL

\* An active intent never asks for more than the broker still holds.
THEOREM ReservedHeld == Spec => []ReservedIsHeld
<1>1. IInv => ReservedIsHeld
  <2> SUFFICES ASSUME IInv, NEW i \in Active
               PROVE  intent[i].qty - sell[i].filled <= held
    BY DEF ReservedIsHeld
  <2>1. StoreTypes /\ StoreInv /\ i \in Sells
    BY Types DEF IInv, Active
  <2>2. /\ intent[i].qty \in 0 .. Shares /\ intent[i].confirmed \in 0 .. Shares
        /\ sell[i].filled \in 0 .. Shares /\ held \in 0 .. Shares
        /\ position.remaining \in 0 .. Shares
    BY <2>1 DEF StoreTypes, IntentType, SellType, PositionType
  <2>3. CASE i \in Unbooked
    <3>1. /\ held + sell[i].filled = position.remaining + intent[i].confirmed
          /\ intent[i].qty <= position.remaining + intent[i].confirmed
      BY <2>1, <2>3 DEF StoreInv, Book
    <3> QED
      BY <2>2, <3>1, PositionAssumption
  <2>4. CASE i \notin Unbooked
    <3>1. intent[i].confirmed >= intent[i].qty
      BY <2>1, <2>2, <2>4, PositionAssumption DEF Unbooked, Used, Active
    <3>2. intent[i].confirmed <= sell[i].published /\ sell[i].published <= sell[i].filled
      BY <2>1 DEF StoreInv, Orders, IntentOK
    <3>3. sell[i].published \in 0 .. Shares
      BY <2>1 DEF StoreTypes, SellType
    <3> QED
      BY <2>2, <3>1, <3>2, <3>3, PositionAssumption
  <2> QED
    BY <2>3, <2>4
<1> QED
  BY <1>1, PositionInvariance, PTL

\* Only a booking closes a position.
LEMMA OnlyBookingCloses ==
  ASSUME IInv, [Next]_vars, position.state # "CLOSED", position'.state = "CLOSED"
  PROVE  \E t \in Ticks : Apply(t)
<1>1. position \in PositionType
  BY Types DEF IInv, StoreTypes
<1>2. /\ ~UNCHANGED position
      /\ \A s \in States \ {"CLOSED"} : ~SetState(s)
      /\ \A b : ~(position' = [position EXCEPT !.stop = b])
  BY <1>1 DEF SetState, PositionType
<1>3. {"ENTRY_SUBMITTED", "TRAILING", "MANUAL_REVIEW", Target(TRUE),
       Target(FALSE)} \subseteq States \ {"CLOSED"}
  BY DEF States, Eligible, FillPending, Submitted, Target
<1>4. ~EntrySubmitted /\ ~BuyFills /\ ~BuyIsPublished /\ \A i \in Sells : ~Market(i)
  BY <1>2, <1>3 DEF EntrySubmitted, BuyFills, BuyIsPublished, Market, Land, Fill, Publish, EndOfDay, stores
<1>5. ASSUME NEW t \in Ticks PROVE ~(TickStep(t) \/ Crash(t)) \/ Apply(t)
  <2>1. ~Crash(t) /\ ~Reads(t)
    BY <1>2 DEF Crash, Reads, ReadHoldings, Load, FindFill, FindNothing, FindIntent, LookUp, LookUpBook, LookUpNothing, Decide, Execute, ReserveNothing, CheckBroker, Refused, Raises, TestRequired, TestSubmitted, TestUnknown, Test, stores
  <2>2. ~RecordFill(t)
    <3> SUFFICES ASSUME RecordFill(t) PROVE FALSE
      OBVIOUS
    <3>1. position' = [position EXCEPT
               !.filled = tick[t].found, !.remaining = tick[t].found,
               !.state = IF tick[t].found = Shares THEN "STOP_ACTIVE"
                         ELSE "PARTIALLY_FILLED"]
      BY <1>2 DEF RecordFill
    <3> QED
      BY <1>1, <3>1 DEF PositionType
  <2>3. ~Finalize(t) /\ ~Trail(t) /\ ~AbortExit(t)
    BY <1>2, <1>3 DEF Finalize, Trail, AbortExit
  <2>4. ~Resume(t) /\ ~Reserve(t)
    <3>1. \A full : Target(full) \in States \ {"CLOSED"}
      BY DEF Target, States, Submitted
    <3> QED
      BY <1>2, <3>1 DEF Resume, Reserve
  <2>5. ~MarkRequired(t) /\ ~MarkSubmitted(t) /\ ~MarkUnknown(t) /\ ~Send(t)
        /\ ~Answered(t, "accepted") /\ ~Answered(t, "refused")
    BY <1>2 DEF MarkRequired, MarkSubmitted, MarkUnknown, Write, Send, Answered, stores
  <2> QED
    BY <2>1, <2>2, <2>3, <2>4, <2>5 DEF TickStep, Reconcile, Submit, Reads
<1>6. ~UNCHANGED vars
  BY <1>2 DEF vars
<1> QED
  BY <1>4, <1>5, <1>6 DEF Next

\* The step that closes a position books the last of its shares, unless all
\* of that intent's were booked before and a late mark brought it back.
THEOREM ClosesSold == Spec => ClosesWhatIsSold
<1> DEFINE Closing ==
      position.state # "CLOSED" /\ position'.state = "CLOSED"
        => \/ held = 0
           \/ \E i \in Active : intent[i].confirmed = intent[i].qty /\ Terminal(i)'
<1>1. ASSUME IInv, [Next]_vars PROVE Closing
  <2> SUFFICES ASSUME position.state # "CLOSED", position'.state = "CLOSED",
                      ~(held = 0)
               PROVE  \E i \in Active :
                        intent[i].confirmed = intent[i].qty /\ Terminal(i)'
    OBVIOUS
  <2>1. PICK t \in Ticks : Apply(t)
    BY <1>1, OnlyBookingCloses
  <2> DEFINE i == tick[t].intent
             full == tick[t].full
  <2>2. PICK n \in 0 .. Shares, done \in BOOLEAN :
          /\ i \in Active /\ position.state \in Eligible \cup Submitted
          /\ intent[i].confirmed <= n /\ n <= sell[i].published
          /\ done => n = intent[i].qty /\ Legal(BookedFrom(t), Exited(full))
          /\ position' = [position EXCEPT
               !.remaining = @ - (n - intent[i].confirmed),
               !.state = IF done THEN Exited(full) ELSE BookedFrom(t)]
          /\ intent' = [intent EXCEPT
               ![i].confirmed = n, ![i].state = IF done THEN "CONFIRMED" ELSE @]
    <3>1. intent' # intent \/ position' # position
      OBVIOUS
    <3> QED
      BY <1>1, <2>1, <3>1, Booking
  <2>3. StoreTypes /\ StoreInv /\ IntentOK(i) /\ i \in Sells
    BY <1>1, <2>2, Types DEF IInv, StoreInv, Orders, Active
  <2>4. BookedFrom(t) # "CLOSED"
    BY <2>2 DEF BookedFrom, Target, Submitted
  <2>5. done /\ Exited(full) = "CLOSED" /\ Legal(BookedFrom(t), "CLOSED")
    <3>1. position'.state = IF done THEN Exited(full) ELSE BookedFrom(t)
      BY <2>2, <2>3 DEF StoreTypes, PositionType
    <3>2. done
      BY <2>4, <3>1
    <3> QED
      BY <2>2, <3>1, <3>2
  <2>6. BookedFrom(t) = "EXIT_SUBMITTED"
    BY <2>5 DEF Legal, Moves
  <2>7. /\ intent[i].confirmed \in 0 .. Shares /\ intent[i].qty \in 0 .. Shares
        /\ sell[i].published \in 0 .. Shares /\ sell[i].filled \in 0 .. Shares
        /\ held \in 0 .. Shares /\ position.remaining \in 0 .. Shares
        /\ n = intent[i].qty
    BY <2>2, <2>3, <2>5 DEF StoreTypes, IntentType, SellType, PositionType
  <2>8. intent[i].confirmed <= sell[i].published /\ sell[i].published <= sell[i].filled
        /\ sell[i].filled <= intent[i].qty
    BY <2>3 DEF IntentOK
  <2>9. i \notin Unbooked
    <3> SUFFICES ASSUME i \in Unbooked PROVE FALSE
      OBVIOUS
    <3>1. position.state \in {Target(intent[i].full), "MANUAL_REVIEW", "CLOSED"}
      BY <2>3 DEF IntentOK
    <3>2. position.state \in Submitted /\ BookedFrom(t) = position.state
      BY <2>2, <3>1 DEF BookedFrom, Target, Eligible, Submitted
    <3>3. intent[i].full
      BY <2>6, <3>1, <3>2 DEF Target
    <3>4. /\ held + sell[i].filled = position.remaining + intent[i].confirmed
          /\ intent[i].qty = position.remaining + intent[i].confirmed
      BY <2>3, <3>3 DEF StoreInv, Book
    <3>5. sell[i].filled = intent[i].qty
      BY <2>2, <2>7, <2>8, PositionAssumption
    <3> QED
      BY <2>7, <3>4, <3>5, PositionAssumption
  <2>10. intent[i].confirmed = intent[i].qty
    <3>1. ~(intent[i].confirmed < intent[i].qty)
      BY <2>2, <2>3, <2>9 DEF Unbooked, Used, Active
    <3> QED
      BY <2>7, <2>8, <3>1, PositionAssumption
  <2>11. intent'[i].state = "CONFIRMED"
    BY <2>2, <2>3, <2>5 DEF StoreTypes, IntentType
  <2>12. PICK j \in Active : j = i
    BY <2>2
  <2> HIDE DEF i
  <2>13. Terminal(j)'
    BY <2>11, <2>12 DEF Terminal
  <2> QED
    BY <2>10, <2>12, <2>13
<1>2. ASSUME IInv, [Next]_vars PROVE [Closing]_vars
  BY <1>1, <1>2
<1> QED
  BY <1>2, PositionInvariance, PTL DEF Spec, ClosesWhatIsSold

-----------------------------------------------------------------------------
(* That fills are booked once.  A sum over the intents is out of the        *)
(* provers' reach; it is as large as the set of the shares it counts, and   *)
(* of that set one step changes one intent's part.                          *)

\* A set of naturals that is not empty has a least element.
LEMMA LeastNat ==
  ASSUME NEW T \in SUBSET Nat, T # {}
  PROVE  \E x \in T : \A y \in T : x <= y
<1>1. PICK x \in T : \A y \in T : ~(<<y, x>> \in OpToRel(<, Nat))
  BY NatLessThanWellFounded, WFMin
<1>2. \A y \in T : ~(y < x)
  BY <1>1 DEF OpToRel
<1>3. \A y \in T : x <= y
  BY <1>2
<1> QED
  BY <1>3

\* MapThenSumSet sums over a set by taking one element of it at a time.
Pick(s) == CHOOSE y \in s : TRUE
SumOf(g) ==
  [s \in SUBSET Sells |->
     IF s = {} THEN 0 ELSE intent[Pick(s)].confirmed + g[s \ {Pick(s)}]]

\* Such a sum is the only one.
LEMMA OneSum ==
  ASSUME NEW g, NEW h, g = SumOf(g), h = SumOf(h)
  PROVE  g = h
<1> DEFINE Bad == {n \in Nat : \E s \in SUBSET Sells :
                     Cardinality(s) = n /\ g[s] # h[s]}
<1>0. \A s \in SUBSET Sells : IsFiniteSet(s) /\ Cardinality(s) \in Nat
  <2>1. IsFiniteSet(Sells)
    BY FS_Interval, PositionAssumption DEF Sells
  <2> QED
    BY <2>1, FS_Subset, FS_CardinalityType
<1>1. ASSUME NEW s \in SUBSET Sells, s # {},
             g[s \ {Pick(s)}] = h[s \ {Pick(s)}]
      PROVE  g[s] = h[s]
  BY <1>1 DEF SumOf
<1>2. g[{}] = h[{}]
  <2>1. {} \in SUBSET Sells
    OBVIOUS
  <2> QED
    BY <2>1 DEF SumOf
<1>3. Bad = {}
  <2> SUFFICES ASSUME Bad # {} PROVE FALSE
    OBVIOUS
  <2>1. PICK n \in Bad : \A m \in Bad : n <= m
    BY LeastNat
  <2>2. PICK s \in SUBSET Sells : Cardinality(s) = n /\ g[s] # h[s]
    OBVIOUS
  <2>3. s # {} /\ Pick(s) \in s
    BY <1>2, <2>2 DEF Pick
  <2>4. /\ s \ {Pick(s)} \in SUBSET Sells
        /\ Cardinality(s \ {Pick(s)}) = n - 1 /\ Cardinality(s \ {Pick(s)}) \in Nat
    BY <1>0, <2>2, <2>3, FS_RemoveElement
  <2>5. n - 1 \in Bad
    BY <1>1, <2>2, <2>3, <2>4
  <2> QED
    BY <2>1, <2>4, <2>5
<1>4. \A s \in SUBSET Sells : g[s] = h[s]
  BY <1>0, <1>3
<1> QED
  BY <1>4 DEF SumOf

\* What is confirmed; and the shares that the intents of s have confirmed,
\* one by one.
Confirmed == [i \in Sells |-> intent[i].confirmed]
Units(f, s) == {u \in s \X (1 .. Shares) : u[2] <= f[u[1]]}

LEMMA UnitsType ==
  ASSUME NEW f, NEW s \in SUBSET Sells
  PROVE  IsFiniteSet(Units(f, s)) /\ Cardinality(Units(f, s)) \in Nat
<1>1. IsFiniteSet(Sells) /\ IsFiniteSet(1 .. Shares)
  BY FS_Interval, PositionAssumption DEF Sells
<1>2. IsFiniteSet(s \X (1 .. Shares))
  BY <1>1, FS_Subset, FS_Product
<1> QED
  BY <1>2, FS_Subset, FS_CardinalityType DEF Units

\* One intent's shares beside those of the others.
LEMMA UnitsSplit ==
  ASSUME NEW f \in [Sells -> 0 .. Shares], NEW s \in SUBSET Sells, NEW x \in s
  PROVE  Cardinality(Units(f, s)) =
           f[x] + Cardinality(Units(f, s \ {x}))
<1> DEFINE c == f[x]
           own == {x} \X (1 .. c)
<1>1. c \in 0 .. Shares
  OBVIOUS
<1>2. IsFiniteSet(own) /\ Cardinality(own) = c
  <2>1. IsFiniteSet(1 .. c) /\ Cardinality(1 .. c) = c
    <3> HIDE DEF c, own
    <3>1. c \in Int /\ 1 \in Int /\ c >= 0
      BY <1>1, PositionAssumption
    <3>2. /\ IsFiniteSet(1 .. c)
          /\ Cardinality(1 .. c) = IF 1 > c THEN 0 ELSE c - 1 + 1
      BY <3>1, FS_Interval
    <3> QED
      BY <3>1, <3>2
  <2> DEFINE one == {x}
             nums == 1 .. c
  <2>2. IsFiniteSet(one) /\ Cardinality(one) = 1
    BY FS_Singleton
  <2> HIDE DEF one, nums
  <2>3. IsFiniteSet(nums) /\ Cardinality(nums) = c
    BY <2>1 DEF nums
  <2>4. /\ IsFiniteSet(one \X nums)
        /\ Cardinality(one \X nums) = Cardinality(one) * Cardinality(nums)
    BY <2>2, <2>3, FS_Product
  <2>5. IsFiniteSet(one \X nums) /\ Cardinality(one \X nums) = c
    <3> HIDE DEF c
    <3>1. c \in Int /\ 1 * c = c
      BY <1>1, PositionAssumption
    <3> QED
      BY <2>2, <2>3, <2>4, <3>1
  <2> QED
    BY <2>5 DEF one, nums
<1>3. /\ Units(f, s) = own \cup Units(f, s \ {x})
      /\ own \cap Units(f, s \ {x}) = {}
  BY <1>1, PositionAssumption DEF Units
<1>4. IsFiniteSet(Units(f, s \ {x})) /\ Cardinality(Units(f, s \ {x})) \in Nat
  BY UnitsType
<1> HIDE DEF own, c
<1>5. Cardinality({}) = 0
  BY FS_EmptySet
<1>6. Cardinality(Units(f, s)) = Cardinality(own) + Cardinality(Units(f, s \ {x})) - 0
  <2> DEFINE rest == Units(f, s \ {x})
  <2> HIDE DEF rest
  <2>1. IsFiniteSet(own) /\ IsFiniteSet(rest)
    BY <1>2, <1>4 DEF rest
  <2>2. Cardinality(own \cup rest) =
          Cardinality(own) + Cardinality(rest) - Cardinality(own \cap rest)
    BY <2>1, FS_Union
  <2> QED
    BY <1>3, <1>5, <2>2 DEF rest
<1> QED
  BY <1>1, <1>2, <1>4, <1>6, PositionAssumption DEF c

\* What the intents have confirmed together is the number of those shares.
LEMMA SumIsCount ==
  ASSUME StoreTypes
  PROVE  MapThenSumSet(LAMBDA i : intent[i].confirmed, Sells)
           = Cardinality(Units(Confirmed, Sells))
<1>0. Confirmed \in [Sells -> 0 .. Shares]
  BY DEF StoreTypes, IntentType, Confirmed
<1> DEFINE count == [s \in SUBSET Sells |-> Cardinality(Units(Confirmed, s))]
           total == CHOOSE g : g = SumOf(g)
<1>1. count = SumOf(count)
  <2>1. Units(Confirmed, {}) = {}
    BY DEF Units, Confirmed
  <2>2. Cardinality(Units(Confirmed, {})) = 0
    BY <2>1, FS_EmptySet
  <2>3. \A s \in SUBSET Sells : s # {} =>
          Cardinality(Units(Confirmed, s)) =
            intent[Pick(s)].confirmed + Cardinality(Units(Confirmed, s \ {Pick(s)}))
    <3> SUFFICES ASSUME NEW s \in SUBSET Sells, s # {}
                 PROVE  Cardinality(Units(Confirmed, s)) =
                          intent[Pick(s)].confirmed
                            + Cardinality(Units(Confirmed, s \ {Pick(s)}))
      OBVIOUS
    <3>1. Pick(s) \in s /\ Pick(s) \in Sells
      BY DEF Pick
    <3>2. Confirmed[Pick(s)] = intent[Pick(s)].confirmed
      BY <3>1 DEF Confirmed
    <3> QED
      BY <1>0, <3>1, <3>2, UnitsSplit
  <2> QED
    BY <2>2, <2>3 DEF SumOf
<1>2. total = SumOf(total)
  BY <1>1
<1>3. total = count
  BY <1>1, <1>2, OneSum
<1>4. MapThenSumSet(LAMBDA i : intent[i].confirmed, Sells) = total[Sells]
  BY DEF MapThenSumSet, MapThenFoldSet, SumOf, Pick
<1> HIDE DEF total
<1> QED
  BY <1>3, <1>4

\* What left the row is booked share by share.
FillsInv == position.filled - position.remaining = Cardinality(Units(Confirmed, Sells))

\* A step that books nothing.
LEMMA NothingBooked ==
  ASSUME FillsInv, \A i \in Sells : intent'[i].confirmed = intent[i].confirmed,
         position'.filled = position.filled,
         position'.remaining = position.remaining
  PROVE  FillsInv'
<1>1. Confirmed' = Confirmed
  BY DEF Confirmed
<1> QED
  BY <1>1 DEF FillsInv

\* The steps that leave what the row claims and what is confirmed alone.
LEMMA OthersBookNothing ==
  ASSUME IInv, FillsInv, NEW t \in Ticks,
         \/ Reads(t) \/ MarkRequired(t) \/ MarkSubmitted(t) \/ MarkUnknown(t)
         \/ Trail(t) \/ Resume(t) \/ Finalize(t) \/ Reserve(t) \/ Send(t)
         \/ Answered(t, "accepted") \/ Answered(t, "refused") \/ AbortExit(t)
         \/ Crash(t)
  PROVE  FillsInv'
<1>1. StoreTypes /\ \A i \in Sells : IntentOK(i)
  BY Types DEF IInv, StoreInv, Orders
<1>2. position \in PositionType /\ intent \in [Sells -> IntentType]
  BY <1>1 DEF StoreTypes
<1>3. \/ position' = position
      \/ \E s : position' = [position EXCEPT !.state = s]
      \/ \E b : position' = [position EXCEPT !.stop = b]
  <2>1. CASE Reads(t)
    BY <2>1 DEF Reads, ReadHoldings, Load, FindFill, FindNothing, FindIntent, LookUp, LookUpBook, LookUpNothing, Decide, Execute, ReserveNothing, CheckBroker, Refused, Raises, TestRequired, TestSubmitted, TestUnknown, Test, stores
  <2>2. CASE Finalize(t)
    BY <2>2 DEF Finalize
  <2>3. CASE \/ MarkRequired(t) \/ MarkSubmitted(t) \/ MarkUnknown(t) \/ Send(t)
             \/ Answered(t, "accepted") \/ Answered(t, "refused") \/ Crash(t)
    BY <2>3 DEF MarkRequired, MarkSubmitted, MarkUnknown, Write, Send, Answered, Crash, stores
  <2>4. CASE Trail(t) \/ Resume(t) \/ Reserve(t) \/ AbortExit(t)
    BY <2>4 DEF Trail, Resume, Reserve, AbortExit, SetState
  <2> QED
    BY <2>1, <2>2, <2>3, <2>4
<1>4. /\ position'.filled = position.filled
      /\ position'.remaining = position.remaining
  BY <1>2, <1>3 DEF PositionType
<1>5. \/ intent' = intent
      \/ \E i \in Sells : \E s : intent' = [intent EXCEPT ![i].state = s]
      \/ Reserve(t)
  <2>1. Sought(t) \in Sells
    BY DEF IInv, TypeOK, Sought
  <2>2. CASE Reads(t)
    BY <2>2 DEF Reads, ReadHoldings, Load, FindFill, FindNothing, FindIntent, LookUp, LookUpBook, LookUpNothing, Decide, Execute, ReserveNothing, CheckBroker, Refused, Raises, TestRequired, TestSubmitted, TestUnknown, Test, stores
  <2>3. CASE MarkRequired(t) \/ MarkSubmitted(t) \/ MarkUnknown(t) \/ AbortExit(t)
    BY <2>1, <2>3 DEF MarkRequired, MarkSubmitted, MarkUnknown, Write, AbortExit, Overwrite
  <2>4. CASE \/ Trail(t) \/ Resume(t) \/ Finalize(t) \/ Send(t)
             \/ Answered(t, "accepted") \/ Answered(t, "refused") \/ Crash(t)
    BY <2>4 DEF Trail, Resume, Finalize, Send, Answered, Crash, stores
  <2> QED
    BY <2>2, <2>3, <2>4
<1>6. \A i \in Sells : intent'[i].confirmed = intent[i].confirmed
  <2>1. CASE intent' = intent
    BY <2>1
  <2>2. ASSUME NEW i \in Sells, NEW s, intent' = [intent EXCEPT ![i].state = s]
        PROVE  \A j \in Sells : intent'[j].confirmed = intent[j].confirmed
    BY <1>2, <2>2 DEF IntentType
  <2>3. CASE Reserve(t)
    <3> DEFINE new == [state |-> "RESERVED", qty |-> Quantity(tick[t].full),
                       confirmed |-> 0, full |-> tick[t].full]
    <3>1. PICK i \in Sells :
            intent[i].state = "none" /\ intent' = [intent EXCEPT ![i] = new]
      BY <2>3 DEF Reserve
    <3>2. intent[i].confirmed = 0
      BY <1>1, <3>1 DEF IntentOK, NoIntent
    <3>3. new.confirmed = 0
      OBVIOUS
    <3> HIDE DEF new
    <3> QED
      BY <1>2, <3>1, <3>2, <3>3
  <2> QED
    BY <1>5, <2>1, <2>2, <2>3
<1> QED
  BY <1>4, <1>6, NothingBooked

\* What has been recorded of the buy is what there is to sell.
LEMMA RecordFillBooks ==
  ASSUME IInv, FillsInv, NEW t \in Ticks, RecordFill(t)
  PROVE  FillsInv'
<1> USE PositionAssumption
<1>1. StoreTypes /\ StoreInv
  BY Types DEF IInv
<1>2. CASE ~Recordable(t)
  <2>1. position' = position /\ intent' = intent
    BY <1>2 DEF RecordFill
  <2> QED
    BY <2>1, NothingBooked
<1>3. CASE Recordable(t)
  <2>1. /\ position' = [position EXCEPT !.filled = tick[t].found,
             !.remaining = tick[t].found,
             !.state = IF tick[t].found = Shares THEN "STOP_ACTIVE"
                       ELSE "PARTIALLY_FILLED"]
        /\ intent' = intent /\ position.state \in FillPending
    BY <1>3 DEF RecordFill, Recordable
  <2>2. position \in PositionType /\ tick[t].found \in 0 .. Shares
    BY <1>1 DEF StoreTypes, IInv, TypeOK
  <2>3. position'.filled - position'.remaining = 0
    BY <2>1, <2>2 DEF PositionType
  <2>4. \A i \in Sells : intent[i].confirmed = 0
    BY <1>1, <2>1 DEF StoreInv, Orders, Book, Unsold, Used, IntentOK, NoIntent
  <2>5. Units(Confirmed', Sells) = {}
    BY <2>1, <2>4 DEF Units, Confirmed
  <2> QED
    BY <2>3, <2>5, FS_EmptySet DEF FillsInv
<1> QED
  BY <1>2, <1>3

\* A tick books what its intent has not confirmed yet.
LEMMA ApplyBooks ==
  ASSUME IInv, FillsInv, NEW t \in Ticks, Apply(t)
  PROVE  FillsInv'
<1> USE PositionAssumption
<1>1. StoreTypes
  BY Types DEF IInv
<1>2. CASE intent' = intent /\ position' = position
  BY <1>2, NothingBooked
<1>3. CASE intent' # intent \/ position' # position
  <2> DEFINE i == tick[t].intent
  <2>1. PICK n \in 0 .. Shares, done \in BOOLEAN :
          /\ i \in Active
          /\ position' = [position EXCEPT
               !.remaining = @ - (n - intent[i].confirmed),
               !.state = IF done THEN Exited(tick[t].full) ELSE BookedFrom(t)]
          /\ intent' = [intent EXCEPT
               ![i].confirmed = n, ![i].state = IF done THEN "CONFIRMED" ELSE @]
    BY <1>3, Booking
  <2> HIDE DEF i
  <2>2. /\ i \in Sells /\ intent \in [Sells -> IntentType]
        /\ position \in PositionType
        /\ intent[i].confirmed \in 0 .. Shares
        /\ position.remaining \in 0 .. Shares /\ position.filled \in 0 .. Shares
    BY <1>1, <2>1 DEF Active, StoreTypes, IntentType, PositionType
  <2>3. /\ intent'[i].confirmed = n
        /\ \A j \in Sells \ {i} : intent'[j] = intent[j]
    BY <2>1, <2>2 DEF IntentType
  <2>4. /\ position'.filled = position.filled
        /\ position'.remaining = position.remaining - (n - intent[i].confirmed)
    BY <2>1, <2>2 DEF PositionType
  <2> DEFINE others == Cardinality(Units(Confirmed, Sells \ {i}))
  <2>5. Units(Confirmed', Sells \ {i}) = Units(Confirmed, Sells \ {i})
    BY <2>3 DEF Units, Confirmed
  <2>6. /\ Confirmed \in [Sells -> 0 .. Shares] /\ Confirmed[i] = intent[i].confirmed
        /\ Confirmed' \in [Sells -> 0 .. Shares] /\ Confirmed'[i] = n
    BY <1>1, <2>2, <2>3 DEF Confirmed, StoreTypes, IntentType
  <2>7. /\ Cardinality(Units(Confirmed, Sells)) = intent[i].confirmed + others
        /\ Cardinality(Units(Confirmed', Sells)) = n + others
        /\ others \in Nat
    BY <2>2, <2>5, <2>6, UnitsSplit, UnitsType
  <2> HIDE DEF others
  <2> QED
    BY <2>2, <2>4, <2>7 DEF FillsInv
<1> QED
  BY <1>2, <1>3

LEMMA FillsStep == IInv /\ FillsInv /\ [Next]_vars => FillsInv'
<1> SUFFICES ASSUME IInv, FillsInv, [Next]_vars PROVE FillsInv'
  OBVIOUS
<1>1. CASE UNCHANGED vars
  BY <1>1, NothingBooked DEF vars
<1>2. CASE BuyFills \/ BuyIsPublished \/ \E i \in Sells : Market(i)
  <2>1. position' = position /\ intent' = intent
    BY <1>2 DEF BuyFills, BuyIsPublished, Market, Land, Fill, Publish, EndOfDay, stores
  <2> QED
    BY <2>1, NothingBooked
<1>3. CASE EntrySubmitted
  <2>1. position \in PositionType
    BY Types DEF IInv, StoreTypes
  <2>2. /\ position'.filled = position.filled
        /\ position'.remaining = position.remaining /\ intent' = intent
    BY <1>3, <2>1 DEF EntrySubmitted, SetState, PositionType
  <2> QED
    BY <2>2, NothingBooked
<1>4. ASSUME NEW t \in Ticks, TickStep(t) \/ Crash(t) PROVE FillsInv'
  BY <1>4, OthersBookNothing, RecordFillBooks, ApplyBooks
  DEF TickStep, Reconcile, Submit, Reads
<1> QED
  BY <1>1, <1>2, <1>3, <1>4 DEF Next

\* Every published share is booked once, whichever ticks see it how often:
\* what left the row is the sum of what its intents have confirmed, and no
\* intent confirms more than the broker has published of its SELL.
THEOREM FillsBooked == Spec => []FillsBookedOnce
<1>1. Init => FillsInv
  <2> SUFFICES ASSUME Init PROVE FillsInv
    OBVIOUS
  <2>1. Units(Confirmed, Sells) = {}
    BY PositionAssumption DEF Init, Units, Confirmed, NoIntent
  <2>2. position.filled - position.remaining = 0
    BY DEF Init
  <2> QED
    BY <2>1, <2>2, FS_EmptySet DEF FillsInv
<1>2. IInv /\ FillsInv => FillsBookedOnce
  <2> SUFFICES ASSUME IInv, FillsInv PROVE FillsBookedOnce
    OBVIOUS
  <2>1. StoreTypes /\ \A i \in Sells : intent[i].confirmed <= sell[i].published
    BY Types DEF IInv, StoreInv, Orders, IntentOK
  <2> QED
    BY <2>1, SumIsCount DEF FillsInv, FillsBookedOnce
<1> QED
  BY <1>1, <1>2, PositionInvariance, FillsStep, PTL DEF Spec

=============================================================================
