---------------------------- MODULE OrphanRelease ----------------------------
(***************************************************************************)
(* scripts/release_pre_transport_orphan.py beside OrderLifecycle: the      *)
(* operator's command that ends a row as REJECTED once the broker shows no *)
(* trace of its symbol.  It takes no part in the single-run lock.          *)
(***************************************************************************)
EXTENDS OrderLifecycle, Sequences, Functions

VARIABLES
  release,      \* the command: its row as loaded, and what it has yet to ask
  released      \* history: the command's last state, for each row it has ended

releaseVars == <<release, released>>
allVars == <<vars, releaseVars>>

\* Variant: the fill history is asked first and the open orders last.
QuestionsFillsFirst == <<"fills", "positions", "openOrders">>

\* Variant: the holdings are not asked.
QuestionsOfOrders == <<"openOrders", "fills">>

Questions == <<"openOrders", "positions", "fills">>

\* reached: history, the order had reached the broker when the command began.
\* hidden: history, its shares executed and not published as the fills were
\* asked.
NoRelease == [order |-> None, held |-> NoRow, ask |-> <<>>, reached |-> FALSE,
              hidden |-> 0]

ReleaseInit == Init /\ release = NoRelease /\ released = {}

SameSymbol(o) == {x \in Orders : Symbol[x] = Symbol[o]}
Shares(os) == SumFunctionOnSet([x \in os |-> kis[x].filled], os)

\* The broker may show nothing in the symbol.  What it held before the first
\* day is not known, so a position is gone only if the sells made up for the
\* buys.  The holdings change with the execution; the fills show it once it
\* is published.
ShowsNothing(what, o) ==
  CASE what = "openOrders" -> SameSymbol(o) \cap OpenOrders = {}
    [] what = "positions"  ->
         Shares({x \in SameSymbol(o) : Side[x] = "buy"})
           <= Shares({x \in SameSymbol(o) : Side[x] = "sell"})
    [] what = "fills"      ->
         \A x \in SameSymbol(o) : kis[x].shown > 0 => kis[x].day # row[o].day

Releasable(o) ==
  row[o].status \in {"SUBMITTING", "VALIDATING", "CREATED"} /\ ~row[o].known

StartRelease(o) ==
  /\ release = NoRelease
  /\ Releasable(o)
  /\ release' = [order |-> o, held |-> row[o], ask |-> Questions,
                 reached |-> kis[o].st \in {"open", "closed"}, hidden |-> 0]
  /\ UNCHANGED <<vars, released>>

Ask ==
  /\ release.ask # <<>>
  /\ ShowsNothing(Head(release.ask), release.order)
  /\ LET o == release.order IN
     release' = [release EXCEPT !.ask = Tail(release.ask),
                   !.hidden = IF Head(release.ask) = "fills"
                              THEN kis[o].filled - kis[o].shown
                              ELSE release.hidden]
  /\ UNCHANGED <<vars, released>>

\* A trace of the symbol, a read that fails, a dry run, or the advance raises.
RefuseRelease ==
  /\ release # NoRelease
  /\ release' = NoRelease
  /\ UNCHANGED <<vars, released>>

\* advance() to REJECTED, on the row as it was loaded.
Release ==
  /\ release # NoRelease /\ release.ask = <<>>
  /\ CompareAndSet(release.order, release.held, "REJECTED", FALSE)
  /\ released' = released \cup {release}
  /\ release' = NoRelease
  /\ UNCHANGED <<engineVars, recon>>

ReleaseNext ==
  \/ Next /\ UNCHANGED releaseVars
  \/ \E o \in Orders : StartRelease(o)
  \/ Ask \/ RefuseRelease \/ Release

ReleaseSpec == ReleaseInit /\ [][ReleaseNext]_allVars

-----------------------------------------------------------------------------
\* An order that had reached the broker before the command asked is ended
\* only if it is over, and it ran no share but those that were executed and
\* not yet published as the fills were asked: it cannot slip away between two
\* of the questions, only into the broker's own gap.
EarlierOrdersAreSeen ==
  \A e \in released :
    e.reached => kis[e.order].st = "closed" /\ kis[e.order].filled = e.hidden

\* A buy that had reached the broker slips into that gap only where a sell of
\* its symbol has run too: the holdings show it otherwise.
EarlierBuysAreHeld ==
  \A e \in released :
    (e.reached /\ Side[e.order] = "buy" /\ kis[e.order].filled > 0)
      => \E x \in SameSymbol(e.order) : Side[x] = "sell" /\ kis[x].filled > 0

=============================================================================
