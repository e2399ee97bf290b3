---------------------- MODULE AccountCoordinatorProofs ----------------------
(***************************************************************************)
(* What AccountCoordinator guarantees for any number of trades, sessions   *)
(* and quantities, and whatever else may happen (Events).                  *)
(***************************************************************************)
EXTENDS AccountCoordinator, SumTheorems, FiniteSetTheorems, TLAPS

USE TradeAssumption, SessionOfAssumption, SideAssumption, WantAssumption,
    StopRiskAssumption, RisksAssumption, NobodyAssumption

-----------------------------------------------------------------------------
(* Quantities.                                                             *)

\* The floor at zero and the smaller of two quantities are quantities.
LEMMA FloorAndMin ==
  ASSUME NEW m \in Nat, NEW n \in Nat
  PROVE  /\ Less(m, n) \in Nat /\ Less(m, n) <= m
         /\ MinOf(m, n) \in Nat /\ MinOf(m, n) <= m /\ MinOf(m, n) <= n
BY DEF Less, MinOf

\* A close executes something, and never more than the bucket holds.
LEMMA ExecutionBounds ==
  ASSUME TypeOK, NEW t \in Trade, NEW q \in Nat, NEW e \in Executions(t, q)
  PROVE  /\ e \in Nat \ {0} /\ e <= held[Side[t]]
         /\ held[Side[t]] - e \in Nat
<1>1. held[Side[t]] \in Nat
  BY DEF TypeOK
<1>2. /\ MinOf(q, held[Side[t]]) \in Nat
      /\ MinOf(q, held[Side[t]]) <= held[Side[t]]
  BY <1>1, FloorAndMin
<1>3. PICK most \in Nat : /\ most <= held[Side[t]]
                          /\ e \in 1 .. most \/ e \in {most} \ {0}
  BY <1>1, <1>2 DEF Executions
<1>4. QED BY <1>1, <1>3

\* What a close reports as executed is a part of the trade.
LEMMA ReportedBounds ==
  ASSUME TypeOK, NEW t \in Trade, NEW q \in Nat, NEW e \in Executions(t, q)
  PROVE  /\ Reported(t, q, e) \in Nat
         /\ trade[t].qty - Reported(t, q, e) \in Nat
<1>1. trade[t].qty \in Nat /\ e \in Nat /\ held[Side[t]] - e \in Nat
  BY ExecutionBounds DEF TypeOK, Logical
<1>2. Reported(t, q, e) \in Nat /\ Reported(t, q, e) <= trade[t].qty
  BY <1>1, FloorAndMin DEF Reported
<1>3. QED BY <1>1, <1>2

\* The records that describe trades, legs and the entry in progress.
LEMMA Records ==
  /\ Closed \in Logical /\ NoLeg \in Leg /\ Idle \in Entry
  /\ \A r \in Logical, q \in Nat :
       /\ [r EXCEPT !.qty = q] \in Logical
       /\ [r EXCEPT !.status = "open", !.qty = q] \in Logical
  /\ \A r \in Logical, b \in BOOLEAN : [r EXCEPT !.missed = b] \in Logical
  /\ Over("lost") \in Logical /\ Over("new") \in Logical /\ NoOrder \in Order
<1>1. \A end \in {"closed", "lost", "new"} : Over(end) \in Logical
  BY DEF Over, Logical
<1>2. NoLeg \in Leg /\ NoOrder \in Order
  BY DEF NoLeg, Leg, NoOrder, Order
<1>3. Idle \in Entry
  BY DEF Idle, Entry, Phases
<1>4. \A r \in Logical, q \in Nat :
        /\ [r EXCEPT !.qty = q] \in Logical
        /\ [r EXCEPT !.status = "open", !.qty = q] \in Logical
  BY DEF Logical
<1>5. \A r \in Logical, b \in BOOLEAN : [r EXCEPT !.missed = b] \in Logical
  BY DEF Logical
<1>6. QED BY <1>1, <1>2, <1>3, <1>4, <1>5 DEF Closed

\* A leg registered for a trade is a leg.
LEMMA LegTypes ==
  ASSUME TypeOK, NEW t \in Trade, NEW q \in Nat
  PROVE  /\ OpenLeg(t, q) \in Leg /\ WaitingLeg(t, q) \in Leg
         /\ \A s \in {"waiting", "open"}, b \in BOOLEAN :
              [LegOf(t, s, q) EXCEPT !.handler = b] \in Leg
         /\ \A s \in {"waiting", "open"} : LegOf(t, s, q) \in Leg
BY DEF TypeOK, Logical, Leg, LegOf, OpenLeg, WaitingLeg

\* What the exchange takes as the order of an entry is a quantity.
LEMMA OrderTypes ==
  ASSUME TypeOK, NEW t \in Trade, NEW n \in Orderable(t)
  PROVE  n \in Nat
BY DEF TypeOK, Logical, Orderable

\* A listing of registered legs is a sequence of legs with their quantities.
LEMMA ListingTypes ==
  ASSUME TypeOK, NEW t \in Trade, NEW todo \in Snapshot(t)
  PROVE  todo \in Seq([of : Trade, leg : Leg])
<1> DEFINE L == OppositeLegs(t)
<1>1. IsFiniteSet(L)
  BY FS_Subset DEF OppositeLegs
<1>2. Cardinality(L) \in Nat
  BY <1>1, FS_CardinalityType
<1>3. PICK f \in [1 .. Cardinality(L) -> L] :
        todo = [i \in DOMAIN f |-> [of |-> f[i], leg |-> leg[f[i]]]]
  BY DEF Snapshot, Listed
<1>4. \A u \in L : [of |-> u, leg |-> leg[u]] \in [of : Trade, leg : Leg]
  BY DEF OppositeLegs, TypeOK
<1>5. todo \in [1 .. Cardinality(L) -> [of : Trade, leg : Leg]]
  BY <1>3, <1>4
<1>6. \A S : \A n \in Nat : [1 .. n -> S] \subseteq Seq(S)
  OBVIOUS
<1>7. QED BY <1>2, <1>5, <1>6

\* The steps of the entry that has the guard keep the types.
LEMMA AbortTypes ==
  ASSUME TypeOK, NEW t \in Trade, Abort(t)
  PROVE  /\ trade' \in [Trade -> Logical]
         /\ leg' \in [Trade -> Leg]
         /\ op' \in Entry
BY Records DEF TypeOK, Abort

\* A close keeps the types of what it changes.
LEMMA ReduceTypes ==
  ASSUME TypeOK, NEW t \in Trade, NEW q \in Nat, NEW e \in Executions(t, q),
         Reduce(t, q, e)
  PROVE  /\ trade' \in [Trade -> Logical]
         /\ leg' \in [Trade -> Leg]
         /\ held' \in [SideNames -> Nat]
         /\ due' \in [Trade -> Nat]
         /\ entry' = entry
<1> DEFINE left == trade[t].qty - Reported(t, q, e)
<1>1. left \in Nat
  BY ReportedBounds
<1>2. held[Side[t]] - e \in Nat
  BY ExecutionBounds
<1>3. [trade[t] EXCEPT !.qty = left] \in Logical /\ OpenLeg(t, left) \in Leg
  BY <1>1, Records, LegTypes DEF TypeOK
<1>4. QED BY <1>1, <1>2, <1>3, Records DEF Reduce, TypeOK

\* A trade that leaves its engine takes its issue with it.
LEMMA ForgetTypes ==
  ASSUME TypeOK, NEW t \in Trade, Forget(t) \/ ForgetIfClosed(t)
  PROVE  /\ managed' \subseteq Trade
         /\ sick' \subseteq Trade
         /\ blocked' \subseteq Blocks
BY DEF TypeOK, Forget, ForgetIfClosed

\* Opening a trade keeps opened_at an ordering of trades.
LEMMA OpenedTypes ==
  ASSUME TypeOK, NEW t \in Trade, OpenedNow(t)
  PROVE  older' \subseteq Trade \X Trade
BY DEF TypeOK, OpenedNow, Opened

\* The steps of the entry that has the guard keep the types.
LEMMA EntryTypes ==
  ASSUME TypeOK, NEW t \in Trade, EntryStep(t)
  PROVE  TypeOK'
<1>1. ASSUME NEW e, NetClose(t, e) PROVE TypeOK'
  <2> DEFINE u == Head(op.todo).of
             q == MinOf(NetQty(t), trade[u].qty)
  <2>1. Head(op.todo) \in [of : Trade, leg : Leg]
    <3>1. op.todo \in Seq([of : Trade, leg : Leg]) /\ op.todo # <<>>
      BY <1>1 DEF NetClose, NettingDone, TypeOK, Entry
    <3>2. \A S : \A s \in Seq(S) : s # <<>> => Head(s) \in S
      OBVIOUS
    <3>3. QED BY <3>1, <3>2
  <2>2. u \in Trade /\ Head(op.todo).leg.qty \in Nat
    BY <2>1 DEF Leg
  <2>3. trade[u].qty \in Nat /\ op.offset \in Nat /\ Want[t] \in Nat
    BY <2>2 DEF TypeOK, Logical, Entry
  <2>4. Want[t] - op.offset \in Nat
    BY <1>1, <2>3 DEF NetClose, NettingDone
  <2>5. NetQty(t) \in Nat
    BY <2>2, <2>4, FloorAndMin DEF NetQty
  <2>6. q \in Nat /\ e \in Executions(u, q) /\ Reduce(u, q, e) /\ ForgetIfClosed(u)
    BY <1>1, <2>3, <2>5, FloorAndMin DEF NetClose
  <2>7. Reported(u, q, e) \in Nat
    BY <2>2, <2>6, ReportedBounds
  <2>8. op' \in Entry
    <3>1. Tail(op.todo) \in Seq([of : Trade, leg : Leg])
      BY <1>1 DEF NetClose, NettingDone, TypeOK, Entry
    <3>2. op.offset + MinOf(Reported(u, q, e), NetQty(t)) \in Nat
      <4>1. MinOf(Reported(u, q, e), NetQty(t)) \in Nat
        BY <2>5, <2>7, FloorAndMin
      <4>2. \A i, j \in Nat : i + j \in Nat
        OBVIOUS
      <4>3. QED BY <2>3, <4>1, <4>2
    <3>3. op' = [op EXCEPT !.todo = Tail(op.todo),
                           !.offset = op.offset + MinOf(Reported(u, q, e), NetQty(t))]
      BY <1>1 DEF NetClose
    <3>4. QED BY <3>1, <3>2, <3>3 DEF TypeOK, Entry
  <2>9. QED
    BY <1>1, <2>2, <2>6, <2>8, ReduceTypes, ForgetTypes
       DEF NetClose, sessions, TypeOK
<1>2. ASSUME NEW e, NetRaises(t, e) PROVE TypeOK'
  <2> DEFINE u == Head(op.todo).of
             q == MinOf(NetQty(t), trade[u].qty)
             left == trade[u].qty - Reported(u, q, e)
  <2>1. Head(op.todo) \in [of : Trade, leg : Leg]
    <3>1. op.todo \in Seq([of : Trade, leg : Leg]) /\ op.todo # <<>>
      BY <1>2 DEF NetRaises, NettingDone, TypeOK, Entry
    <3>2. \A S : \A s \in Seq(S) : s # <<>> => Head(s) \in S
      OBVIOUS
    <3>3. QED BY <3>1, <3>2
  <2>2. u \in Trade /\ Head(op.todo).leg.qty \in Nat
    BY <2>1 DEF Leg
  <2>3. trade[u].qty \in Nat /\ op.offset \in Nat /\ Want[t] \in Nat
    BY <2>2 DEF TypeOK, Logical, Entry
  <2>4. Want[t] - op.offset \in Nat
    BY <1>2, <2>3 DEF NetRaises, NettingDone
  <2>5. q \in Nat /\ e \in Executions(u, q)
    BY <1>2, <2>2, <2>3, <2>4, FloorAndMin DEF NetRaises, NetQty
  <2>6. left \in Nat /\ held[Side[u]] - e \in Nat
    BY <2>2, <2>5, ReportedBounds, ExecutionBounds
  <2>7. OpenLeg(u, left) \in Leg /\ Closed \in Logical /\ NoLeg \in Leg /\ Idle \in Entry
    BY <2>2, <2>6, Records, LegTypes
  <2>8. trade' \in [Trade -> Logical]
    BY <1>2, <2>2, <2>6, <2>7, Records DEF NetRaises, TypeOK
  <2>9. QED
    BY <1>2, <2>2, <2>6, <2>7, <2>8 DEF NetRaises, TypeOK, sessions
<1>3. ASSUME NEW e, Flattened(t, e) PROVE TypeOK'
  <2>1. trade[t].qty \in Nat
    BY DEF TypeOK, Logical
  <2>2. held[Side[t]] - e \in Nat
    BY <1>3, <2>1, ExecutionBounds DEF Flattened
  <2>3. QED BY <1>3, <2>2, AbortTypes DEF Flattened, TypeOK, sessions
<1>4. CASE \/ NetConflict(t) \/ DecideAgainst(t) \/ EntryRejected(t)
           \/ EntryUnconfirmed(t) \/ FlattenFails(t)
  BY <1>4, AbortTypes DEF NetConflict, DecideAgainst, EntryRejected,
     EntryUnconfirmed, FlattenFails, TypeOK, sessions, exchange
<1>5. ASSUME NEW x, Decide(t, x) PROVE TypeOK'
  <2>1. Residual(t) \in Nat
    BY FloorAndMin DEF Residual, TypeOK, Entry
  <2>2. x \in Nat
    BY <1>5, <2>1 DEF Decide, Approves
  <2>3. op' \in Entry
    BY <1>5 DEF Decide, TypeOK, Entry, Phases
  <2>4. QED
    BY <1>5, <2>2, <2>3, Records DEF Decide, TypeOK, sessions, registry, exchange
<1>6. ASSUME NEW n, NEW x, Submit(t, n, x) PROVE TypeOK'
  <2>1. trade[t].qty \in Nat /\ trade[t] \in Logical
    BY DEF TypeOK, Logical
  <2>2. n \in Nat /\ x \in Nat
    BY <1>6, OrderTypes DEF Submit
  <2>3. op' \in Entry
    BY <1>6 DEF Submit, TypeOK, Entry, Phases
  <2>4. trade' \in [Trade -> Logical]
    <3>1. MinOf(trade[t].qty, n) \in Nat
      BY <2>1, <2>2, FloorAndMin
    <3>2. (IF x = 0 THEN MinOf(trade[t].qty, n) ELSE x) \in Nat
      BY <2>2, <3>1
    <3>3. QED BY <1>6, <2>1, <3>2, Records DEF Submit, TypeOK
  <2>5. held' \in [SideNames -> Nat]
    BY <1>6, <2>2 DEF Submit, TypeOK
  <2>6. entry' \in [Trade -> Order]
    BY <1>6, <2>2 DEF Submit, TypeOK, Order
  <2>7. QED
    BY <1>6, <2>3, <2>4, <2>5, <2>6 DEF Submit, TypeOK, sessions, registry
<1>7. CASE EntryWaits(t)
  <2>1. trade' \in [Trade -> Logical] /\ trade[t].qty \in Nat
    BY <1>7 DEF EntryWaits, TypeOK, Logical
  <2>2. leg' \in [Trade -> Leg]
    BY <1>7, <2>1, LegTypes DEF EntryWaits, TypeOK
  <2>3. QED
    BY <1>7, <2>1, <2>2, Records DEF EntryWaits, TypeOK, sessions, exchange
<1>8. CASE EntryFilled(t)
  <2>0. entry[t].qty \in Nat /\ trade[t] \in Logical
    BY DEF TypeOK, Order
  <2>1. trade' \in [Trade -> Logical]
    BY <1>8, <2>0, Records DEF EntryFilled, TypeOK
  <2>2. leg' \in [Trade -> Leg]
    BY <1>8, <2>0, LegTypes DEF EntryFilled, TypeOK
  <2>3. op' \in Entry
    BY <1>8 DEF EntryFilled, TypeOK, Entry, Phases
  <2>4. QED
    BY <1>8, <2>1, <2>2, <2>3, OpenedTypes, Records DEF EntryFilled, TypeOK, sessions
<1>9. CASE Protected(t)
  BY <1>9, Records DEF Protected, TypeOK, sessions, registry, exchange
<1>10. QED
  BY <1>1, <1>2, <1>3, <1>4, <1>5, <1>6, <1>7, <1>8, <1>9 DEF EntryStep

\* The steps of a trade outside its entry.
TradeStep(t) ==
  \/ Signal(t) \/ (\E unseen \in Unseen : Admit(t, unseen))
  \/ \E q, e : CloseTrade(t, q, e)
  \/ \E e : CloseAll(t, e) \/ ActivateFlattened(t, e)
  \/ CancelEntry(t) \/ Sync(t) \/ EntryExecutes(t) \/ StopExecutes(t)
  \/ Activate(t) \/ Issue(t) \/ PositionFound(t) \/ PositionMissing(t)
  \/ \E r \in Risks[t] : MoveStop(t, r)

\* Every step belongs to an entry, to a trade or to a session.
LEMMA StepsOf ==
  ASSUME Next
  PROVE  \/ \E t \in Trade : EntryStep(t) \/ TradeStep(t)
         \/ \E s \in Session : Stop(s) \/ ForceStop(s) \/ EngineUp(s)
         \/ Restart
BY DEF Next, TradeStep

\* The other steps of a trade keep the types.
LEMMA TradeTypes ==
  ASSUME TypeOK, NEW t \in Trade,
         TradeStep(t)
  PROVE  TypeOK'
<1>0. /\ trade[t] \in Logical /\ trade[t].qty \in Nat /\ due[t] \in Nat
      /\ held[Side[t]] \in Nat
  BY DEF TypeOK, Logical
<1>1. CASE Signal(t)
  <2>1. trade' \in [Trade -> Logical]
    BY <1>1 DEF Signal, TypeOK, Logical
  <2>2. QED
    BY <1>1, <2>1, OpenedTypes DEF Signal, TypeOK, sessions, registry, exchange
<1>2. ASSUME NEW unseen, Admit(t, unseen) PROVE TypeOK'
  <2>1. trade' \in [Trade -> Logical]
    BY <1>2, Records DEF Admit, TypeOK
  <2>2. op' \in Entry
    <3>1. ASSUME NEW todo \in Seq([of : Trade, leg : Leg])
          PROVE  [Idle EXCEPT !.by = t, !.phase = "netting", !.todo = todo] \in Entry
      BY DEF Entry, Phases, Idle
    <3>2. <<>> \in Seq([of : Trade, leg : Leg])
      OBVIOUS
    <3>3. QED BY <1>2, <3>1, <3>2, ListingTypes, Records DEF Admit
  <2>3. QED BY <1>2, <2>1, <2>2 DEF Admit, TypeOK, sessions, exchange
<1>3. ASSUME NEW q, NEW e, CloseTrade(t, q, e) PROVE TypeOK'
  <2>1. q \in Nat /\ e \in Executions(t, q)
    BY <1>0, <1>3 DEF CloseTrade
  <2>2. QED
    BY <1>3, <2>1, ReduceTypes, ForgetTypes DEF CloseTrade, TypeOK, sessions
<1>4. ASSUME NEW e, CloseAll(t, e) PROVE TypeOK'
  <2> DEFINE left == trade[t].qty - Reported(t, trade[t].qty, e)
  <2>1. e \in Executions(t, trade[t].qty)
    BY <1>4 DEF CloseAll
  <2>2. left \in Nat /\ held[Side[t]] - e \in Nat
    BY <1>0, <2>1, ReportedBounds, ExecutionBounds
  <2>3. trade' = [trade EXCEPT ![t] = IF left = 0 THEN Closed
                                      ELSE [trade[t] EXCEPT !.qty = left]]
    BY <1>4 DEF CloseAll
  <2>4. trade' \in [Trade -> Logical]
    BY <1>0, <2>2, <2>3, Records DEF TypeOK
  <2>5. held' \in [SideNames -> Nat] /\ due' \in [Trade -> Nat] /\ leg' \in [Trade -> Leg]
    BY <1>4, <2>2, Records DEF CloseAll, TypeOK
  <2>6. QED BY <1>4, <2>4, <2>5, ForgetTypes DEF CloseAll, TypeOK, sessions
<1>5. ASSUME NEW e, ActivateFlattened(t, e) PROVE TypeOK'
  <2> DEFINE n == entry[t].qty
             most == IF SameSideLegs(t) = {} THEN held[Side[t]]
                                             ELSE MinOf(n, held[Side[t]])
             left == IF SameSideLegs(t) = {} THEN MinOf(n, held[Side[t]] - e)
                                             ELSE Less(n, e)
  <2>1. n \in Nat
    BY DEF TypeOK, Order
  <2>2. most \in Nat /\ most <= held[Side[t]]
    <3>1. MinOf(n, held[Side[t]]) \in Nat /\ MinOf(n, held[Side[t]]) <= held[Side[t]]
      BY <1>0, <2>1, FloorAndMin
    <3>2. QED BY <1>0, <3>1
  <2>3. e \in Nat /\ held[Side[t]] - e \in Nat
    BY <1>0, <1>5, <2>2 DEF ActivateFlattened
  <2>4. left \in Nat
    BY <2>1, <2>3, FloorAndMin
  <2>5. /\ [trade[t] EXCEPT !.status = "open", !.qty = left] \in Logical
        /\ OpenLeg(t, left) \in Leg
    BY <1>0, <2>4, Records, LegTypes
  <2>6. /\ trade' = [trade EXCEPT ![t] = IF left = 0 THEN Closed
                       ELSE [trade[t] EXCEPT !.status = "open", !.qty = left]]
        /\ leg' = [leg EXCEPT ![t] = IF left = 0 THEN NoLeg ELSE OpenLeg(t, left)]
    BY <1>5 DEF ActivateFlattened
  <2>7. trade' \in [Trade -> Logical] /\ leg' \in [Trade -> Leg]
    BY <2>5, <2>6, Records DEF TypeOK
  <2>8. held' \in [SideNames -> Nat] /\ entry' \in [Trade -> Order]
    BY <1>5, <2>3, Records DEF ActivateFlattened, TypeOK
  <2>9. QED
    BY <1>5, <2>7, <2>8, OpenedTypes DEF ActivateFlattened, TypeOK, sessions
<1>6. CASE CancelEntry(t)
  BY <1>6, Records DEF CancelEntry, TypeOK, sessions
<1>7. CASE Sync(t)
  <2> DEFINE left == Less(trade[t].qty, due[t])
  <2>1. left \in Nat
    BY <1>0 DEF Less
  <2>2. /\ trade' = [trade EXCEPT ![t] = IF left = 0 THEN Closed
                                    ELSE [trade[t] EXCEPT !.qty = left]]
        /\ leg' = [leg EXCEPT ![t] = IF left = 0 THEN NoLeg ELSE OpenLeg(t, left)]
        /\ managed' = IF left = 0 THEN managed \ {t} ELSE managed
    BY <1>7 DEF Sync
  <2>3. trade' \in [Trade -> Logical] /\ leg' \in [Trade -> Leg]
    BY <1>0, <2>1, <2>2, Records, LegTypes DEF TypeOK
  <2>4. managed' \subseteq Trade
    BY <2>2 DEF TypeOK
  <2>5. QED BY <1>7, <2>3, <2>4 DEF Sync, TypeOK, sessions
<1>8. CASE EntryExecutes(t)
  <2>1. held' \in [SideNames -> Nat] /\ entry' \in [Trade -> Order]
    BY <1>0, <1>8 DEF EntryExecutes, TypeOK, Order
  <2>2. QED BY <1>8, <2>1 DEF EntryExecutes, TypeOK, sessions, registry
<1>9. CASE StopExecutes(t)
  <2> DEFINE x == MinOf(trade[t].qty, held[Side[t]])
  <2>1. x \in Nat /\ x <= held[Side[t]]
    BY <1>0, FloorAndMin
  <2>2. held[Side[t]] - x \in Nat
    BY <1>0, <2>1
  <2>3. /\ due' = [due EXCEPT ![t] = x]
        /\ held' = [held EXCEPT ![Side[t]] = held[Side[t]] - x]
    BY <1>9 DEF StopExecutes
  <2>4. due' \in [Trade -> Nat] /\ held' \in [SideNames -> Nat]
    BY <2>1, <2>2, <2>3 DEF TypeOK
  <2>5. QED BY <1>9, <2>4 DEF StopExecutes, TypeOK, sessions, registry
<1>10. CASE Activate(t)
  <2>1. entry[t].qty \in Nat
    BY DEF TypeOK, Order
  <2>2. trade' \in [Trade -> Logical] /\ leg' \in [Trade -> Leg]
    BY <1>0, <1>10, <2>1, Records, LegTypes DEF Activate, TypeOK
  <2>3. QED
    BY <1>10, <2>2, Records, OpenedTypes DEF Activate, TypeOK, sessions
<1>11. CASE Issue(t)
  <2>1. op.raised \cup {<<"issue", t>>} \subseteq Blocks
    BY DEF TypeOK, Entry, Blocks
  <2>2. [op EXCEPT !.raised = op.raised \cup {<<"issue", t>>}] \in Entry
    BY <2>1 DEF TypeOK, Entry
  <2>3. op' \in Entry
    BY <1>11, <2>2 DEF Issue, TypeOK
  <2>4. QED BY <1>11, <2>3 DEF Issue, TypeOK, Blocks, sessions, exchange
<1>12. CASE PositionFound(t)
  <2>1. trade' \in [Trade -> Logical]
    BY <1>0, <1>12, Records DEF PositionFound, TypeOK
  <2>2. QED BY <1>12, <2>1 DEF PositionFound, TypeOK, sessions, exchange
<1>13. CASE PositionMissing(t)
  <2>1. CASE trade[t].missed
    <3>1. /\ trade' = [trade EXCEPT ![t] = Closed] /\ leg' = [leg EXCEPT ![t] = NoLeg]
          /\ due' = [due EXCEPT ![t] = 0]
      BY <1>13, <2>1 DEF PositionMissing
    <3>2. Forget(t)
      BY <1>13, <2>1 DEF PositionMissing
    <3>3. QED
      BY <1>13, <3>1, <3>2, Records, ForgetTypes DEF PositionMissing, TypeOK, sessions
  <2>2. CASE ~trade[t].missed
    <3>1. trade' = [trade EXCEPT ![t] = [trade[t] EXCEPT !.missed = TRUE]]
      BY <1>13, <2>2 DEF PositionMissing
    <3>. trade' \in [Trade -> Logical]
      BY <1>0, <3>1, Records DEF TypeOK
    <3>2. QED BY <1>13, <2>2, <3>1 DEF PositionMissing, TypeOK, sessions
  <2>3. QED BY <2>1, <2>2
<1>14. ASSUME NEW r \in Risks[t], MoveStop(t, r) PROVE TypeOK'
  <2>1. r \in Nat
    OBVIOUS
  <2>2. trade' \in [Trade -> Logical]
    BY <1>0, <1>14, <2>1 DEF MoveStop, TypeOK, Logical
  <2>3. QED
    BY <1>14, <2>2 DEF MoveStop, TypeOK, sessions, registry, exchange
<1>15. QED
  BY <1>1, <1>2, <1>3, <1>4, <1>5, <1>6, <1>7, <1>8, <1>9, <1>10, <1>11, <1>12,
     <1>13, <1>14 DEF TradeStep

\* Stops and restarts keep the types.
LEMMA SessionTypes ==
  ASSUME TypeOK,
         \/ \E s \in Session : Stop(s) \/ ForceStop(s) \/ EngineUp(s)
         \/ Restart
  PROVE  TypeOK'
<1>1. Over("lost") \in Logical
  BY Records
<1>2. ASSUME NEW s \in Session, Halt(s) PROVE TypeOK'
  BY <1>1, <1>2, Records DEF Halt, TypeOK, registry, exchange
<1>3. \A t \in Trade : trade[t].status \in {"waiting", "open"} =>
        /\ LegOf(t, trade[t].status, trade[t].qty) \in Leg
        /\ [LegOf(t, trade[t].status, trade[t].qty) EXCEPT !.handler = FALSE] \in Leg
  BY LegTypes DEF TypeOK, Logical
<1>4. ASSUME NEW s \in Session, EngineUp(s) PROVE TypeOK'
  <2>1. leg' \in [Trade -> Leg]
    BY <1>3, <1>4 DEF EngineUp, StoredOpen, TypeOK
  <2>2. QED BY <1>4, <2>1 DEF EngineUp, TypeOK, exchange
<1>5. CASE Restart
  <2>1. leg' \in [Trade -> Leg]
    BY <1>3, <1>5, Records DEF Restart, RestoredLeg, StoredOpen, TypeOK
  <2>2. QED
    BY <1>1, <1>5, <2>1, Records DEF Restart, RestoredBlocks, Blocks, TypeOK, exchange
<1>6. QED BY <1>2, <1>4, <1>5 DEF Stop, ForceStop

\* Every variable keeps its type: in particular no trade, no leg and no bucket
\* of the exchange ever has a negative quantity, whatever closes, stops and
\* netting take from it and in whatever order.
THEOREM TypeCorrect == Spec => []TypeOK
<1>1. Init => TypeOK
  <2> SUFFICES ASSUME Init PROVE TypeOK
    OBVIOUS
  <2>1. /\ trade \in [Trade -> Logical] /\ leg \in [Trade -> Leg]
        /\ entry \in [Trade -> Order] /\ op \in Entry
    BY Records DEF Init
  <2>2. QED BY <2>1 DEF Init, TypeOK
<1>2. TypeOK /\ [Next]_vars => TypeOK'
  <2> SUFFICES ASSUME TypeOK, [Next]_vars PROVE TypeOK'
    OBVIOUS
  <2>1. CASE UNCHANGED vars
    BY <2>1 DEF vars, TypeOK
  <2>2. QED BY <2>1, StepsOf, EntryTypes, TradeTypes, SessionTypes
<1>3. QED BY <1>1, <1>2, PTL DEF Spec

-----------------------------------------------------------------------------
(* Who owns a leg.                                                         *)

\* A leg registered with the status and the quantity of its trade.
Matches(l, r) == l.status = r.status /\ l.qty = r.qty /\ l.handler

\* Up to the fill the entry in progress is nowhere but in its own task; from
\* then on it is registered, and listed by its engine at its end.
EntryOwned ==
  \A t \in Trade : op.by = t =>
    /\ IsUp(t) /\ t \notin managed /\ op.phase # "idle"
    /\ op.phase # "protecting" => trade[t].status = "opening"
    /\ op.phase = "protecting" =>
         trade[t].status = "open" /\ Matches(leg[t], trade[t])

\* The strengthening of RegistryMirrorsTrades: engines that run list trades of
\* their own that were opened; a leg of an engine that is down, but to come
\* back, is a stored trade, so that the engine takes it over.
OwnershipInv ==
  /\ up \subseteq active
  /\ EntryOwned
  /\ \A t \in managed : IsUp(t) /\ trade[t].status \in {"waiting", "open", "closed"}
  /\ \A t \in Trade : trade[t].status \in {"new", "opening"} => ~Registered(t)
  /\ \A t \in Trade : Registered(t) /\ ~IsUp(t) /\ SessionOf[t] \in active =>
                        StoredOpen(t)
  /\ RegistryMirrorsTrades

\* A step that changes one listed trade and its leg together keeps ownership:
\* the trade stays listed with a matching leg, or its leg is dropped.
LEMMA OneTradeOwned ==
  ASSUME TypeOK, OwnershipInv, UNCHANGED <<active, up, op.by, op.phase>>,
         NEW t \in managed, NEW r, NEW l,
         trade' = [trade EXCEPT ![t] = r], leg' = [leg EXCEPT ![t] = l],
         \/ managed' = managed \ {t} /\ l = NoLeg
         \/ managed' = managed /\ l = NoLeg /\ r.status = "closed"
         \/ /\ managed' = managed /\ r.status \in {"waiting", "open"}
            /\ Matches(l, r)
  PROVE  OwnershipInv'
<1>1. t \in Trade /\ IsUp(t) /\ op.by # t
  BY DEF TypeOK, OwnershipInv, EntryOwned
<1>2. /\ trade'[t] = r /\ leg'[t] = l
      /\ \A u \in Trade \ {t} : trade'[u] = trade[u] /\ leg'[u] = leg[u]
  BY <1>1 DEF TypeOK
<1>3. EntryOwned'
  BY <1>1, <1>2 DEF OwnershipInv, EntryOwned, IsUp
<1>4. \A u \in managed' : IsUp(u)' /\ trade'[u].status \in {"waiting", "open", "closed"}
  BY <1>1, <1>2 DEF OwnershipInv, IsUp, TypeOK
<1>5. \A u \in Trade : trade'[u].status \in {"new", "opening"} => ~Registered(u)'
  BY <1>1, <1>2 DEF OwnershipInv, Registered
<1>6. \A u \in Trade : Registered(u)' /\ ~IsUp(u)' /\ SessionOf[u] \in active' =>
                         StoredOpen(u)'
  BY <1>1, <1>2 DEF OwnershipInv, Registered, IsUp, StoredOpen
<1>7. RegistryMirrorsTrades'
  BY <1>1, <1>2 DEF OwnershipInv, RegistryMirrorsTrades, Registered, IsUp,
     InPhase, Matches, TypeOK
<1>8. QED BY <1>3, <1>4, <1>5, <1>6, <1>7 DEF OwnershipInv

\* Nor does a step that keeps status and quantity of a listed trade.
LEMMA NotedOwned ==
  ASSUME TypeOK, OwnershipInv, UNCHANGED <<active, up, managed, leg, op>>,
         NEW t \in managed, trade[t].status \in {"waiting", "open"}, NEW r,
         trade' = [trade EXCEPT ![t] = r],
         r.status = trade[t].status, r.qty = trade[t].qty
  PROVE  OwnershipInv'
<1>1. leg' = [leg EXCEPT ![t] = leg[t]]
  BY DEF TypeOK
<1>2. Matches(leg[t], r)
  BY DEF Matches, OwnershipInv, RegistryMirrorsTrades
<1>3. QED BY <1>1, <1>2, OneTradeOwned

\* An entry that is given up leaves nothing behind.
LEMMA AbortOwned ==
  ASSUME TypeOK, OwnershipInv, UNCHANGED <<active, up, managed>>,
         NEW t \in Trade, op.by = t, Abort(t)
  PROVE  OwnershipInv'
<1>1. IsUp(t) /\ t \notin managed
  BY DEF OwnershipInv, EntryOwned
<1>2. /\ trade'[t] = Closed /\ leg'[t] = NoLeg /\ op' = Idle
      /\ \A u \in Trade \ {t} : trade'[u] = trade[u] /\ leg'[u] = leg[u]
  BY DEF Abort, TypeOK
<1>3. EntryOwned'
  BY <1>2 DEF EntryOwned, Idle
<1>4. \A u \in managed' : IsUp(u)' /\ trade'[u].status \in {"waiting", "open", "closed"}
  BY <1>1, <1>2 DEF OwnershipInv, IsUp, TypeOK
<1>5. \A u \in Trade : trade'[u].status \in {"new", "opening"} => ~Registered(u)'
  BY <1>2 DEF OwnershipInv, Registered
<1>6. \A u \in Trade : Registered(u)' /\ ~IsUp(u)' /\ SessionOf[u] \in active' =>
                         StoredOpen(u)'
  BY <1>1, <1>2 DEF OwnershipInv, Registered, IsUp, StoredOpen, Idle
<1>7. RegistryMirrorsTrades'
  BY <1>1, <1>2
     DEF OwnershipInv, RegistryMirrorsTrades, Registered, IsUp, InPhase, TypeOK
<1>8. QED BY <1>3, <1>4, <1>5, <1>6, <1>7 DEF OwnershipInv

\* A close of a listed open trade keeps ownership.
LEMMA ReduceOwned ==
  ASSUME TypeOK, OwnershipInv, UNCHANGED <<active, up, op.by, op.phase>>,
         NEW t \in managed, trade[t].status = "open",
         NEW q, NEW e, Reduce(t, q, e), ForgetIfClosed(t)
  PROVE  OwnershipInv'
<1> DEFINE left == trade[t].qty - Reported(t, q, e)
           r == IF left = 0 THEN Closed ELSE [trade[t] EXCEPT !.qty = left]
           l == IF left = 0 THEN NoLeg ELSE OpenLeg(t, left)
<1>1. trade' = [trade EXCEPT ![t] = r] /\ leg' = [leg EXCEPT ![t] = l]
  BY DEF Reduce
<1>2. t \in Trade /\ trade'[t] = r
  BY <1>1 DEF TypeOK
<1>3. CASE left = 0
  <2>1. /\ trade' = [trade EXCEPT ![t] = Closed] /\ leg' = [leg EXCEPT ![t] = NoLeg]
        /\ managed' = managed \ {t}
    BY <1>1, <1>2, <1>3 DEF ForgetIfClosed, Forget, Closed, Over
  <2>2. QED BY <2>1, OneTradeOwned
<1>4. CASE left # 0
  <2>1. [trade[t] EXCEPT !.qty = left].status = "open"
        /\ [trade[t] EXCEPT !.qty = left].qty = left
    BY DEF TypeOK, Logical
  <2>2. /\ trade' = [trade EXCEPT ![t] = [trade[t] EXCEPT !.qty = left]]
        /\ leg' = [leg EXCEPT ![t] = OpenLeg(t, left)]
        /\ managed' = managed
    BY <1>1, <1>2, <1>4, <2>1 DEF ForgetIfClosed
  <2>3. Matches(OpenLeg(t, left), [trade[t] EXCEPT !.qty = left])
    BY <2>1 DEF OpenLeg, LegOf, Matches
  <2> HIDE DEF left
  <2>4. QED BY <2>1, <2>2, <2>3, OneTradeOwned
<1>5. QED BY <1>3, <1>4

\* The steps of the entry that has the guard keep ownership.
LEMMA EntryOwns ==
  ASSUME TypeOK, OwnershipInv, NEW t \in Trade, EntryStep(t)
  PROVE  OwnershipInv'
<1>1. ASSUME NEW e, NetClose(t, e) PROVE OwnershipInv'
  <2>1. op'.by = op.by /\ op'.phase = op.phase
    BY <1>1 DEF NetClose, TypeOK, Entry
  <2>2. QED BY <1>1, <2>1, ReduceOwned DEF NetClose, sessions
<1>2. ASSUME NEW e, NetRaises(t, e) PROVE OwnershipInv'
  <2> DEFINE u == Head(op.todo).of
             left == trade[u].qty - Reported(u, MinOf(NetQty(t), trade[u].qty), e)
  <2>1. /\ u \in managed /\ trade[u].status = "open" /\ op.by = t
        /\ trade' = [trade EXCEPT ![u].qty = left, ![t] = Closed]
        /\ leg' = [leg EXCEPT ![u] = OpenLeg(u, left), ![t] = NoLeg]
        /\ op' = Idle /\ UNCHANGED <<active, up, managed>>
    BY <1>2 DEF NetRaises, Netting, sessions
  <2>2. u \in Trade /\ u # t /\ IsUp(u) /\ IsUp(t) /\ t \notin managed
    BY <2>1 DEF OwnershipInv, EntryOwned, TypeOK
  <2>3. /\ trade'[t] = Closed /\ leg'[t] = NoLeg /\ leg'[u] = OpenLeg(u, left)
        /\ trade'[u].status = "open" /\ trade'[u].qty = left
        /\ \A v \in Trade \ {t, u} : trade'[v] = trade[v] /\ leg'[v] = leg[v]
    BY <2>1, <2>2 DEF TypeOK, Logical
  <2>4. EntryOwned'
    BY <2>1 DEF EntryOwned, Idle
  <2>5. \A v \in managed' : IsUp(v)' /\ trade'[v].status \in {"waiting", "open", "closed"}
    BY <2>1, <2>2, <2>3 DEF OwnershipInv, IsUp, TypeOK
  <2>6. \A v \in Trade : trade'[v].status \in {"new", "opening"} => ~Registered(v)'
    BY <2>3 DEF OwnershipInv, Registered
  <2>7. \A v \in Trade : Registered(v)' /\ ~IsUp(v)' /\ SessionOf[v] \in active' =>
                           StoredOpen(v)'
    BY <2>1, <2>2, <2>3 DEF OwnershipInv, Registered, IsUp, StoredOpen, Idle
  <2>8. RegistryMirrorsTrades'
    <3>1. ASSUME NEW v \in managed', trade'[v].status \in {"waiting", "open"}
          PROVE  Matches(leg'[v], trade'[v])
      BY <2>1, <2>2, <2>3, <3>1
         DEF OwnershipInv, RegistryMirrorsTrades, TypeOK, OpenLeg, LegOf, Matches,
             Closed, Over
    <3>2. ASSUME NEW v \in Trade, Registered(v)'
          PROVE  v \in managed' \/ ~IsUp(v)'
      BY <2>1, <2>2, <2>3, <3>2
         DEF OwnershipInv, RegistryMirrorsTrades, Registered, IsUp, InPhase
    <3>3. QED BY <3>1, <3>2 DEF RegistryMirrorsTrades, Matches
  <2>9. QED BY <2>1, <2>4, <2>5, <2>6, <2>7, <2>8 DEF OwnershipInv
<1>3. ASSUME \/ \E e : Flattened(t, e)
             \/ NetConflict(t) \/ DecideAgainst(t) \/ EntryRejected(t)
             \/ EntryUnconfirmed(t) \/ FlattenFails(t)
      PROVE  OwnershipInv'
  BY <1>3, AbortOwned DEF Flattened, NetConflict, DecideAgainst, EntryRejected,
     EntryUnconfirmed, FlattenFails, Netting, InPhase, sessions
<1>4. ASSUME \/ \E x : Decide(t, x)
             \/ \E n, x : Submit(t, n, x)
      PROVE  OwnershipInv'
  <2>1. /\ op.by = t /\ op.phase # "protecting"
        /\ op'.by = t /\ op'.phase \in {"entering", "submitted"}
        /\ UNCHANGED <<active, up, managed, leg>>
    BY <1>4 DEF Decide, Submit, Netting, InPhase, sessions, registry, TypeOK, Entry
  <2>2. /\ t \notin managed /\ IsUp(t) /\ trade[t].status = "opening"
        /\ ~Registered(t)
    BY <2>1 DEF OwnershipInv, EntryOwned
  <2>3. /\ trade'[t].status = "opening"
        /\ \A u \in Trade \ {t} : trade'[u] = trade[u]
    BY <1>4, <2>2 DEF Decide, Submit, TypeOK, Logical
  <2>4. EntryOwned'
    BY <2>1, <2>2, <2>3 DEF EntryOwned, IsUp
  <2>5. RegistryMirrorsTrades'
    BY <2>1, <2>2, <2>3 DEF OwnershipInv, RegistryMirrorsTrades, Registered,
       IsUp, InPhase, TypeOK
  <2>6. QED
    BY <2>1, <2>2, <2>3, <2>4, <2>5 DEF OwnershipInv, Registered, IsUp,
       StoredOpen, TypeOK
<1>5. CASE EntryWaits(t)
  <2>1. /\ op.by = t /\ op.phase = "submitted" /\ op' = Idle
        /\ managed' = managed \cup {t} /\ UNCHANGED <<active, up>>
        /\ trade' = [trade EXCEPT ![t].status = "waiting"]
        /\ leg' = [leg EXCEPT ![t] = WaitingLeg(t, trade[t].qty)]
    BY <1>5 DEF EntryWaits, InPhase, sessions
  <2>2. t \notin managed /\ IsUp(t)
    BY <2>1 DEF OwnershipInv, EntryOwned
  <2>3. /\ trade'[t].status = "waiting" /\ trade'[t].qty = trade[t].qty
        /\ leg'[t] = WaitingLeg(t, trade[t].qty)
        /\ \A u \in Trade \ {t} : trade'[u] = trade[u] /\ leg'[u] = leg[u]
    BY <2>1 DEF TypeOK, Logical
  <2>4. EntryOwned'
    BY <2>1 DEF EntryOwned, Idle
  <2>5. RegistryMirrorsTrades'
    <3>1. ASSUME NEW v \in managed', trade'[v].status \in {"waiting", "open"}
          PROVE  Matches(leg'[v], trade'[v])
      BY <2>1, <2>2, <2>3, <3>1
         DEF OwnershipInv, RegistryMirrorsTrades, TypeOK, WaitingLeg, LegOf, Matches
    <3>2. ASSUME NEW v \in Trade, Registered(v)'
          PROVE  v \in managed' \/ ~IsUp(v)'
      BY <2>1, <2>2, <2>3, <3>2
         DEF OwnershipInv, RegistryMirrorsTrades, Registered, IsUp, InPhase
    <3>3. QED BY <3>1, <3>2 DEF RegistryMirrorsTrades, Matches
  <2>6. QED
    BY <2>1, <2>2, <2>3, <2>4, <2>5 DEF OwnershipInv, Registered, IsUp,
       StoredOpen, TypeOK, Idle
<1>6. CASE EntryFilled(t)
  <2>1. /\ op.by = t /\ op.phase = "submitted" /\ op'.by = t
        /\ op'.phase = "protecting" /\ UNCHANGED <<active, up, managed>>
        /\ trade' = [trade EXCEPT ![t].status = "open", ![t].qty = entry[t].qty]
        /\ leg' = [leg EXCEPT ![t] = OpenLeg(t, entry[t].qty)]
    BY <1>6 DEF EntryFilled, InPhase, sessions, TypeOK, Entry
  <2>2. t \notin managed /\ IsUp(t)
    BY <2>1 DEF OwnershipInv, EntryOwned
  <2>3. /\ trade'[t].status = "open" /\ Matches(leg'[t], trade'[t])
        /\ \A u \in Trade \ {t} : trade'[u] = trade[u] /\ leg'[u] = leg[u]
    BY <2>1 DEF TypeOK, Logical, OpenLeg, LegOf, Matches
  <2>4. EntryOwned'
    BY <2>1, <2>2, <2>3 DEF EntryOwned, IsUp
  <2>5. RegistryMirrorsTrades'
    <3>1. ASSUME NEW v \in managed', trade'[v].status \in {"waiting", "open"}
          PROVE  Matches(leg'[v], trade'[v])
      BY <2>1, <2>2, <2>3, <3>1
         DEF OwnershipInv, RegistryMirrorsTrades, TypeOK, Matches
    <3>2. ASSUME NEW v \in Trade, Registered(v)'
          PROVE  v \in managed' \/ InPhase(v, "protecting")' \/ ~IsUp(v)'
      BY <2>1, <2>2, <2>3, <3>2
         DEF OwnershipInv, RegistryMirrorsTrades, Registered, IsUp, InPhase
    <3>3. QED BY <3>1, <3>2 DEF RegistryMirrorsTrades, Matches
  <2>6. QED
    BY <2>1, <2>2, <2>3, <2>4, <2>5 DEF OwnershipInv, Registered, IsUp,
       StoredOpen, TypeOK
<1>7. CASE Protected(t)
  <2>1. /\ op.by = t /\ op.phase = "protecting" /\ op' = Idle
        /\ managed' = managed \cup {t} /\ UNCHANGED <<active, up, trade, leg>>
    BY <1>7 DEF Protected, InPhase, sessions, registry
  <2>2. IsUp(t) /\ trade[t].status = "open" /\ Matches(leg[t], trade[t])
    BY <2>1 DEF OwnershipInv, EntryOwned
  <2>3. EntryOwned'
    BY <2>1 DEF EntryOwned, Idle
  <2>4. RegistryMirrorsTrades'
    BY <2>1, <2>2 DEF OwnershipInv, RegistryMirrorsTrades, Registered,
       IsUp, InPhase, Matches
  <2>5. QED
    BY <2>1, <2>2, <2>3, <2>4 DEF OwnershipInv, Registered, IsUp, StoredOpen, Idle
<1>8. QED
  BY <1>1, <1>2, <1>3, <1>4, <1>5, <1>6, <1>7 DEF EntryStep

\* The other steps of a trade keep ownership.
LEMMA TradeOwns ==
  ASSUME TypeOK, OwnershipInv, NEW t \in Trade, TradeStep(t)
  PROVE  OwnershipInv'
<1>1. CASE Signal(t)
  <2>1. /\ trade[t].status = "new" /\ IsUp(t)
        /\ UNCHANGED <<active, up, managed, leg, op>>
        /\ trade' = [trade EXCEPT ![t] = [status |-> "opening", qty |-> Want[t],
                                          risk |-> StopRisk[t], missed |-> FALSE]]
    BY <1>1 DEF Signal, sessions, registry
  <2>2. /\ trade'[t].status = "opening"
        /\ \A u \in Trade \ {t} : trade'[u] = trade[u]
    BY <2>1 DEF TypeOK
  <2>3. op.by # t /\ t \notin managed /\ ~Registered(t)
    BY <2>1 DEF OwnershipInv, EntryOwned
  <2>4. QED
    BY <2>1, <2>2, <2>3 DEF OwnershipInv, EntryOwned, RegistryMirrorsTrades,
       Registered, IsUp, InPhase, StoredOpen, TypeOK
<1>2. ASSUME NEW unseen, Admit(t, unseen) PROVE OwnershipInv'
  <2> DEFINE freed == Releasable(t, unseen)
             end == IF Refused(t, freed) THEN freed \cup {t} ELSE freed
  <2>1. /\ op = Idle /\ trade[t].status = "opening" /\ IsUp(t)
        /\ trade' = [u \in Trade |-> IF u \in end THEN Closed ELSE trade[u]]
        /\ UNCHANGED <<active, up, managed, leg>>
        /\ Refused(t, freed) => op' = Idle
        /\ ~Refused(t, freed) => op'.by = t /\ op'.phase = "netting"
    BY <1>2 DEF Admit, sessions
  <2>2. \A u \in freed : u \in Trade /\ StoredOpen(u) /\ ~IsUp(u)
                                /\ SessionOf[u] \notin active
    BY DEF Releasable, Stale, OwnershipInv, IsUp
  <2>3. t \notin managed /\ ~Registered(t) /\ t \notin freed
    BY <2>1, <2>2 DEF OwnershipInv
  <2>4. /\ \A u \in Trade : trade'[u] = IF u \in end THEN Closed ELSE trade[u]
        /\ \A u \in end : u = t \/ u \in freed
        /\ ~Refused(t, freed) => t \notin end
    BY <2>1, <2>3
  <2> HIDE DEF end, freed
  <2>5. EntryOwned'
    BY <2>1, <2>3, <2>4 DEF EntryOwned, IsUp, Idle, Registered
  <2>6. RegistryMirrorsTrades'
    BY <2>1, <2>2, <2>3, <2>4 DEF OwnershipInv, RegistryMirrorsTrades,
       Registered, IsUp, InPhase, Idle, TypeOK
  <2>7. \A u \in Trade : trade'[u].status \in {"new", "opening"} => ~Registered(u)'
    BY <2>1, <2>4 DEF OwnershipInv, Registered, Closed, Over
  <2>8. \A u \in managed' : IsUp(u)' /\ trade'[u].status \in {"waiting", "open", "closed"}
    BY <2>1, <2>2, <2>3, <2>4 DEF OwnershipInv, IsUp, TypeOK
  <2>9. \A u \in Trade : Registered(u)' /\ ~IsUp(u)' /\ SessionOf[u] \in active' =>
                           StoredOpen(u)'
    BY <2>1, <2>2, <2>4 DEF OwnershipInv, Registered, IsUp, StoredOpen, Idle
  <2>10. QED BY <2>1, <2>5, <2>6, <2>7, <2>8, <2>9 DEF OwnershipInv
<1>3. ASSUME NEW q, NEW e, CloseTrade(t, q, e) PROVE OwnershipInv'
  BY <1>3, ReduceOwned DEF CloseTrade, Holds, sessions
<1>4. ASSUME NEW e, CloseAll(t, e) PROVE OwnershipInv'
  <2>1. PICK r : /\ t \in managed /\ trade' = [trade EXCEPT ![t] = r]
                 /\ leg' = [leg EXCEPT ![t] = NoLeg] /\ managed' = managed \ {t}
                 /\ UNCHANGED <<active, up, op>>
    BY <1>4 DEF CloseAll, Holds, Forget, sessions
  <2>2. QED BY <2>1, OneTradeOwned
<1>5. ASSUME NEW e, ActivateFlattened(t, e) PROVE OwnershipInv'
  <2>1. PICK left :
          /\ t \in managed /\ UNCHANGED <<active, up, op, managed>>
          /\ trade' = [trade EXCEPT ![t] = IF left = 0 THEN Closed
                       ELSE [trade[t] EXCEPT !.status = "open", !.qty = left]]
          /\ leg' = [leg EXCEPT ![t] = IF left = 0 THEN NoLeg ELSE OpenLeg(t, left)]
    BY <1>5 DEF ActivateFlattened, Holds, sessions
  <2>2. CASE left = 0
    <3>1. /\ trade' = [trade EXCEPT ![t] = Closed] /\ Closed.status = "closed"
          /\ leg' = [leg EXCEPT ![t] = NoLeg]
      BY <2>1, <2>2 DEF Closed, Over
    <3>2. QED BY <2>1, <3>1, OneTradeOwned
  <2>3. CASE left # 0
    <3> DEFINE r == [trade[t] EXCEPT !.status = "open", !.qty = left]
    <3>1. trade' = [trade EXCEPT ![t] = r] /\ leg' = [leg EXCEPT ![t] = OpenLeg(t, left)]
      BY <2>1, <2>3
    <3>2. r.status = "open" /\ Matches(OpenLeg(t, left), r)
      BY DEF TypeOK, Logical, OpenLeg, LegOf, Matches
    <3> HIDE DEF r
    <3>3. QED BY <2>1, <3>1, <3>2, OneTradeOwned
  <2>4. QED BY <2>2, <2>3
<1>6. CASE CancelEntry(t)
  BY <1>6, OneTradeOwned DEF CancelEntry, Holds, sessions
<1>7. CASE Sync(t)
  <2> DEFINE left == Less(trade[t].qty, due[t])
             r == [trade[t] EXCEPT !.qty = left]
  <2>1. /\ t \in managed /\ trade[t].status = "open" /\ UNCHANGED <<active, up, op>>
        /\ trade' = [trade EXCEPT ![t] = IF left = 0 THEN Closed ELSE r]
        /\ leg' = [leg EXCEPT ![t] = IF left = 0 THEN NoLeg ELSE OpenLeg(t, left)]
        /\ managed' = IF left = 0 THEN managed \ {t} ELSE managed
    BY <1>7 DEF Sync, Holds, sessions
  <2>2. r.status = "open" /\ Matches(OpenLeg(t, left), r)
    BY <2>1 DEF TypeOK, Logical, OpenLeg, LegOf, Matches
  <2> HIDE DEF left, r
  <2>3. CASE left = 0
    <3>1. /\ trade' = [trade EXCEPT ![t] = Closed]
          /\ leg' = [leg EXCEPT ![t] = NoLeg] /\ managed' = managed \ {t}
      BY <2>1, <2>3
    <3>2. QED BY <2>1, <3>1, OneTradeOwned
  <2>4. CASE left # 0
    <3>1. /\ trade' = [trade EXCEPT ![t] = r]
          /\ leg' = [leg EXCEPT ![t] = OpenLeg(t, left)] /\ managed' = managed
      BY <2>1, <2>4
    <3>2. QED BY <2>1, <2>2, <3>1, OneTradeOwned
  <2>5. QED BY <2>3, <2>4
<1>8. CASE Activate(t)
  <2> DEFINE r == [trade[t] EXCEPT !.status = "open", !.qty = entry[t].qty]
             l == OpenLeg(t, entry[t].qty)
  <2>1. /\ t \in managed /\ UNCHANGED <<active, up, op, managed>>
        /\ trade' = [trade EXCEPT ![t] = r] /\ leg' = [leg EXCEPT ![t] = l]
    BY <1>8 DEF Activate, Holds, sessions
  <2>2. r.status = "open" /\ Matches(l, r)
    BY DEF TypeOK, Logical, OpenLeg, LegOf, Matches
  <2> HIDE DEF r, l
  <2>3. QED BY <2>1, <2>2, OneTradeOwned
<1>9. CASE EntryExecutes(t) \/ StopExecutes(t) \/ Issue(t)
  <2>1. /\ UNCHANGED <<active, up, trade, managed, leg>>
        /\ op'.by = op.by /\ op'.phase = op.phase
    BY <1>9 DEF EntryExecutes, StopExecutes, Issue, sessions, registry, TypeOK, Entry
  <2>2. QED
    BY <2>1 DEF OwnershipInv, EntryOwned, RegistryMirrorsTrades, Registered,
       IsUp, InPhase, StoredOpen
<1>10. CASE PositionFound(t)
  <2> DEFINE r == [trade[t] EXCEPT !.missed = FALSE]
  <2>1. /\ t \in managed /\ trade[t].status = "open"
        /\ UNCHANGED <<active, up, managed, leg, op>>
        /\ trade' = [trade EXCEPT ![t] = r]
    BY <1>10 DEF PositionFound, Holds, sessions
  <2>2. r.status = trade[t].status /\ r.qty = trade[t].qty
    BY DEF TypeOK, Logical
  <2> HIDE DEF r
  <2>3. QED BY <2>1, <2>2, NotedOwned
<1>11. CASE PositionMissing(t)
  <2>1. CASE trade[t].missed
    BY <1>11, <2>1, OneTradeOwned DEF PositionMissing, Holds, Forget, sessions
  <2>2. CASE ~trade[t].missed
    BY <1>11, <2>2, NotedOwned DEF PositionMissing, Holds, sessions, TypeOK, Logical
  <2>3. QED BY <2>1, <2>2
<1>12. ASSUME NEW x, MoveStop(t, x) PROVE OwnershipInv'
  <2> DEFINE r == [trade[t] EXCEPT !.risk = x]
  <2>1. /\ t \in managed /\ trade[t].status \in {"waiting", "open"}
        /\ UNCHANGED <<active, up, managed, leg, op>>
        /\ trade' = [trade EXCEPT ![t] = r]
    BY <1>12 DEF MoveStop, sessions, registry
  <2>2. r.status = trade[t].status /\ r.qty = trade[t].qty
    BY DEF TypeOK, Logical
  <2> HIDE DEF r
  <2>3. QED BY <2>1, <2>2, NotedOwned
<1>13. QED
  BY <1>1, <1>2, <1>3, <1>4, <1>5, <1>6, <1>7, <1>8, <1>9, <1>10, <1>11, <1>12
     DEF TradeStep

\* Stops and restarts keep ownership: a restarted process registers the stored
\* trades of its active sessions before their engines list them.
LEMMA SessionOwns ==
  ASSUME TypeOK, OwnershipInv,
         \/ \E s \in Session : Stop(s) \/ ForceStop(s) \/ EngineUp(s)
         \/ Restart
  PROVE  OwnershipInv'
<1>1. ASSUME NEW s \in Session, Halt(s) PROVE OwnershipInv'
  <2>1. /\ up' = up \ {s} /\ active' = active \ {s} /\ UNCHANGED leg
        /\ managed' = {t \in managed : SessionOf[t] # s}
    BY <1>1 DEF Halt, registry
  <2>2. /\ \A t \in Trade : SessionOf[t] # s /\ op.by # t => trade'[t] = trade[t]
        /\ \A t \in Trade : SessionOf[t] # s => trade'[t] = trade[t]
        /\ \A t \in Trade : trade'[t] = trade[t] \/ trade'[t].status = "lost"
    BY <1>1 DEF Halt, Over
  <2>3. \/ op' = op /\ \A t \in Trade : op.by = t => SessionOf[t] # s
        \/ op' = Idle /\ \A t \in Trade : op.by = t => SessionOf[t] = s
    BY <1>1 DEF Halt
  <2>4. EntryOwned'
    BY <2>1, <2>2, <2>3 DEF OwnershipInv, EntryOwned, IsUp, Idle
  <2>5. RegistryMirrorsTrades'
    BY <2>1, <2>2, <2>3 DEF OwnershipInv, RegistryMirrorsTrades, Registered,
       IsUp, InPhase, TypeOK
  <2>6. \A t \in Trade : Registered(t)' /\ ~IsUp(t)' /\ SessionOf[t] \in active' =>
                           StoredOpen(t)'
    BY <2>1, <2>2, <2>3 DEF OwnershipInv, Registered, IsUp, StoredOpen, Idle
  <2>7. QED
    BY <2>1, <2>2, <2>4, <2>5, <2>6 DEF OwnershipInv, Registered, IsUp, TypeOK
<1>2. ASSUME NEW s \in Session, EngineUp(s) PROVE OwnershipInv'
  <2> DEFINE mine == {t \in Trade : SessionOf[t] = s /\ StoredOpen(t)}
  <2>1. /\ s \in active /\ s \notin up /\ up' = up \cup {s}
        /\ managed' = managed \cup mine /\ UNCHANGED <<active, trade, op>>
        /\ \A t \in mine : Matches(leg'[t], trade[t])
        /\ \A t \in Trade \ mine : leg'[t] = leg[t]
    BY <1>2 DEF EngineUp, exchange, LegOf, Matches
  <2>2. \A t \in mine : /\ ~IsUp(t) /\ op.by # t /\ t \notin managed
                        /\ trade[t].status \in {"waiting", "open"}
    BY <2>1 DEF OwnershipInv, IsUp, StoredOpen
  <2>3. \A t \in Trade : StoredOpen(t)' <=> StoredOpen(t)
    BY <2>1 DEF StoredOpen
  <2>4. EntryOwned'
    BY <2>1, <2>2 DEF OwnershipInv, EntryOwned, IsUp
  <2>5. \A t \in Trade : Registered(t)' =>
           \/ t \in managed' \/ InPhase(t, "protecting")' \/ ~IsUp(t)'
    <3>1. ASSUME NEW t \in Trade \ mine, Registered(t)'
          PROVE  t \in managed' \/ InPhase(t, "protecting")' \/ ~IsUp(t)'
      <4>1. Registered(t)
        BY <2>1, <3>1 DEF Registered
      <4>2. CASE SessionOf[t] = s
        BY <2>1, <3>1, <4>1, <4>2 DEF OwnershipInv, IsUp
      <4>3. CASE SessionOf[t] # s
        BY <2>1, <4>1, <4>3
           DEF OwnershipInv, RegistryMirrorsTrades, IsUp, InPhase
      <4>4. QED BY <4>2, <4>3
    <3>2. QED BY <2>1, <3>1
  <2>6. \A t \in managed' : trade'[t].status \in {"waiting", "open"} =>
           Matches(leg'[t], trade'[t])
    BY <2>1, <2>2 DEF OwnershipInv, RegistryMirrorsTrades, TypeOK, Matches
  <2>7. RegistryMirrorsTrades'
    BY <2>5, <2>6 DEF RegistryMirrorsTrades, Matches
  <2>8. \A t \in managed' : /\ IsUp(t)'
                            /\ trade'[t].status \in {"waiting", "open", "closed"}
    BY <2>1, <2>2 DEF OwnershipInv, IsUp, TypeOK
  <2>9. \A t \in Trade : trade'[t].status \in {"new", "opening"} => ~Registered(t)'
    BY <2>1, <2>2 DEF OwnershipInv, Registered
  <2>10. \A t \in Trade : Registered(t)' /\ ~IsUp(t)' /\ SessionOf[t] \in active' =>
                            StoredOpen(t)'
    BY <2>1, <2>3 DEF OwnershipInv, Registered, IsUp
  <2>11. QED BY <2>1, <2>4, <2>7, <2>8, <2>9, <2>10 DEF OwnershipInv
<1>3. CASE Restart
  <2>1. /\ up' = {} /\ managed' = {} /\ op' = Idle /\ UNCHANGED active
        /\ \A t \in Trade : leg'[t] = RestoredLeg(t)
        /\ \A t \in Trade : StoredOpen(t) => trade'[t] = trade[t]
        /\ \A t \in Trade : trade'[t] = trade[t] \/ trade'[t].status = "lost"
    BY <1>3 DEF Restart, StoredOpen, Over
  <2>2. \A t \in Trade : Registered(t)' => StoredOpen(t)
    BY <2>1 DEF Registered, RestoredLeg
  <2>3. EntryOwned' /\ RegistryMirrorsTrades'
    BY <2>1 DEF EntryOwned, RegistryMirrorsTrades, IsUp, Idle
  <2>4. QED BY <2>1, <2>2, <2>3 DEF OwnershipInv, StoredOpen, Idle
<1>4. QED BY <1>1, <1>2, <1>3 DEF Stop, ForceStop

\* The ownership of every leg, for any schedule of entries, closes, syncs,
\* stops and restarts.
LEMMA OwnershipInvariant == Spec => []OwnershipInv
<1>1. Init => OwnershipInv
  BY DEF Init, OwnershipInv, EntryOwned, RegistryMirrorsTrades, Registered,
         IsUp, Idle, Over
<1>2. TypeOK /\ OwnershipInv /\ [Next]_vars => OwnershipInv'
  <2> SUFFICES ASSUME TypeOK, OwnershipInv, [Next]_vars PROVE OwnershipInv'
    OBVIOUS
  <2>1. CASE UNCHANGED vars
    BY <2>1 DEF vars, OwnershipInv, EntryOwned, RegistryMirrorsTrades,
       Registered, IsUp, InPhase, StoredOpen
  <2>2. QED BY <2>1, StepsOf, EntryOwns, TradeOwns, SessionOwns
<1>3. QED BY <1>1, <1>2, TypeCorrect, PTL DEF Spec

\* The coordinator's registry and the engines never disagree: whatever is
\* closed, netted, activated, stopped or restarted in between, a listed trade is
\* registered with its own quantity and status and its own engine as the owner,
\* and no leg outlives its trade in an engine that runs.
THEOREM RegistryIsExact == Spec => []RegistryMirrorsTrades
<1>1. OwnershipInv => RegistryMirrorsTrades
  BY DEF OwnershipInv
<1>2. QED BY <1>1, OwnershipInvariant, PTL

-----------------------------------------------------------------------------
(* Repeated signals.                                                       *)

\* The trades of stopped sessions that block their bucket.
StopBlocks == {t \in Trade : <<"stopped", t>> \in blocked}

\* A stored trade is open for something and is found either in the registry,
\* with the quantity it has, or among the blocks of its bucket.
StoredIsVisible ==
  \A t \in Trade : StoredOpen(t) =>
    /\ trade[t].qty > 0
    /\ IsUp(t) => t \in managed
    /\ SessionOf[t] \in active => Registered(t)
    /\ Registered(t) => leg[t].qty = trade[t].qty
    /\ Registered(t) \/ t \in StopBlocks

\* An order is for something.
OrdersAreSized == \A t \in Trade : entry[t].status # "none" => entry[t].qty > 0

\* The entry in progress met no block of a stopped session; once it was
\* approved, it repeats no stored trade.
EntryIsFresh ==
  \A t \in Trade : op.by = t =>
    /\ \A u \in Trade : Side[u] = Side[t] => u \notin StopBlocks
    /\ op.phase # "netting" =>
         /\ trade[t].qty > 0
         /\ \A u \in Trade : /\ Side[u] = Side[t]
                             /\ <<t, u>> \in Alike \/ <<u, t>> \in Alike
                             /\ u # t
                             => ~StoredOpen(u)

\* The strengthening of NoDuplicateExposure.
DuplicateInv ==
  /\ \A t \in Trade : Registered(t) => leg[t].qty > 0
  /\ StoredIsVisible
  /\ EntryIsFresh
  /\ NoDuplicateExposure

\* "Close all" and the local stop-loss check, which leave the rest of a partly
\* executed close stored but unmanaged, do not happen.
NoCloseAll == "closeall" \notin Events

\* The stored trades only become fewer and the entry in progress stays or ends:
\* nothing is repeated that was not before.
LEMMA FewerStored ==
  ASSUME EntryIsFresh, NoDuplicateExposure,
         \A u \in Trade : StoredOpen(u)' => StoredOpen(u),
         \/ op' = Idle
         \/ /\ op'.by = op.by /\ op'.phase = op.phase
            /\ StopBlocks' \subseteq StopBlocks
            /\ \A u \in Trade : op.by = u => trade'[u].qty = trade[u].qty
  PROVE  EntryIsFresh' /\ NoDuplicateExposure'
<1>1. NoDuplicateExposure'
  BY DEF NoDuplicateExposure
<1>2. CASE op' = Idle
  BY <1>1, <1>2 DEF EntryIsFresh, Idle
<1>3. CASE op' # Idle
  BY <1>1, <1>3 DEF EntryIsFresh
<1>4. QED BY <1>2, <1>3

\* A step that changes one listed trade and its leg together repeats nothing.
LEMMA OneTradeFresh ==
  ASSUME TypeOK, OwnershipInv, DuplicateInv, UNCHANGED <<active, up>>,
         op'.by = op.by, op'.phase = op.phase,
         StopBlocks' = StopBlocks,
         NEW t \in managed, NEW r \in Logical, NEW l, StoredOpen(t),
         trade' = [trade EXCEPT ![t] = r], leg' = [leg EXCEPT ![t] = l],
         \/ managed' = managed \ {t} /\ l = NoLeg /\ r.status = "closed"
         \/ managed' = managed /\ l = NoLeg /\ r.status = "closed"
         \/ /\ managed' = managed /\ r.status \in {"waiting", "open"} /\ r.qty > 0
            /\ Matches(l, r)
  PROVE  DuplicateInv'
<1>1. t \in Trade /\ IsUp(t) /\ op.by # t
  BY DEF TypeOK, OwnershipInv, EntryOwned
<1>2. /\ trade'[t] = r /\ leg'[t] = l
      /\ \A u \in Trade \ {t} : trade'[u] = trade[u] /\ leg'[u] = leg[u]
  BY <1>1 DEF TypeOK
<1>3. \A u \in Trade : StoredOpen(u)' => StoredOpen(u)
  BY <1>1, <1>2 DEF StoredOpen
<1>4. EntryIsFresh' /\ NoDuplicateExposure'
  BY <1>1, <1>2, <1>3, FewerStored DEF DuplicateInv
<1>5. \A u \in Trade : Registered(u)' => leg'[u].qty > 0
  BY <1>1, <1>2 DEF DuplicateInv, Registered, Matches
<1>6. StoredIsVisible'
  <2>1. ASSUME NEW u \in Trade \ {t}, StoredOpen(u)'
        PROVE  /\ trade'[u].qty > 0
               /\ IsUp(u)' => u \in managed'
               /\ SessionOf[u] \in active' => Registered(u)'
               /\ Registered(u)' => leg'[u].qty = trade'[u].qty
               /\ Registered(u)' \/ u \in StopBlocks'
    BY <1>2, <1>3, <2>1 DEF DuplicateInv, StoredIsVisible, Registered, IsUp
  <2>2. ASSUME StoredOpen(t)'
        PROVE  /\ trade'[t].qty > 0 /\ t \in managed' /\ Registered(t)'
               /\ leg'[t].qty = trade'[t].qty
    BY <1>1, <1>2, <2>2 DEF StoredOpen, Registered, NoLeg, Matches
  <2>3. QED BY <2>1, <2>2 DEF StoredIsVisible
<1>7. QED BY <1>4, <1>5, <1>6 DEF DuplicateInv

\* Nor does a step that keeps status and quantity of a listed trade.
LEMMA NotedFresh ==
  ASSUME TypeOK, OwnershipInv, DuplicateInv,
         UNCHANGED <<active, up, managed, leg, op>>, StopBlocks' = StopBlocks,
         NEW t \in managed, StoredOpen(t), NEW r \in Logical,
         trade' = [trade EXCEPT ![t] = r],
         r.status = trade[t].status, r.qty = trade[t].qty
  PROVE  DuplicateInv'
<1>1. leg' = [leg EXCEPT ![t] = leg[t]]
  BY DEF TypeOK
<1>2. Matches(leg[t], r) /\ r.status \in {"waiting", "open"} /\ r.qty > 0
  BY DEF Matches, OwnershipInv, RegistryMirrorsTrades, StoredOpen, DuplicateInv,
     StoredIsVisible, TypeOK
<1>3. QED BY <1>1, <1>2, OneTradeFresh

\* A close of a listed open trade repeats nothing.
LEMMA ReduceFresh ==
  ASSUME TypeOK, OwnershipInv, DuplicateInv, UNCHANGED <<active, up>>,
         op'.by = op.by, op'.phase = op.phase,
         NEW t \in managed, StoredOpen(t), trade[t].status = "open",
         NEW q \in Nat, NEW e \in Executions(t, q), Reduce(t, q, e),
         ForgetIfClosed(t)
  PROVE  DuplicateInv'
<1> DEFINE left == trade[t].qty - Reported(t, q, e)
           r == IF left = 0 THEN Closed ELSE [trade[t] EXCEPT !.qty = left]
           l == IF left = 0 THEN NoLeg ELSE OpenLeg(t, left)
<1>1. trade' = [trade EXCEPT ![t] = r] /\ leg' = [leg EXCEPT ![t] = l]
  BY DEF Reduce
<1>2. t \in Trade /\ trade'[t] = r /\ left \in Nat
  BY <1>1, ReportedBounds DEF TypeOK
<1>3. StopBlocks' = StopBlocks
  BY DEF ForgetIfClosed, Forget, StopBlocks
<1>4. CASE left = 0
  <2>1. Closed.status = "closed" /\ Closed \in Logical
    BY Records DEF Closed, Over
  <2>2. /\ trade' = [trade EXCEPT ![t] = Closed] /\ leg' = [leg EXCEPT ![t] = NoLeg]
        /\ managed' = managed \ {t}
    BY <1>1, <1>2, <1>4, <2>1 DEF ForgetIfClosed, Forget
  <2>3. QED BY <1>3, <2>1, <2>2, OneTradeFresh
<1>5. CASE left # 0
  <2> DEFINE w == [trade[t] EXCEPT !.qty = left]
  <2>1. w \in Logical /\ w.status = "open" /\ w.qty = left
    BY <1>2 DEF TypeOK, Logical
  <2>2. /\ trade' = [trade EXCEPT ![t] = w]
        /\ leg' = [leg EXCEPT ![t] = OpenLeg(t, left)]
        /\ managed' = managed /\ left > 0
    BY <1>1, <1>2, <1>5, <2>1 DEF ForgetIfClosed
  <2>3. Matches(OpenLeg(t, left), w)
    BY <2>1 DEF OpenLeg, LegOf, Matches
  <2> HIDE DEF left, w
  <2>4. QED BY <1>3, <2>1, <2>2, <2>3, OneTradeFresh
<1>6. QED BY <1>4, <1>5

\* An entry that is given up repeats nothing.
LEMMA AbortFresh ==
  ASSUME TypeOK, OwnershipInv, DuplicateInv, UNCHANGED <<active, up, managed, blocked>>,
         NEW t \in Trade, op.by = t, Abort(t)
  PROVE  DuplicateInv'
<1>1. IsUp(t) /\ t \notin managed
  BY DEF OwnershipInv, EntryOwned
<1>2. /\ trade'[t] = Closed /\ leg'[t] = NoLeg /\ op' = Idle
      /\ \A u \in Trade \ {t} : trade'[u] = trade[u] /\ leg'[u] = leg[u]
  BY DEF Abort, TypeOK
<1>3. \A u \in Trade : StoredOpen(u)' => StoredOpen(u) /\ u # t
  BY <1>2 DEF StoredOpen, Closed, Over
<1>4. EntryIsFresh' /\ NoDuplicateExposure'
  BY <1>2, <1>3, FewerStored DEF DuplicateInv
<1>5. \A u \in Trade : Registered(u)' => leg'[u].qty > 0
  BY <1>2 DEF DuplicateInv, Registered
<1>6. StoredIsVisible'
  BY <1>2, <1>3 DEF DuplicateInv, StoredIsVisible, Registered, IsUp, StopBlocks
<1>7. QED BY <1>4, <1>5, <1>6 DEF DuplicateInv

\* What is registered, listed or blocked stays so in a step of the entry of t
\* that changes nothing of the other trades.
LEMMA OthersVisible ==
  ASSUME DuplicateInv, UNCHANGED <<active, up, blocked>>, NEW t \in Trade,
         managed \subseteq managed', op.by = t, op'.by \in {t, Nobody},
         \A u \in Trade \ {t} : trade'[u] = trade[u] /\ leg'[u] = leg[u],
         Registered(t)' => leg'[t].qty > 0,
         StoredOpen(t)' => /\ trade'[t].qty > 0 /\ t \in managed' /\ Registered(t)'
                           /\ leg'[t].qty = trade'[t].qty
  PROVE  /\ \A u \in Trade : Registered(u)' => leg'[u].qty > 0
         /\ StoredIsVisible'
<1>1. \A u \in Trade : Registered(u)' => leg'[u].qty > 0
  BY DEF DuplicateInv, Registered
<1>2. ASSUME NEW u \in Trade \ {t}, StoredOpen(u)'
      PROVE  /\ trade'[u].qty > 0
             /\ IsUp(u)' => u \in managed'
             /\ SessionOf[u] \in active' => Registered(u)'
             /\ Registered(u)' => leg'[u].qty = trade'[u].qty
             /\ Registered(u)' \/ u \in StopBlocks'
  <2>1. StoredOpen(u)
    BY <1>2 DEF StoredOpen
  <2>2. QED BY <2>1 DEF DuplicateInv, StoredIsVisible, Registered, IsUp, StopBlocks
<1>3. QED BY <1>1, <1>2 DEF StoredIsVisible

\* The decision to enter: a stored trade that the entry would repeat is in the
\* registry, since its bucket is not blocked, and it would have been found.
LEMMA ApprovedIsFresh ==
  ASSUME TypeOK, OwnershipInv, DuplicateInv, NEW t \in Trade, op.by = t,
         ~IsDuplicate(t), NEW u \in Trade, u # t, Side[u] = Side[t],
         <<t, u>> \in Alike \/ <<u, t>> \in Alike
  PROVE  ~StoredOpen(u)
<1>1. SUFFICES ASSUME StoredOpen(u) PROVE FALSE
  OBVIOUS
<1>2. Registered(u)
  BY <1>1 DEF DuplicateInv, StoredIsVisible, EntryIsFresh
<1>3. leg[u].qty > 0
  BY <1>2 DEF DuplicateInv
<1>4. u \in SameSideLegs(t)
  BY <1>2, <1>3 DEF SameSideLegs
<1>5. QED BY <1>4 DEF IsDuplicate

\* The steps of the entry that has the guard repeat nothing.
LEMMA EntryFresh ==
  ASSUME TypeOK, OwnershipInv, DuplicateInv, OrdersAreSized,
         NEW t \in Trade, EntryStep(t)
  PROVE  DuplicateInv'
<1>1. ASSUME NEW e, NetClose(t, e) PROVE DuplicateInv'
  <2> DEFINE u == Head(op.todo).of
             q == MinOf(NetQty(t), trade[u].qty)
  <2>1. /\ u \in managed /\ trade[u].status = "open" /\ e \in Executions(u, q)
        /\ Reduce(u, q, e) /\ ForgetIfClosed(u) /\ UNCHANGED <<active, up>>
        /\ op.by = t /\ ~NettingDone(t)
    BY <1>1 DEF NetClose, Netting, sessions
  <2>2. op'.by = op.by /\ op'.phase = op.phase
    BY <1>1 DEF NetClose, TypeOK, Entry
  <2>3. StoredOpen(u)
    BY <2>1 DEF StoredOpen, OwnershipInv, EntryOwned
  <2>4. q \in Nat
    <3>1. op.todo \in Seq([of : Trade, leg : Leg]) /\ op.todo # <<>>
      BY <2>1 DEF NettingDone, TypeOK, Entry
    <3>2. \A S : \A s \in Seq(S) : s # <<>> => Head(s) \in S
      OBVIOUS
    <3>3. Head(op.todo) \in [of : Trade, leg : Leg]
      BY <3>1, <3>2
    <3>4. Head(op.todo).leg.qty \in Nat /\ u \in Trade
      BY <3>3 DEF Leg
    <3>5. op.offset \in Nat /\ Want[t] \in Nat /\ trade[u].qty \in Nat
      BY <3>4 DEF TypeOK, Entry, Logical
    <3>6. Want[t] - op.offset \in Nat
      BY <2>1, <3>5 DEF NettingDone
    <3>7. NetQty(t) \in Nat
      BY <3>4, <3>6, FloorAndMin DEF NetQty
    <3>8. QED BY <3>5, <3>7, FloorAndMin
  <2> HIDE DEF u, q
  <2>5. QED BY <2>1, <2>2, <2>3, <2>4, ReduceFresh
<1>2. ASSUME NEW e, NetRaises(t, e) PROVE DuplicateInv'
  <2>1. PICK u, left :
        /\ u \in managed /\ trade[u].status = "open" /\ op.by = t /\ left > 0
        /\ trade' = [trade EXCEPT ![u].qty = left, ![t] = Closed]
        /\ leg' = [leg EXCEPT ![u] = OpenLeg(u, left), ![t] = NoLeg]
        /\ op' = Idle /\ UNCHANGED <<active, up, managed, blocked>>
    BY <1>2 DEF NetRaises, Netting, sessions
  <2>2. u \in Trade /\ u # t /\ IsUp(u) /\ StoredOpen(u)
    BY <2>1 DEF OwnershipInv, EntryOwned, TypeOK, StoredOpen
  <2>3. /\ trade'[t] = Closed /\ leg'[t] = NoLeg /\ leg'[u] = OpenLeg(u, left)
        /\ trade'[u].status = "open" /\ trade'[u].qty = left
        /\ \A v \in Trade \ {t, u} : trade'[v] = trade[v] /\ leg'[v] = leg[v]
    BY <2>1, <2>2 DEF TypeOK, Logical
  <2>4. OpenLeg(u, left).qty = left /\ OpenLeg(u, left) # NoLeg
    BY DEF OpenLeg, LegOf, NoLeg
  <2>5. \A v \in Trade : StoredOpen(v)' => StoredOpen(v) /\ v # t
    BY <2>1, <2>2, <2>3 DEF StoredOpen, Closed, Over
  <2>6. EntryIsFresh' /\ NoDuplicateExposure'
    BY <2>1, <2>5, FewerStored DEF DuplicateInv
  <2>7. \A v \in Trade : Registered(v)' => leg'[v].qty > 0
    <3>1. leg'[u].qty > 0 /\ leg'[t] = NoLeg
      BY <2>1, <2>3, <2>4
    <3>2. ASSUME NEW v \in Trade \ {t, u}, Registered(v)' PROVE leg'[v].qty > 0
      BY <2>3, <3>2 DEF DuplicateInv, Registered
    <3>3. QED BY <3>1, <3>2 DEF Registered
  <2>8. StoredIsVisible'
    <3>1. ASSUME NEW v \in Trade \ {t, u}, StoredOpen(v)'
          PROVE  /\ trade'[v].qty > 0
                 /\ IsUp(v)' => v \in managed'
                 /\ SessionOf[v] \in active' => Registered(v)'
                 /\ Registered(v)' => leg'[v].qty = trade'[v].qty
                 /\ Registered(v)' \/ v \in StopBlocks'
      BY <2>1, <2>3, <2>5, <3>1
         DEF DuplicateInv, StoredIsVisible, Registered, IsUp, StopBlocks
    <3>2. /\ trade'[u].qty > 0 /\ u \in managed' /\ Registered(u)'
          /\ leg'[u].qty = trade'[u].qty
      BY <2>1, <2>3, <2>4 DEF Registered
    <3>3. QED BY <2>5, <3>1, <3>2 DEF StoredIsVisible
  <2>9. QED BY <2>6, <2>7, <2>8 DEF DuplicateInv
<1>3. ASSUME \/ \E e : Flattened(t, e)
             \/ NetConflict(t) \/ DecideAgainst(t) \/ EntryRejected(t)
             \/ EntryUnconfirmed(t) \/ FlattenFails(t)
      PROVE  DuplicateInv'
  <2>1. op.by = t /\ Abort(t) /\ UNCHANGED <<active, up, managed, blocked>>
    BY <1>3 DEF Flattened, NetConflict, DecideAgainst, EntryRejected,
       EntryUnconfirmed, FlattenFails, Netting, InPhase, sessions
  <2>2. QED BY <2>1, AbortFresh
<1>4. ASSUME NEW x, Decide(t, x) PROVE DuplicateInv'
  <2>1. /\ op.by = t /\ op.phase = "netting" /\ op'.by = t /\ op'.phase = "entering"
        /\ ~IsDuplicate(t) /\ x \in 1 .. Residual(t)
        /\ trade' = [trade EXCEPT ![t].qty = x]
        /\ UNCHANGED <<active, up, managed, leg, blocked>>
    BY <1>4 DEF Decide, Approves, Netting, sessions, registry, TypeOK, Entry
  <2>2. x > 0
    <3>1. Residual(t) \in Nat
      BY FloorAndMin DEF Residual, TypeOK, Entry
    <3>2. QED BY <2>1, <3>1
  <2>3. /\ ~Registered(t) /\ trade'[t].qty = x
        /\ \A u \in Trade \ {t} : trade'[u] = trade[u]
    BY <2>1 DEF OwnershipInv, EntryOwned, TypeOK, Logical
  <2>4. \A u \in Trade : StoredOpen(u)' => StoredOpen(u) /\ u # t
    BY <2>1, <2>3 DEF StoredOpen
  <2>5. \A u \in Trade : Registered(u)' => Registered(u) /\ leg'[u].qty > 0
    BY <2>1 DEF DuplicateInv, Registered
  <2>6. StoredIsVisible'
    BY <2>1, <2>3, <2>4
       DEF DuplicateInv, StoredIsVisible, Registered, IsUp, StopBlocks
  <2>7. NoDuplicateExposure'
    BY <2>4 DEF DuplicateInv, NoDuplicateExposure
  <2>8. EntryIsFresh'
    <3>1. ASSUME NEW u \in Trade, Side[u] = Side[t], u # t,
                 <<t, u>> \in Alike \/ <<u, t>> \in Alike
          PROVE  ~StoredOpen(u)'
      <4>1. ~StoredOpen(u)
        BY <2>1, <3>1, ApprovedIsFresh
      <4>2. QED BY <2>4, <4>1
    <3>2. StopBlocks' = StopBlocks
      BY <2>1 DEF StopBlocks
    <3>3. QED BY <2>1, <2>2, <2>3, <3>1, <3>2 DEF EntryIsFresh, DuplicateInv
  <2>9. QED BY <2>5, <2>6, <2>7, <2>8 DEF DuplicateInv
<1>5. ASSUME NEW n, NEW x, Submit(t, n, x) PROVE DuplicateInv'
  <2>1. /\ op.by = t /\ op.phase = "entering" /\ op'.by = t /\ op'.phase = "submitted"
        /\ trade' = [trade EXCEPT ![t].qty = IF x = 0 THEN MinOf(trade[t].qty, n) ELSE x]
        /\ x \in 0 .. n /\ n \in Orderable(t)
        /\ UNCHANGED <<active, up, managed, leg, blocked>>
    BY <1>5 DEF Submit, InPhase, sessions, registry, TypeOK, Entry
  <2>2. /\ ~Registered(t) /\ trade[t].qty \in Nat
        /\ trade'[t].qty = (IF x = 0 THEN MinOf(trade[t].qty, n) ELSE x)
        /\ \A u \in Trade \ {t} : trade'[u] = trade[u]
    BY <2>1 DEF OwnershipInv, EntryOwned, TypeOK, Logical
  <2>3. trade'[t].qty > 0
    <3>1. trade[t].qty > 0
      BY <2>1 DEF DuplicateInv, EntryIsFresh
    <3>2. n \in Nat /\ n > 0
      BY <2>1, <3>1, OrderTypes DEF Orderable
    <3>3. QED BY <2>1, <2>2, <3>1, <3>2 DEF MinOf
  <2>4. \A u \in Trade : StoredOpen(u)' => StoredOpen(u) /\ u # t
    BY <2>1, <2>2 DEF StoredOpen
  <2>5. \A u \in Trade : Registered(u)' => Registered(u) /\ leg'[u].qty > 0
    BY <2>1 DEF DuplicateInv, Registered
  <2>6. StoredIsVisible'
    BY <2>1, <2>2, <2>4
       DEF DuplicateInv, StoredIsVisible, Registered, IsUp, StopBlocks
  <2>7. NoDuplicateExposure'
    BY <2>4 DEF DuplicateInv, NoDuplicateExposure
  <2>8. EntryIsFresh'
    <3>1. StopBlocks' = StopBlocks
      BY <2>1 DEF StopBlocks
    <3>2. QED BY <2>1, <2>3, <2>4, <3>1 DEF EntryIsFresh, DuplicateInv
  <2>9. QED BY <2>5, <2>6, <2>7, <2>8 DEF DuplicateInv
<1>6. CASE EntryFilled(t)
  <2> DEFINE n == entry[t].qty
  <2>1. /\ op.by = t /\ op.phase = "submitted" /\ op'.by = t
        /\ op'.phase = "protecting" /\ UNCHANGED <<active, up, managed, blocked>>
        /\ trade' = [trade EXCEPT ![t].status = "open", ![t].qty = n]
        /\ leg' = [leg EXCEPT ![t] = OpenLeg(t, n)]
    BY <1>6 DEF EntryFilled, InPhase, sessions, TypeOK, Entry
  <2>2. /\ trade'[t].qty = n /\ leg'[t] = OpenLeg(t, n)
        /\ \A u \in Trade \ {t} : trade'[u] = trade[u] /\ leg'[u] = leg[u]
    BY <2>1 DEF TypeOK, Logical
  <2>3. n > 0
    BY <1>6 DEF EntryFilled, Filled, OrdersAreSized
  <2>4. OpenLeg(t, n).qty = n
    BY DEF OpenLeg, LegOf
  <2>5. \A u \in Trade : StoredOpen(u)' => StoredOpen(u) /\ u # t
    BY <2>1, <2>2 DEF StoredOpen
  <2>6. (\A u \in Trade : Registered(u)' => leg'[u].qty > 0) /\ StoredIsVisible'
    BY <2>1, <2>2, <2>3, <2>4, <2>5, OthersVisible
  <2>7. NoDuplicateExposure'
    BY <2>5 DEF DuplicateInv, NoDuplicateExposure
  <2>8. EntryIsFresh'
    <3>1. StopBlocks' = StopBlocks
      BY <2>1 DEF StopBlocks
    <3>2. QED BY <2>1, <2>2, <2>3, <2>5, <3>1 DEF EntryIsFresh, DuplicateInv
  <2>9. QED BY <2>6, <2>7, <2>8 DEF DuplicateInv
<1>7. ASSUME EntryWaits(t) \/ Protected(t) PROVE DuplicateInv'
  <2>1. /\ op.by = t /\ op.phase \notin {"idle", "netting"} /\ op' = Idle
        /\ managed' = managed \cup {t} /\ UNCHANGED <<active, up, blocked>>
        /\ \A u \in Trade \ {t} : trade'[u] = trade[u] /\ leg'[u] = leg[u]
    BY <1>7 DEF EntryWaits, Protected, InPhase, sessions, registry, TypeOK
  <2>2. trade[t].qty > 0 /\ trade'[t].qty = trade[t].qty
    BY <1>7, <2>1 DEF DuplicateInv, EntryIsFresh, EntryWaits, Protected, TypeOK, Logical
  <2>3. leg'[t].qty = trade[t].qty /\ Registered(t)'
    <3>1. CASE EntryWaits(t)
      <4>1. leg'[t] = WaitingLeg(t, trade[t].qty)
        BY <3>1 DEF EntryWaits, TypeOK
      <4>2. QED BY <4>1 DEF WaitingLeg, LegOf, Registered, NoLeg
    <3>2. CASE Protected(t)
      <4>1. Matches(leg'[t], trade[t]) /\ trade[t].status = "open"
        BY <3>2 DEF Protected, InPhase, registry, OwnershipInv, EntryOwned
      <4>2. QED BY <4>1 DEF Matches, Registered, NoLeg
    <3>3. QED BY <1>7, <3>1, <3>2
  <2>4. (\A u \in Trade : Registered(u)' => leg'[u].qty > 0) /\ StoredIsVisible'
    BY <2>1, <2>2, <2>3, OthersVisible DEF Idle
  <2>5. \A u \in Trade : StoredOpen(u)' /\ u # t => StoredOpen(u)
    BY <2>1 DEF StoredOpen
  <2>6. ASSUME NEW u \in Trade, Side[u] = Side[t], u # t,
               <<t, u>> \in Alike \/ <<u, t>> \in Alike
        PROVE  ~StoredOpen(u)
    <3>1. op.by = t /\ op.phase # "netting"
      BY <2>1
    <3>2. QED BY <2>6, <3>1 DEF DuplicateInv, EntryIsFresh
  <2>7. NoDuplicateExposure'
    BY <2>5, <2>6 DEF DuplicateInv, NoDuplicateExposure
  <2>8. EntryIsFresh'
    BY <2>1 DEF EntryIsFresh, Idle
  <2>9. QED BY <2>4, <2>7, <2>8 DEF DuplicateInv
<1>8. QED
  BY <1>1, <1>2, <1>3, <1>4, <1>5, <1>6, <1>7 DEF EntryStep

\* The other steps of a trade repeat nothing: they only reduce stored trades,
\* activate waiting ones, or start an entry in a bucket that is not blocked.
LEMMA TradeFresh ==
  ASSUME NoCloseAll, TypeOK, OwnershipInv, DuplicateInv, OrdersAreSized,
         NEW t \in Trade, TradeStep(t)
  PROVE  DuplicateInv'
<1>0. /\ trade[t] \in Logical /\ trade[t].qty \in Nat /\ due[t] \in Nat
      /\ entry[t].qty \in Nat
  BY DEF TypeOK, Logical, Order
<1>1. CASE Signal(t)
  <2>1. /\ trade[t].status = "new"
        /\ UNCHANGED <<active, up, managed, leg, op, blocked>>
        /\ trade' = [trade EXCEPT ![t] = [status |-> "opening", qty |-> Want[t],
                                          risk |-> StopRisk[t], missed |-> FALSE]]
    BY <1>1 DEF Signal, sessions, registry
  <2>2. /\ trade'[t].status = "opening" /\ op.by # t
        /\ \A u \in Trade \ {t} : trade'[u] = trade[u]
    BY <2>1 DEF OwnershipInv, EntryOwned, TypeOK
  <2>3. \A u \in Trade : StoredOpen(u)' => StoredOpen(u) /\ u # t
    BY <2>1, <2>2 DEF StoredOpen
  <2>4. StopBlocks' = StopBlocks
    BY <2>1 DEF StopBlocks
  <2>5. EntryIsFresh' /\ NoDuplicateExposure'
    BY <2>1, <2>2, <2>3, <2>4, FewerStored DEF DuplicateInv
  <2>6. StoredIsVisible'
    BY <2>1, <2>2, <2>3, <2>4 DEF DuplicateInv, StoredIsVisible, Registered, IsUp
  <2>7. QED BY <2>1, <2>5, <2>6 DEF DuplicateInv, Registered
<1>2. ASSUME NEW unseen, Admit(t, unseen) PROVE DuplicateInv'
  <2> DEFINE freed == Releasable(t, unseen)
             end == IF Refused(t, freed) THEN freed \cup {t} ELSE freed
  <2>1. /\ op = Idle /\ trade[t].status = "opening"
        /\ trade' = [u \in Trade |-> IF u \in end THEN Closed ELSE trade[u]]
        /\ blocked' = blocked \ ({"stopped"} \X freed)
        /\ UNCHANGED <<active, up, managed, leg>>
        /\ Refused(t, freed) => op' = Idle
        /\ ~Refused(t, freed) => op'.by = t /\ op'.phase = "netting"
    BY <1>2 DEF Admit, sessions
  <2>2. /\ \A u \in Trade : trade'[u] = IF u \in end THEN Closed ELSE trade[u]
        /\ freed \subseteq end
    BY <2>1
  <2> HIDE DEF end, freed
  <2>3. \A u \in Trade : StoredOpen(u)' => /\ StoredOpen(u) /\ u \notin freed
                                          /\ trade'[u] = trade[u]
    BY <2>1, <2>2 DEF StoredOpen, Closed, Over, Idle
  <2>4. StopBlocks' = StopBlocks \ freed
    BY <2>1 DEF StopBlocks
  <2>5. StoredIsVisible'
    BY <2>1, <2>3, <2>4 DEF DuplicateInv, StoredIsVisible, Registered, IsUp
  <2>6. NoDuplicateExposure'
    BY <2>3 DEF DuplicateInv, NoDuplicateExposure
  <2>7. EntryIsFresh'
    <3>1. CASE Refused(t, freed)
      BY <2>1, <3>1 DEF EntryIsFresh, Idle
    <3>2. CASE ~Refused(t, freed)
      <4>1. ASSUME NEW u \in Trade, Side[u] = Side[t] PROVE u \notin StopBlocks'
        <5>1. SUFFICES ASSUME u \in StopBlocks PROVE u \in freed
          BY <2>4
        <5>2. <<"stopped", u>> \in BlockReasons(Side[t])
          BY <4>1, <5>1 DEF StopBlocks, BlockReasons
        <5>3. QED BY <3>2, <5>2 DEF Refused
      <4>2. QED BY <2>1, <3>2, <4>1 DEF EntryIsFresh
    <3>3. QED BY <3>1, <3>2
  <2>8. QED BY <2>1, <2>5, <2>6, <2>7 DEF DuplicateInv, Registered
<1>3. ASSUME NEW q, NEW e, CloseTrade(t, q, e) PROVE DuplicateInv'
  <2>1. /\ t \in managed /\ StoredOpen(t) /\ UNCHANGED <<active, up, op>>
        /\ q \in Nat /\ e \in Executions(t, q) /\ Reduce(t, q, e)
        /\ ForgetIfClosed(t) /\ trade[t].status = "open"
    BY <1>0, <1>3 DEF CloseTrade, Holds, GuardFree, StoredOpen, Idle, sessions
  <2>2. QED BY <2>1, ReduceFresh
<1>4. ~ \E e : CloseAll(t, e)
  BY DEF CloseAll, NoCloseAll
<1>5. ASSUME NEW e, ActivateFlattened(t, e) PROVE DuplicateInv'
  <2>1. PICK left \in Nat :
        /\ t \in managed /\ StoredOpen(t) /\ UNCHANGED <<active, up, op, managed>>
        /\ trade' = [trade EXCEPT ![t] = IF left = 0 THEN Closed
                      ELSE [trade[t] EXCEPT !.status = "open", !.qty = left]]
        /\ leg' = [leg EXCEPT ![t] = IF left = 0 THEN NoLeg ELSE OpenLeg(t, left)]
        /\ StopBlocks' = StopBlocks
    <3> DEFINE n == entry[t].qty
               most == IF SameSideLegs(t) = {} THEN held[Side[t]]
                                               ELSE MinOf(n, held[Side[t]])
               left == IF SameSideLegs(t) = {} THEN MinOf(n, held[Side[t]] - e)
                                               ELSE Less(n, e)
    <3>1. held[Side[t]] \in Nat
      BY DEF TypeOK
    <3>2. MinOf(n, held[Side[t]]) \in Nat /\ MinOf(n, held[Side[t]]) <= held[Side[t]]
      BY <1>0, <3>1, FloorAndMin
    <3>3. e \in Nat /\ held[Side[t]] - e \in Nat
      BY <1>5, <3>1, <3>2 DEF ActivateFlattened
    <3>4. left \in Nat
      BY <1>0, <3>3, FloorAndMin
    <3>5. t \in managed /\ StoredOpen(t) /\ UNCHANGED <<active, up, op, managed>>
          /\ StopBlocks' = StopBlocks
      BY <1>5 DEF ActivateFlattened, Holds, GuardFree, StoredOpen, Idle,
         sessions, StopBlocks
    <3>6. /\ trade' = [trade EXCEPT ![t] = IF left = 0 THEN Closed
                      ELSE [trade[t] EXCEPT !.status = "open", !.qty = left]]
          /\ leg' = [leg EXCEPT ![t] = IF left = 0 THEN NoLeg ELSE OpenLeg(t, left)]
      BY <1>5 DEF ActivateFlattened
    <3> HIDE DEF left
    <3>7. QED BY <3>4, <3>5, <3>6
  <2>2. CASE left = 0
    <3>1. /\ trade' = [trade EXCEPT ![t] = Closed] /\ Closed.status = "closed"
          /\ leg' = [leg EXCEPT ![t] = NoLeg] /\ Closed \in Logical
      BY <2>1, <2>2, Records DEF Closed, Over
    <3>2. QED BY <2>1, <3>1, OneTradeFresh
  <2>3. CASE left # 0
    <3> DEFINE r == [trade[t] EXCEPT !.status = "open", !.qty = left]
    <3>1. /\ trade' = [trade EXCEPT ![t] = r]
          /\ leg' = [leg EXCEPT ![t] = OpenLeg(t, left)] /\ left > 0
      BY <2>1, <2>3
    <3>2. r \in Logical /\ r.status = "open" /\ r.qty = left
      BY <1>0, <2>1 DEF Logical
    <3>3. Matches(OpenLeg(t, left), r)
      BY <3>2 DEF OpenLeg, LegOf, Matches
    <3> HIDE DEF r
    <3>4. QED BY <2>1, <3>1, <3>2, <3>3, OneTradeFresh
  <2>4. QED BY <2>2, <2>3
<1>6. CASE CancelEntry(t)
  <2>1. /\ t \in managed /\ StoredOpen(t) /\ UNCHANGED <<active, up, op>>
        /\ trade' = [trade EXCEPT ![t] = Closed] /\ Closed.status = "closed"
        /\ leg' = [leg EXCEPT ![t] = NoLeg] /\ managed' = managed \ {t}
        /\ StopBlocks' = StopBlocks /\ Closed \in Logical
    BY <1>6, Records DEF CancelEntry, Holds, GuardFree, StoredOpen, Idle,
       sessions, StopBlocks, Closed, Over
  <2>2. QED BY <2>1, OneTradeFresh
<1>7. CASE Sync(t)
  <2>1. PICK left \in Nat :
        /\ t \in managed /\ StoredOpen(t) /\ UNCHANGED <<active, up, op>>
        /\ trade[t].status = "open"
        /\ trade' = [trade EXCEPT ![t] = IF left = 0 THEN Closed
                                    ELSE [trade[t] EXCEPT !.qty = left]]
        /\ leg' = [leg EXCEPT ![t] = IF left = 0 THEN NoLeg ELSE OpenLeg(t, left)]
        /\ managed' = IF left = 0 THEN managed \ {t} ELSE managed
        /\ StopBlocks' = StopBlocks
    <3>1. Less(trade[t].qty, due[t]) \in Nat
      BY <1>0, FloorAndMin
    <3>2. StopBlocks' = StopBlocks
      BY <1>7 DEF Sync, StopBlocks
    <3>3. t \in managed /\ StoredOpen(t) /\ UNCHANGED <<active, up, op>>
      BY <1>7 DEF Sync, Holds, GuardFree, StoredOpen, Idle, sessions
    <3>4. QED BY <1>7, <3>1, <3>2, <3>3 DEF Sync, Holds
  <2>2. CASE left = 0
    <3>1. /\ trade' = [trade EXCEPT ![t] = Closed] /\ Closed.status = "closed"
          /\ leg' = [leg EXCEPT ![t] = NoLeg] /\ managed' = managed \ {t}
          /\ Closed \in Logical
      BY <2>1, <2>2, Records DEF Closed, Over
    <3>2. QED BY <2>1, <3>1, OneTradeFresh
  <2>3. CASE left # 0
    <3> DEFINE r == [trade[t] EXCEPT !.qty = left]
    <3>1. /\ trade' = [trade EXCEPT ![t] = r] /\ left > 0
          /\ leg' = [leg EXCEPT ![t] = OpenLeg(t, left)] /\ managed' = managed
      BY <2>1, <2>3
    <3>2. r \in Logical /\ r.status = "open" /\ r.qty = left
      BY <1>0, <2>1 DEF Logical
    <3>3. Matches(OpenLeg(t, left), r)
      BY <3>2 DEF OpenLeg, LegOf, Matches
    <3> HIDE DEF r
    <3>4. QED BY <2>1, <3>1, <3>2, <3>3, OneTradeFresh
  <2>4. QED BY <2>2, <2>3
<1>8. CASE Activate(t)
  <2> DEFINE n == entry[t].qty
             r == [trade[t] EXCEPT !.status = "open", !.qty = n]
             l == OpenLeg(t, n)
  <2>1. /\ t \in managed /\ UNCHANGED <<active, up, op, managed>>
        /\ trade' = [trade EXCEPT ![t] = r] /\ leg' = [leg EXCEPT ![t] = l]
        /\ StopBlocks' = StopBlocks
    BY <1>8 DEF Activate, Holds, sessions, StopBlocks
  <2>2. StoredOpen(t)
    BY <1>8 DEF Activate, Holds, StoredOpen, OwnershipInv, EntryOwned
  <2>3. n > 0
    BY <1>8 DEF Activate, Filled, OrdersAreSized
  <2>4. /\ r \in Logical /\ r.qty > 0 /\ r.status = "open" /\ Matches(l, r)
    BY <1>0, <2>3 DEF Logical, OpenLeg, LegOf, Matches
  <2> HIDE DEF r, l
  <2>5. QED BY <2>1, <2>2, <2>4, OneTradeFresh
<1>9. CASE EntryExecutes(t) \/ StopExecutes(t) \/ Issue(t)
  <2>1. /\ UNCHANGED <<active, up, trade, managed, leg>>
        /\ op'.by = op.by /\ op'.phase = op.phase
        /\ StopBlocks' = StopBlocks
    BY <1>9 DEF EntryExecutes, StopExecutes, Issue, sessions, registry, StopBlocks,
       TypeOK, Entry
  <2>2. QED
    BY <2>1 DEF DuplicateInv, StoredIsVisible, EntryIsFresh, NoDuplicateExposure,
       Registered, IsUp, StoredOpen
<1>10. ASSUME Holds(t, "open") PROVE t \in managed /\ StoredOpen(t)
  BY <1>10 DEF Holds, StoredOpen, OwnershipInv, EntryOwned
<1>11. CASE PositionFound(t)
  <2> DEFINE r == [trade[t] EXCEPT !.missed = FALSE]
  <2>1. /\ UNCHANGED <<active, up, managed, leg, op>>
        /\ trade' = [trade EXCEPT ![t] = r] /\ StopBlocks' = StopBlocks
    BY <1>11 DEF PositionFound, sessions, StopBlocks
  <2>2. r \in Logical /\ r.status = trade[t].status /\ r.qty = trade[t].qty
    BY <1>0 DEF Logical
  <2> HIDE DEF r
  <2>3. QED BY <1>10, <1>11, <2>1, <2>2, NotedFresh DEF PositionFound
<1>12. CASE PositionMissing(t)
  <2>1. t \in managed /\ StoredOpen(t)
    BY <1>10, <1>12 DEF PositionMissing
  <2>2. CASE trade[t].missed
    <3>1. /\ trade' = [trade EXCEPT ![t] = Closed] /\ Closed.status = "closed"
          /\ leg' = [leg EXCEPT ![t] = NoLeg] /\ managed' = managed \ {t}
          /\ StopBlocks' = StopBlocks /\ Closed \in Logical
          /\ UNCHANGED <<active, up, op>>
      BY <1>12, <2>2, Records DEF PositionMissing, Forget, sessions, StopBlocks,
         Closed, Over
    <3>2. QED BY <2>1, <3>1, OneTradeFresh
  <2>3. CASE ~trade[t].missed
    <3> DEFINE r == [trade[t] EXCEPT !.missed = TRUE]
    <3>1. /\ UNCHANGED <<active, up, managed, leg, op>>
          /\ trade' = [trade EXCEPT ![t] = r] /\ StopBlocks' = StopBlocks
      BY <1>12, <2>3 DEF PositionMissing, sessions, StopBlocks
    <3>2. r \in Logical /\ r.status = trade[t].status /\ r.qty = trade[t].qty
      BY <1>0 DEF Logical
    <3> HIDE DEF r
    <3>3. QED BY <2>1, <3>1, <3>2, NotedFresh
  <2>4. QED BY <2>2, <2>3
<1>13. ASSUME NEW x \in Risks[t], MoveStop(t, x) PROVE DuplicateInv'
  <2> DEFINE r == [trade[t] EXCEPT !.risk = x]
  <2>1. /\ t \in managed /\ trade[t].status \in {"waiting", "open"}
        /\ UNCHANGED <<active, up, managed, leg, op>>
        /\ trade' = [trade EXCEPT ![t] = r] /\ StopBlocks' = StopBlocks
    BY <1>13 DEF MoveStop, sessions, registry, StopBlocks
  <2>2. StoredOpen(t) /\ x \in Nat
    BY <2>1 DEF StoredOpen, OwnershipInv, EntryOwned
  <2>3. r \in Logical /\ r.status = trade[t].status /\ r.qty = trade[t].qty
    BY <1>0, <2>2 DEF Logical
  <2> HIDE DEF r
  <2>4. QED BY <2>1, <2>2, <2>3, NotedFresh
<1>14. QED
  BY <1>1, <1>2, <1>3, <1>4, <1>5, <1>6, <1>7, <1>8, <1>9, <1>11, <1>12, <1>13
     DEF TradeStep

\* Stops and restarts repeat nothing and hide no stored trade: what a stopped
\* session leaves stays registered, and blocks its bucket after a restart.
LEMMA SessionFresh ==
  ASSUME TypeOK, OwnershipInv, DuplicateInv,
         \/ \E s \in Session : Stop(s) \/ ForceStop(s) \/ EngineUp(s)
         \/ Restart
  PROVE  DuplicateInv'
<1>1. ASSUME NEW s \in Session, Halt(s) PROVE DuplicateInv'
  <2>1. /\ s \in up /\ up' = up \ {s} /\ active' = active \ {s}
        /\ managed' = {t \in managed : SessionOf[t] # s} /\ UNCHANGED <<leg, blocked>>
    BY <1>1 DEF Halt, registry
  <2>2. \A t \in Trade : \/ trade'[t] = trade[t]
                         \/ trade'[t].status = "lost"
    BY <1>1 DEF Halt, Over
  <2>3. \/ op' = op
        \/ op' = Idle /\ \A t \in Trade : op.by = t => trade'[t].status = "lost"
    BY <1>1 DEF Halt, Over
  <2>4. \A t \in Trade : StoredOpen(t)' => StoredOpen(t) /\ trade'[t] = trade[t]
    BY <2>2, <2>3 DEF StoredOpen
  <2>5. StopBlocks' = StopBlocks
    BY <2>1 DEF StopBlocks
  <2>6. StoredIsVisible'
    <3>1. ASSUME NEW t \in Trade, StoredOpen(t)'
          PROVE  /\ trade'[t].qty > 0
                 /\ IsUp(t)' => t \in managed'
                 /\ SessionOf[t] \in active' => Registered(t)'
                 /\ Registered(t)' => leg'[t].qty = trade'[t].qty
                 /\ Registered(t)' \/ t \in StopBlocks'
      BY <2>1, <2>4, <2>5, <3>1 DEF DuplicateInv, StoredIsVisible, Registered, IsUp
    <3>2. QED BY <3>1 DEF StoredIsVisible
  <2>7. NoDuplicateExposure'
    BY <2>4 DEF DuplicateInv, NoDuplicateExposure
  <2>8. EntryIsFresh'
    <3>1. CASE op' = Idle
      BY <3>1 DEF EntryIsFresh, Idle
    <3>2. CASE op' = op
      <4>1. \A t \in Trade : op.by = t /\ op' # Idle => trade'[t] = trade[t]
        BY <1>1, <3>2 DEF Halt, Idle
      <4>2. QED
        BY <2>4, <2>5, <3>1, <3>2, <4>1 DEF DuplicateInv, EntryIsFresh
    <3>3. QED BY <2>3, <3>1, <3>2
  <2>9. QED BY <2>1, <2>6, <2>7, <2>8 DEF DuplicateInv, Registered
<1>2. ASSUME NEW s \in Session, EngineUp(s) PROVE DuplicateInv'
  <2> DEFINE mine == {t \in Trade : SessionOf[t] = s /\ StoredOpen(t)}
  <2>1. /\ up' = up \cup {s}
        /\ managed' = managed \cup mine /\ UNCHANGED <<active, trade, op, blocked>>
        /\ \A t \in mine : Matches(leg'[t], trade[t])
        /\ \A t \in Trade \ mine : leg'[t] = leg[t]
    BY <1>2 DEF EngineUp, exchange, LegOf, Matches
  <2>2. ASSUME NEW t \in mine
        PROVE  leg'[t].qty > 0 /\ Registered(t)' /\ leg'[t].qty = trade[t].qty
    <3>1. trade[t].qty > 0 /\ trade[t].status \in {"waiting", "open"}
      BY DEF DuplicateInv, StoredIsVisible, StoredOpen
    <3>2. Matches(leg'[t], trade[t])
      BY <2>1
    <3> HIDE DEF mine
    <3>3. leg'[t].status = trade[t].status /\ leg'[t].qty = trade[t].qty
      BY <3>2 DEF Matches
    <3>4. QED BY <3>1, <3>3 DEF Registered, NoLeg
  <2>3. \A t \in Trade : StoredOpen(t)' <=> StoredOpen(t)
    BY <2>1 DEF StoredOpen
  <2>4. StopBlocks' = StopBlocks
    BY <2>1 DEF StopBlocks
  <2>5. \A t \in Trade : Registered(t)' => leg'[t].qty > 0
    BY <2>1, <2>2 DEF DuplicateInv, Registered
  <2>6. StoredIsVisible'
    <3>1. ASSUME NEW t \in mine
          PROVE  t \in managed' /\ Registered(t)' /\ leg'[t].qty = trade'[t].qty
      BY <2>1, <2>2
    <3>2. ASSUME NEW t \in Trade \ mine, StoredOpen(t)
          PROVE  /\ IsUp(t)' => t \in managed'
                 /\ SessionOf[t] \in active' => Registered(t)'
                 /\ Registered(t)' => leg'[t].qty = trade'[t].qty
                 /\ Registered(t)' \/ t \in StopBlocks'
      BY <2>1, <2>4, <3>2 DEF DuplicateInv, StoredIsVisible, Registered, IsUp
    <3>3. \A t \in Trade : StoredOpen(t) => trade'[t].qty > 0
      BY <2>1 DEF DuplicateInv, StoredIsVisible
    <3>4. QED BY <2>3, <3>1, <3>2, <3>3 DEF StoredIsVisible
  <2>7. EntryIsFresh' /\ NoDuplicateExposure'
    BY <2>1, <2>3, <2>4, FewerStored DEF DuplicateInv
  <2>8. QED BY <2>5, <2>6, <2>7 DEF DuplicateInv
<1>3. CASE Restart
  <2>1. /\ up' = {} /\ op' = Idle /\ UNCHANGED active
        /\ \A t \in Trade : leg'[t] = RestoredLeg(t)
        /\ blocked' = RestoredBlocks
        /\ \A t \in Trade : \/ trade'[t] = trade[t] /\ op.by # t
                            \/ trade'[t].status = "lost"
    BY <1>3 DEF Restart, Over
  <2>2. \A t \in Trade : StoredOpen(t)' => StoredOpen(t) /\ trade'[t] = trade[t]
    BY <2>1 DEF StoredOpen
  <2>3. ASSUME NEW t \in Trade, Registered(t)'
        PROVE  StoredOpen(t) /\ leg'[t].qty = trade[t].qty
    <3>1. leg'[t] = RestoredLeg(t) /\ RestoredLeg(t) # NoLeg
      BY <2>1, <2>3 DEF Registered
    <3>2. StoredOpen(t) /\ SessionOf[t] \in active
      BY <3>1 DEF RestoredLeg
    <3>3. QED BY <3>1, <3>2 DEF RestoredLeg, LegOf
  <2>4. \A t \in Trade : Registered(t)' => leg'[t].qty > 0
    BY <2>3 DEF DuplicateInv, StoredIsVisible
  <2>5. StoredIsVisible'
    <3>1. ASSUME NEW t \in Trade, StoredOpen(t)', SessionOf[t] \in active
          PROVE  Registered(t)'
      <4>1. StoredOpen(t) /\ leg'[t] = RestoredLeg(t)
        BY <2>1, <2>2, <3>1
      <4>2. /\ leg'[t].status = trade[t].status
            /\ trade[t].status \in {"waiting", "open"}
        BY <3>1, <4>1 DEF RestoredLeg, LegOf, StoredOpen
      <4>3. QED BY <4>2 DEF Registered, NoLeg
    <3>2. ASSUME NEW t \in Trade, StoredOpen(t)', SessionOf[t] \notin active
          PROVE  t \in StopBlocks'
      BY <2>1, <2>2, <3>2 DEF RestoredBlocks, StopBlocks
    <3>3. \A t \in Trade : StoredOpen(t)' => trade'[t].qty > 0
      BY <2>2 DEF DuplicateInv, StoredIsVisible
    <3>4. \A t \in Trade : StoredOpen(t)' /\ Registered(t)' =>
                             leg'[t].qty = trade'[t].qty
      BY <2>2, <2>3
    <3>5. QED BY <2>1, <3>1, <3>2, <3>3, <3>4 DEF StoredIsVisible, IsUp
  <2>6. EntryIsFresh' /\ NoDuplicateExposure'
    BY <2>1, <2>2, FewerStored DEF DuplicateInv
  <2>7. QED BY <2>4, <2>5, <2>6 DEF DuplicateInv
<1>4. QED BY <1>1, <1>2, <1>3 DEF Stop, ForceStop

\* An order is placed for a part of what was approved or for what the margin
\* buys, and only then.
LEMMA OrdersSized ==
  ASSUME TypeOK, DuplicateInv, OrdersAreSized, Next
  PROVE  OrdersAreSized'
<1> DEFINE Kept(t) == \/ entry'[t] = entry[t] \/ entry'[t] = NoOrder
                      \/ entry'[t].qty = entry[t].qty /\ entry[t].status # "none"
<1>1. SUFFICES (\A t \in Trade : Kept(t)) \/ OrdersAreSized'
  BY DEF OrdersAreSized, NoOrder
<1>2. ASSUME NEW t \in Trade, NEW n, NEW x, Submit(t, n, x) PROVE OrdersAreSized'
  <2>1. trade[t].qty > 0 /\ trade[t].qty \in Nat
    BY <1>2 DEF Submit, InPhase, DuplicateInv, EntryIsFresh, TypeOK, Logical
  <2>2. n \in Nat /\ n > 0 /\ x \in Nat
    BY <1>2, <2>1, OrderTypes DEF Submit, Orderable
  <2>3. entry'[t].qty > 0 /\ \A u \in Trade \ {t} : entry'[u] = entry[u]
    BY <1>2, <2>2 DEF Submit, TypeOK
  <2>4. QED BY <2>3 DEF OrdersAreSized
<1>3. ASSUME NEW t \in Trade, EntryStep(t), ~\E n, x : Submit(t, n, x)
      PROVE  \A u \in Trade : Kept(u)
  BY <1>3 DEF EntryStep, NetClose, Reduce, NetRaises, NetConflict, DecideAgainst,
     Decide, EntryRejected, EntryWaits, EntryFilled, EntryUnconfirmed, Protected,
     Flattened, FlattenFails, exchange, TypeOK
<1>4. ASSUME NEW t \in Trade, TradeStep(t) PROVE \A u \in Trade : Kept(u)
  <2>1. CASE EntryExecutes(t)
    BY <2>1 DEF EntryExecutes, Resting, TypeOK, Order
  <2>2. ASSUME ~EntryExecutes(t) PROVE \A u \in Trade : Kept(u)
    <3>1. \/ UNCHANGED entry \/ entry' = [entry EXCEPT ![t] = NoOrder]
      BY <1>4, <2>2, Zenon DEF TradeStep, Signal, Admit, CloseTrade, Reduce, CloseAll,
         ActivateFlattened, CancelEntry, Sync, StopExecutes, Activate, Issue,
         PositionFound, PositionMissing, MoveStop, exchange
    <3>2. QED BY <3>1 DEF TypeOK
  <2>3. QED BY <2>1, <2>2
<1>5. ASSUME \/ \E s \in Session : Stop(s) \/ ForceStop(s) \/ EngineUp(s)
             \/ Restart
      PROVE  UNCHANGED entry
  BY <1>5 DEF Stop, ForceStop, Halt, EngineUp, Restart, exchange
<1>6. QED BY <1>2, <1>3, <1>4, <1>5, StepsOf

\* Without "close all" the strengthening is an invariant.
LEMMA DuplicateInvariant ==
  ASSUME NoCloseAll PROVE Spec => [](DuplicateInv /\ OrdersAreSized)
<1>1. Init => DuplicateInv /\ OrdersAreSized
  BY DEF Init, DuplicateInv, StoredIsVisible, EntryIsFresh, NoDuplicateExposure,
         StoredOpen, Registered, Idle, Over, OrdersAreSized, NoOrder
<1>2. TypeOK /\ OwnershipInv /\ DuplicateInv /\ OrdersAreSized /\ [Next]_vars
        => DuplicateInv' /\ OrdersAreSized'
  <2> SUFFICES ASSUME TypeOK, OwnershipInv, DuplicateInv, OrdersAreSized, [Next]_vars
               PROVE  DuplicateInv' /\ OrdersAreSized'
    OBVIOUS
  <2>1. CASE UNCHANGED vars
    BY <2>1 DEF vars, DuplicateInv, StoredIsVisible, EntryIsFresh, OrdersAreSized,
       NoDuplicateExposure, StopBlocks, Registered, IsUp, StoredOpen
  <2>2. CASE Next
    <3>1. DuplicateInv'
      BY <2>2, StepsOf, EntryFresh, TradeFresh, SessionFresh
    <3>2. QED BY <2>2, <3>1, OrdersSized
  <2>3. QED BY <2>1, <2>2
<1>3. QED BY <1>1, <1>2, TypeCorrect, OwnershipInvariant, PTL DEF Spec

\* Without "close all", no schedule of entries, netting, closes, syncs, forced
\* stops and restarts ever stores two trades that repeat each other in one
\* bucket: the check of the registry, made under the guard, is complete.
THEOREM NoSignalIsRepeated == ASSUME NoCloseAll PROVE Spec => []NoDuplicateExposure
<1>1. DuplicateInv => NoDuplicateExposure
  BY DEF DuplicateInv
<1>2. QED BY <1>1, DuplicateInvariant, PTL

-----------------------------------------------------------------------------
(* Blocked buckets.                                                        *)

\* The bucket of the entry in progress is blocked by nothing that is older than
\* the entry's turn.
EntryUnblocked == \A t \in Trade : op.by = t => BlockReasons(Side[t]) \subseteq op.raised

\* Blocks are removed only, and the entry in progress stays or ends.
LEMMA FewerBlocks ==
  ASSUME EntryUnblocked,
         \/ op'.by = Nobody
         \/ op'.by = op.by /\ op'.raised = op.raised /\ blocked' \subseteq blocked
  PROVE  EntryUnblocked'
BY NobodyAssumption DEF EntryUnblocked, BlockReasons

\* The one look at the blocks when an entry is admitted is enough for all that
\* was known then: neither a release of stale ownership nor another session, a
\* restart or a restored block lets an order through a bucket that was blocked
\* before the entry's turn.
THEOREM BlocksAreRespected == Spec => EntryRespectsBlocks
<1>1. Init => EntryUnblocked
  BY NobodyAssumption DEF Init, EntryUnblocked, Idle
<1>2. TypeOK /\ EntryUnblocked /\ [Next]_vars => EntryUnblocked'
  <2> SUFFICES ASSUME TypeOK, EntryUnblocked, [Next]_vars PROVE EntryUnblocked'
    OBVIOUS
  <2>1. ASSUME NEW t \in Trade, NEW unseen, Admit(t, unseen) PROVE EntryUnblocked'
    <3> DEFINE freed == Releasable(t, unseen)
    <3>1. /\ blocked' = blocked \ ({"stopped"} \X freed)
          /\ Refused(t, freed) => op' = Idle
          /\ ~Refused(t, freed) => op'.by = t
      BY <2>1 DEF Admit
    <3>2. CASE Refused(t, freed)
      BY <3>1, <3>2, FewerBlocks DEF Idle
    <3>3. CASE ~Refused(t, freed)
      <4>1. BlockReasons(Side[t])' = {}
        BY <3>1, <3>3 DEF BlockReasons, Refused
      <4>2. QED BY <3>1, <3>3, <4>1 DEF EntryUnblocked
    <3>4. QED BY <3>2, <3>3
  <2>2. ASSUME NEW t \in Trade, EntryStep(t) PROVE EntryUnblocked'
    <3>1. \/ op'.by = Nobody
          \/ op'.by = op.by /\ op'.raised = op.raised /\ blocked' \subseteq blocked
      <4>1. ASSUME NEW e, NetClose(t, e)
            PROVE  op'.by = op.by /\ op'.raised = op.raised /\ blocked' \subseteq blocked
        BY <4>1 DEF NetClose, ForgetIfClosed, Forget, TypeOK, Entry
      <4>2. ASSUME NEW e, NetRaises(t, e) \/ Flattened(t, e)
            PROVE  op'.by = Nobody
        BY <4>2 DEF NetRaises, Flattened, Abort, Idle
      <4>3. ASSUME \/ NetConflict(t) \/ DecideAgainst(t) \/ EntryRejected(t)
                   \/ EntryWaits(t) \/ EntryUnconfirmed(t) \/ Protected(t)
                   \/ FlattenFails(t)
            PROVE  op'.by = Nobody
        BY <4>3 DEF NetConflict, DecideAgainst, EntryRejected, EntryWaits,
           EntryUnconfirmed, Protected, FlattenFails, Abort, Idle
      <4>4. ASSUME NEW n, NEW x, Decide(t, x) \/ Submit(t, n, x) \/ EntryFilled(t)
            PROVE  op'.by = op.by /\ op'.raised = op.raised /\ blocked' \subseteq blocked
        BY <4>4 DEF Decide, Submit, EntryFilled, registry, TypeOK, Entry
      <4>5. QED BY <2>2, <4>1, <4>2, <4>3, <4>4 DEF EntryStep
    <3>2. QED BY <3>1, FewerBlocks
  <2>3. ASSUME NEW t \in Trade, TradeStep(t), ~Issue(t), ~\E unseen : Admit(t, unseen)
        PROVE  EntryUnblocked'
    <3>1. blocked' \subseteq blocked /\ op' = op
      BY <2>3 DEF TradeStep, Signal, CloseTrade, CloseAll, ActivateFlattened,
         CancelEntry, Sync, EntryExecutes, StopExecutes, Activate, PositionFound,
         PositionMissing, MoveStop, Forget, ForgetIfClosed, registry
    <3>2. QED BY <3>1, FewerBlocks
  <2>4. ASSUME NEW t \in Trade, Issue(t) PROVE EntryUnblocked'
    <3> SUFFICES ASSUME NEW u \in Trade, op'.by = u
                 PROVE  BlockReasons(Side[u])' \subseteq op'.raised
      BY DEF EntryUnblocked
    <3>1. blocked' = blocked \cup {<<"issue", t>>} /\ op.by = u
      BY <2>4 DEF Issue, TypeOK, Entry
    <3>2. BlockReasons(Side[u]) \subseteq op.raised /\ op.raised \subseteq op'.raised
      BY <2>4, <3>1 DEF EntryUnblocked, Issue, TypeOK, Entry
    <3>3. Side[u] = Side[t] => <<"issue", t>> \in op'.raised
      BY <2>4, <3>1 DEF Issue, TypeOK, Entry
    <3>4. QED BY <3>1, <3>2, <3>3 DEF BlockReasons
  <2>5. ASSUME \/ \E s \in Session : Stop(s) \/ ForceStop(s) \/ EngineUp(s)
               \/ Restart
               \/ UNCHANGED vars
        PROVE  EntryUnblocked'
    <3>1. op'.by = Nobody \/ (op' = op /\ blocked' = blocked)
      <4>1. ASSUME NEW s \in Session, Halt(s)
            PROVE  op'.by = Nobody \/ (op' = op /\ blocked' = blocked)
        BY <4>1 DEF Halt, Idle, registry
      <4>2. ASSUME NEW s \in Session, EngineUp(s)
            PROVE  op' = op /\ blocked' = blocked
        BY <4>2 DEF EngineUp
      <4>3. CASE Restart
        BY <4>3 DEF Restart, Idle
      <4>4. CASE UNCHANGED vars
        BY <4>4 DEF vars
      <4>5. QED BY <2>5, <4>1, <4>2, <4>3, <4>4 DEF Stop, ForceStop
    <3>2. QED BY <3>1, FewerBlocks
  <2>6. QED BY <2>1, <2>2, <2>3, <2>4, <2>5, StepsOf DEF TradeStep
<1>3. EntryUnblocked =>
        \A t \in Trade : Submitted(t) => BlockReasons(Side[t]) \subseteq op.raised
  BY DEF EntryUnblocked, Submitted
<1>4. QED
  BY <1>1, <1>2, <1>3, TypeCorrect, PTL DEF Spec, EntryRespectsBlocks

(***************************************************************************)
(* What the account holds and what it may lose at its stops, summed over   *)
(* any number of trades.                                                   *)
(***************************************************************************)
-----------------------------------------------------------------------------
(* The sums of the model.                                                  *)

RegisteredRisks == [t \in Trade |-> RegisteredRisk(t)]
LegRisks == [t \in Trade |-> LegRisk(t)]
OwnedQtys == [t \in Trade |-> OwnedQty(t)]

\* The folds that sum them.
IsRegisteredSum(g, D) ==
  g = [s \in SUBSET D |-> IF s = {} THEN 0
                          ELSE RegisteredRisk(Pick(s)) + g[s \ {Pick(s)}]]
IsLegRiskSum(g, D) ==
  g = [s \in SUBSET D |-> IF s = {} THEN 0 ELSE LegRisk(Pick(s)) + g[s \ {Pick(s)}]]
IsOwnedSum(g, D) ==
  g = [s \in SUBSET D |-> IF s = {} THEN 0 ELSE OwnedQty(Pick(s)) + g[s \ {Pick(s)}]]

\* The stop risk of a set of trades, as far as the account knows it.
LEMMA RegisteredSum ==
  ASSUME NEW S \in SUBSET Trade
  PROVE  MapThenSumSet(RegisteredRisk, S) = SumFunctionOnSet(RegisteredRisks, S)
<1> DEFINE g == CHOOSE h : IsRegisteredSum(h, S)
<1>1. IsFiniteSet(S)
  BY FS_Subset
<1>2. \A s \in SUBSET S : s # {} => RegisteredRisks[Pick(s)] = RegisteredRisk(Pick(s))
  BY PickIsMember DEF RegisteredRisks
<1>3. ASSUME NEW h PROVE IsSum(h, RegisteredRisks, S) <=> IsRegisteredSum(h, S)
  BY <1>2 DEF IsSum, IsRegisteredSum
<1>4. IsRegisteredSum(g, S)
  BY <1>1, <1>3, FoldExists
<1>5. MapThenSumSet(RegisteredRisk, S) = g[S]
  BY Zenon DEF MapThenSumSet, MapThenFoldSet, IsRegisteredSum, Pick
<1> HIDE DEF g
<1>6. QED BY <1>1, <1>3, <1>4, <1>5, SumIsUnique

\* The stop risk of a set of legs.
LEMMA LegRiskSum ==
  ASSUME NEW S \in SUBSET Trade
  PROVE  MapThenSumSet(LegRisk, S) = SumFunctionOnSet(LegRisks, S)
<1> DEFINE g == CHOOSE h : IsLegRiskSum(h, S)
<1>1. IsFiniteSet(S)
  BY FS_Subset
<1>2. \A s \in SUBSET S : s # {} => LegRisks[Pick(s)] = LegRisk(Pick(s))
  BY PickIsMember DEF LegRisks
<1>3. ASSUME NEW h PROVE IsSum(h, LegRisks, S) <=> IsLegRiskSum(h, S)
  BY <1>2 DEF IsSum, IsLegRiskSum
<1>4. IsLegRiskSum(g, S)
  BY <1>1, <1>3, FoldExists
<1>5. MapThenSumSet(LegRisk, S) = g[S]
  BY Zenon DEF MapThenSumSet, MapThenFoldSet, IsLegRiskSum, Pick
<1> HIDE DEF g
<1>6. QED BY <1>1, <1>3, <1>4, <1>5, SumIsUnique

\* What the trades of a set own on the exchange.
LEMMA OwnedSum ==
  ASSUME NEW S \in SUBSET Trade
  PROVE  MapThenSumSet(OwnedQty, S) = SumFunctionOnSet(OwnedQtys, S)
<1> DEFINE g == CHOOSE h : IsOwnedSum(h, S)
<1>1. IsFiniteSet(S)
  BY FS_Subset
<1>2. \A s \in SUBSET S : s # {} => OwnedQtys[Pick(s)] = OwnedQty(Pick(s))
  BY PickIsMember DEF OwnedQtys
<1>3. ASSUME NEW h PROVE IsSum(h, OwnedQtys, S) <=> IsOwnedSum(h, S)
  BY <1>2 DEF IsSum, IsOwnedSum
<1>4. IsOwnedSum(g, S)
  BY <1>1, <1>3, FoldExists
<1>5. MapThenSumSet(OwnedQty, S) = g[S]
  BY Zenon DEF MapThenSumSet, MapThenFoldSet, IsOwnedSum, Pick
<1> HIDE DEF g
<1>6. QED BY <1>1, <1>3, <1>4, <1>5, SumIsUnique

-----------------------------------------------------------------------------
(* The risk budget.                                                        *)

\* The trades of a side.
OnSide(s) == {t \in Trade : Side[t] = s}

\* Quantities that are no larger risk no more.
LEMMA Products ==
  ASSUME NEW k \in Nat, NEW m \in Nat, NEW n \in Nat, m <= n
  PROVE  k * m \in Nat /\ k * m <= k * n
<1>1. k * (n - m) \in Nat
  OBVIOUS
<1>2. k * n = k * m + k * (n - m)
  OBVIOUS
<1>3. QED BY <1>1, <1>2

\* The leg that is netted next, and the quantity asked of it.
LEMMA NetTypes ==
  ASSUME TypeOK, NEW t \in Trade, ~NettingDone(t)
  PROVE  LET u == Head(op.todo).of
         IN  /\ u \in Trade /\ Head(op.todo).leg \in Leg
             /\ NetQty(t) \in Nat /\ MinOf(NetQty(t), trade[u].qty) \in Nat
             /\ NetQty(t) <= Want[t] - op.offset
             /\ NetQty(t) <= Head(op.todo).leg.qty
<1>1. Head(op.todo) \in [of : Trade, leg : Leg]
  <2>1. op.todo \in Seq([of : Trade, leg : Leg]) /\ op.todo # <<>>
    BY DEF NettingDone, TypeOK, Entry
  <2>2. \A S : \A s \in Seq(S) : s # <<>> => Head(s) \in S
    OBVIOUS
  <2>3. QED BY <2>1, <2>2
<1>2. Head(op.todo).of \in Trade /\ Head(op.todo).leg.qty \in Nat
  BY <1>1 DEF Leg
<1>3. op.offset \in Nat /\ Want[t] \in Nat /\ trade[Head(op.todo).of].qty \in Nat
  BY <1>2 DEF TypeOK, Entry, Logical
<1>4. Want[t] - op.offset \in Nat
  BY <1>3 DEF NettingDone
<1>5. /\ NetQty(t) \in Nat /\ NetQty(t) <= Want[t] - op.offset
      /\ NetQty(t) <= Head(op.todo).leg.qty
  BY <1>2, <1>4, FloorAndMin DEF NetQty
<1>6. QED BY <1>1, <1>2, <1>3, <1>5, FloorAndMin

\* The decision of the entry of t: every stored trade of its side is registered
\* with what it has, so what the cap adds up is at least what is stored.
LEMMA DecisionFits ==
  ASSUME TypeOK, DuplicateInv, NEW t \in Trade, NEW x, Decide(t, x), RiskCap > 0
  PROVE  trade'[t].qty * trade[t].risk
           + MapThenSumSet(RegisteredRisk, Reserving(Side[t])) <= RiskCap
<1> DEFINE L == SameSideLegs(t)
           R == Reserving(Side[t])
           g == [u \in Trade |-> IF u \in R THEN RegisteredRisks[u] ELSE 0]
<1>1. op.by = t /\ Fits(t, x) /\ trade'[t].qty = x /\ x \in Nat
  <2>1. op.by = t /\ Fits(t, x) /\ trade' = [trade EXCEPT ![t].qty = x]
    BY DEF Decide, Approves, Netting
  <2>2. Want[t] \in Nat /\ op.offset \in Nat
    BY WantAssumption DEF TypeOK, Entry
  <2>3. x \in Nat
    BY <2>2 DEF Decide, Approves, Residual, Less
  <2>4. QED BY <2>1, <2>3 DEF TypeOK, Logical
<1>2. ASSUME NEW u \in R
      PROVE  u \in L /\ RegisteredRisk(u) = LegRisk(u)
  <2>1. u \in Trade \ {t} /\ Side[u] = Side[t] /\ StoredOpen(u)
    BY <1>1 DEF Reserving, StoredOpen
  <2>2. Registered(u)
    BY <1>1, <2>1 DEF DuplicateInv, StoredIsVisible, EntryIsFresh
  <2>3. leg[u].qty > 0 /\ leg[u].qty = trade[u].qty
    BY <2>1, <2>2 DEF DuplicateInv, StoredIsVisible
  <2>4. QED BY <2>1, <2>2, <2>3 DEF SameSideLegs, RegisteredRisk, LegRisk
<1>3. ASSUME NEW u \in Trade PROVE LegRisk(u) \in Nat /\ RegisteredRisk(u) \in Nat
  <2>1. /\ leg[u].risk \in Nat /\ leg[u].qty \in Nat
        /\ trade[u].risk \in Nat /\ trade[u].qty \in Nat
    BY DEF TypeOK, Leg, Logical
  <2>2. /\ leg[u].risk * leg[u].qty \in Nat /\ leg[u].risk * trade[u].qty \in Nat
        /\ trade[u].risk * trade[u].qty \in Nat
    BY <2>1, Products
  <2>3. QED BY <2>2 DEF LegRisk, RegisteredRisk
<1>4. R \in SUBSET L /\ R \in SUBSET Trade /\ L \in SUBSET Trade
  <2>1. R \subseteq Trade /\ L \subseteq Trade
    BY DEF Reserving, SameSideLegs
  <2> HIDE DEF L, R
  <2>2. QED BY <1>2, <2>1
<1>5. IsFiniteSet(L)
  BY <1>4, FS_Subset
<1>6. \A u \in L : /\ g[u] \in Nat /\ LegRisks[u] \in Nat /\ RegisteredRisks[u] \in Nat
                   /\ g[u] = IF u \in R THEN RegisteredRisks[u] ELSE 0
                   /\ g[u] <= LegRisks[u]
  <2> SUFFICES ASSUME NEW u \in L
               PROVE  /\ g[u] \in Nat /\ LegRisks[u] \in Nat /\ RegisteredRisks[u] \in Nat
                      /\ g[u] = IF u \in R THEN RegisteredRisks[u] ELSE 0
                      /\ g[u] <= LegRisks[u]
    OBVIOUS
  <2>1. u \in Trade /\ g[u] = IF u \in R THEN RegisteredRisks[u] ELSE 0
    BY <1>4
  <2>2. LegRisks[u] = LegRisk(u) /\ RegisteredRisks[u] = RegisteredRisk(u)
    BY <2>1 DEF LegRisks, RegisteredRisks
  <2> HIDE DEF g, L, R
  <2>3. QED BY <1>2, <1>3, <2>1, <2>2
<1>7. MapThenSumSet(RegisteredRisk, R) = SumFunctionOnSet(RegisteredRisks, R)
  <2> HIDE DEF R
  <2> QED BY <1>4, RegisteredSum
<1>8. MapThenSumSet(LegRisk, L) = SumFunctionOnSet(LegRisks, L)
  <2> HIDE DEF L
  <2> QED BY <1>4, LegRiskSum
<1>9. x * trade[t].risk + SumFunctionOnSet(LegRisks, L) <= RiskCap
  BY <1>1, <1>8 DEF Fits
<1>10. x * trade[t].risk \in Nat
  BY <1>1, Products DEF TypeOK, Logical
<1> HIDE DEF L, R, g
<1>11. SumFunctionOnSet(RegisteredRisks, R) = SumFunctionOnSet(g, L)
  BY <1>4, <1>5, <1>6, SumOverPart
<1>12. SumFunctionOnSet(g, L) <= SumFunctionOnSet(LegRisks, L)
  BY <1>5, <1>6, SumMonotone
<1>13. SumFunctionOnSet(g, L) \in Nat /\ SumFunctionOnSet(LegRisks, L) \in Nat
  BY <1>5, <1>6, SumType
<1>14. x * trade[t].risk + MapThenSumSet(RegisteredRisk, R) <= RiskCap
  BY <1>7, <1>9, <1>10, <1>11, <1>12, <1>13, RiskCapAssumption
<1>15. QED BY <1>1, <1>14 DEF R

\* Only its decision takes an entry from netting to its order.
LEMMA OnlyDecided ==
  ASSUME TypeOK, [Next]_vars, NEW t \in Trade, Approved(t)
  PROVE  \E x : Decide(t, x)
<1>1. op.by = t /\ op.phase = "netting" /\ op'.phase = "entering" /\ op'.phase # op.phase
  BY DEF Approved
<1>2. ASSUME NEW u \in Trade, EntryStep(u), ~\E x : Decide(u, x) PROVE FALSE
  <2>1. op'.phase \in {"idle", "netting", "submitted", "protecting"}
    <3>1. ASSUME NEW e, NetClose(u, e) PROVE op'.phase = "netting"
      BY <3>1 DEF NetClose, Netting, TypeOK, Entry
    <3>2. ASSUME NEW e, NetRaises(u, e) \/ Flattened(u, e) PROVE op'.phase = "idle"
      BY <3>2 DEF NetRaises, Flattened, Abort, Idle
    <3>3. ASSUME \/ NetConflict(u) \/ DecideAgainst(u) \/ EntryRejected(u)
                 \/ EntryWaits(u) \/ EntryUnconfirmed(u) \/ Protected(u)
                 \/ FlattenFails(u)
          PROVE  op'.phase = "idle"
      BY <3>3 DEF NetConflict, DecideAgainst, EntryRejected, EntryWaits,
         EntryUnconfirmed, Protected, FlattenFails, Abort, Idle
    <3>4. ASSUME NEW n, NEW x, Submit(u, n, x) \/ EntryFilled(u)
          PROVE  op'.phase \in {"submitted", "protecting"}
      BY <3>4 DEF Submit, EntryFilled, TypeOK, Entry
    <3>5. QED BY <1>2, <3>1, <3>2, <3>3, <3>4 DEF EntryStep
  <2>2. QED BY <1>1, <2>1
<1>3. ASSUME NEW u \in Trade, TradeStep(u) PROVE FALSE
  <2>1. CASE \E unseen : Admit(u, unseen)
    BY <1>1, <2>1, NobodyAssumption DEF Admit, Idle
  <2>2. CASE Issue(u)
    BY <1>1, <2>2 DEF Issue, TypeOK, Entry
  <2>3. ASSUME ~(\E unseen : Admit(u, unseen)), ~Issue(u) PROVE op' = op
    BY <1>3, <2>3 DEF TradeStep, Signal, CloseTrade, CloseAll, ActivateFlattened,
       CancelEntry, Sync, EntryExecutes, StopExecutes, Activate, PositionFound,
       PositionMissing, MoveStop
  <2>4. QED BY <1>1, <2>1, <2>2, <2>3
<1>4. ASSUME \/ \E s \in Session : Stop(s) \/ ForceStop(s) \/ EngineUp(s)
             \/ Restart
             \/ UNCHANGED vars
      PROVE  FALSE
  <2>1. op' = op \/ op' = Idle
    BY <1>4 DEF Stop, ForceStop, Halt, EngineUp, Restart, vars
  <2>2. QED BY <1>1, <2>1 DEF Idle
<1>5. ASSUME NEW u \in Trade, NEW x, Decide(u, x) PROVE u = t
  BY <1>1, <1>5 DEF Decide, Netting
<1>6. QED BY <1>2, <1>3, <1>4, <1>5, StepsOf

\* Without "close all", every quantity the account approves fits the budget of
\* its side together with all that is stored as open there, trades of stopped
\* sessions and of engines that are down included: the registry the cap adds up
\* misses none of them, whatever was released, netted or restored before.
THEOREM ApprovalsFit == ASSUME NoCloseAll PROVE Spec => ApprovalsFitBudget
<1>1. ASSUME TypeOK, DuplicateInv, [Next]_vars
      PROVE  \A t \in Trade : RiskCap > 0 /\ Approved(t) =>
               trade'[t].qty * trade[t].risk
                 + MapThenSumSet(RegisteredRisk, Reserving(Side[t])) <= RiskCap
  BY <1>1, OnlyDecided, DecisionFits
<1>2. QED
  BY <1>1, TypeCorrect, DuplicateInvariant, PTL DEF Spec, ApprovalsFitBudget

-----------------------------------------------------------------------------
(* Exposure and its owners.                                                *)

\* No protective order executes, no close is partial, no entry stays
\* unconfirmed, no flattening fails, and nothing is stopped or restarted.
Undisturbed == Events \subseteq {"issue", "closeall", "tiers", "moves", "unlisted"}

EnginesRun == up = Session /\ active = Session /\ \A t \in Trade : due[t] = 0
\* Entry orders are for something and known to a trade that waits or to the
\* entry in progress.
EntriesKnown ==
  \A t \in Trade : entry[t].status # "none" =>
    /\ trade[t].status = "waiting" \/ InPhase(t, "submitted")
    /\ entry[t].qty > 0
\* The trades that are stored, and the entry in progress once it was approved.
Reserves(t) ==
  \/ trade[t].status \in {"waiting", "open"}
  \/ op.by = t /\ op.phase # "netting"
\* What is stored or approved is for something, and every stored trade has its
\* engine or its entry.
StoredIsListed ==
  \A t \in Trade :
    /\ Reserves(t) => trade[t].qty > 0
    /\ trade[t].status \in {"waiting", "open"} => t \in managed \/ op.by = t
HeldIsOwned ==
  \A s \in SideNames : held[s] = SumFunctionOnSet(OwnedQtys, OnSide(s))

\* The strengthening of ExposureIsOwned.
ExposureInv ==
  /\ EnginesRun
  /\ EntriesKnown
  /\ StoredIsListed
  /\ HeldIsOwned

\* What a trade owns, as long as no stop has executed: all of it once its entry
\* was filled.
Fills(t) ==
  \/ trade[t].status = "open"
  \/ trade[t].status \in {"opening", "waiting"} /\ Filled(t)
Size(t) == IF trade[t].status = "open" THEN trade[t].qty ELSE entry[t].qty
LEMMA OwnedWhole ==
  ASSUME TypeOK, NEW t \in Trade, due[t] = 0
  PROVE  OwnedQty(t) = (IF Fills(t) THEN Size(t) ELSE 0) /\ OwnedQty(t) \in Nat
<1>1. trade[t].qty \in Nat /\ entry[t].qty \in Nat
  BY DEF TypeOK, Logical, Order
<1>2. Less(trade[t].qty, 0) = trade[t].qty
  BY <1>1 DEF Less
<1>3. CASE trade[t].status = "open"
  BY <1>1, <1>2, <1>3 DEF OwnedQty, Fills, Size
<1>4. CASE trade[t].status # "open"
  BY <1>1, <1>4 DEF OwnedQty, Fills, Size
<1>5. QED BY <1>3, <1>4

\* The same after a step.
LEMMA OwnedWholeAfter ==
  ASSUME TypeOK', NEW t \in Trade, due'[t] = 0
  PROVE  /\ OwnedQty(t)' = (IF Fills(t)' THEN Size(t)' ELSE 0)
         /\ OwnedQty(t)' \in Nat
<1>1. trade'[t].qty \in Nat /\ entry'[t].qty \in Nat
  BY DEF TypeOK, Logical, Order
<1>2. Less(trade'[t].qty, 0) = trade'[t].qty
  BY <1>1 DEF Less
<1>3. CASE trade'[t].status = "open"
  BY <1>1, <1>2, <1>3 DEF OwnedQty, Fills, Size
<1>4. CASE trade'[t].status # "open"
  BY <1>1, <1>4 DEF OwnedQty, Fills, Size
<1>5. QED BY <1>3, <1>4

\* A side and its trades.
LEMMA SideOf ==
  ASSUME NEW t \in Trade
  PROVE  /\ Side[t] \in SideNames /\ t \in OnSide(Side[t])
         /\ \A s : OnSide(s) \in SUBSET Trade /\ IsFiniteSet(OnSide(s))
BY FS_Subset DEF OnSide

\* A step that changes what one trade owns, and its bucket by as much, keeps
\* all exposure owned.
LEMMA OneOwnerMoves ==
  ASSUME TypeOK, TypeOK', HeldIsOwned, \A u \in Trade : due[u] = 0 /\ due'[u] = 0,
         NEW t \in Trade,
         \A u \in Trade \ {t} : OwnedQty(u)' = OwnedQty(u),
         \A s \in SideNames \ {Side[t]} : held'[s] = held[s],
         held'[Side[t]] + OwnedQty(t) = held[Side[t]] + OwnedQty(t)'
  PROVE  HeldIsOwned'
<1> DEFINE f == OwnedQtys
           g == OwnedQtys'
<1>1. \A u \in Trade : /\ f[u] = OwnedQty(u) /\ g[u] = OwnedQty(u)'
                       /\ f[u] \in Nat /\ g[u] \in Nat
  BY OwnedWhole, OwnedWholeAfter DEF OwnedQtys
<1>2. ASSUME NEW s \in SideNames
      PROVE  held'[s] = SumFunctionOnSet(g, OnSide(s))
  <2> DEFINE S == OnSide(s)
  <2>1. /\ S \in SUBSET Trade /\ IsFiniteSet(S)
        /\ held[s] = SumFunctionOnSet(f, S) /\ (s = Side[t] => t \in S)
        /\ \A u \in S : Side[u] = s
    BY SideOf DEF HeldIsOwned, OnSide
  <2> SUFFICES held'[s] = SumFunctionOnSet(g, S)
    OBVIOUS
  <2> HIDE DEF f, g, S
  <2>2. CASE s = Side[t]
    <3>1. t \in S
      BY <2>1, <2>2
    <3>2. \A u \in S : f[u] \in Nat /\ g[u] \in Nat
      BY <1>1, <2>1
    <3>3. \A u \in S : u # t => g[u] = f[u]
      BY <1>1, <2>1
    <3>4. SumFunctionOnSet(g, S) + f[t] = SumFunctionOnSet(f, S) + g[t]
      BY <2>1, <3>1, <3>2, <3>3, SumUpdate
    <3>5. SumFunctionOnSet(g, S) \in Nat /\ SumFunctionOnSet(f, S) \in Nat
      BY <2>1, <3>2, SumType
    <3>6. held'[s] + f[t] = held[s] + g[t]
      BY <1>1, <2>2
    <3>7. held'[s] \in Nat /\ held[s] \in Nat /\ f[t] \in Nat /\ g[t] \in Nat
      BY <1>1 DEF TypeOK
    <3>8. QED BY <2>1, <3>4, <3>5, <3>6, <3>7
  <2>3. CASE s # Side[t]
    <3>1. \A u \in S : g[u] = f[u]
      BY <1>1, <2>1, <2>3
    <3>2. SumFunctionOnSet(g, S) = SumFunctionOnSet(f, S)
      BY <2>1, <3>1, SumSame
    <3>3. QED BY <2>1, <2>3, <3>2
  <2>4. QED BY <2>2, <2>3
<1>3. QED BY <1>2 DEF HeldIsOwned, OnSide

\* What the exchange holds for one trade is in its bucket, and is all that is
\* in it when no other trade of the side owns any.
LEMMA OwnedIsHeld ==
  ASSUME TypeOK, HeldIsOwned, \A u \in Trade : due[u] = 0, NEW t \in Trade
  PROVE  /\ OwnedQty(t) <= held[Side[t]]
         /\ (\A u \in Trade \ {t} : Side[u] = Side[t] => OwnedQty(u) = 0) =>
              held[Side[t]] = OwnedQty(t)
<1> DEFINE f == OwnedQtys
           S == OnSide(Side[t])
<1>1. \A u \in Trade : f[u] = OwnedQty(u) /\ f[u] \in Nat
  BY OwnedWhole DEF OwnedQtys
<1>2. t \in S /\ S \in SUBSET Trade /\ IsFiniteSet(S)
  BY SideOf
<1>3. held[Side[t]] = SumFunctionOnSet(f, S)
  BY SideOf DEF HeldIsOwned
<1>4. \A u \in S : Side[u] = Side[t]
  BY DEF OnSide
<1> HIDE DEF f, S
<1>5. \A u \in S : f[u] \in Nat
  BY <1>1, <1>2
<1>6. /\ f[t] <= SumFunctionOnSet(f, S)
      /\ (\A u \in S : u # t => f[u] = 0) => SumFunctionOnSet(f, S) = f[t]
  BY <1>2, <1>5, SumHasPart
<1>7. QED BY <1>1, <1>2, <1>3, <1>4, <1>6

\* A stored trade is registered with what it has.
LEMMA StoredIsRegistered ==
  ASSUME TypeOK, OwnershipInv, StoredIsListed, NEW t \in Trade,
         trade[t].status \in {"waiting", "open"}
  PROVE  /\ leg[t].qty = trade[t].qty /\ trade[t].qty > 0 /\ Registered(t)
         /\ leg[t].status = trade[t].status
<1>1. Matches(leg[t], trade[t])
  <2>1. CASE t \in managed
    BY <2>1 DEF OwnershipInv, RegistryMirrorsTrades, Matches
  <2>2. CASE op.by = t
    BY <2>2 DEF OwnershipInv, EntryOwned
  <2>3. QED BY <2>1, <2>2 DEF StoredIsListed
<1>2. trade[t].qty > 0
  BY DEF StoredIsListed, Reserves
<1>3. leg[t].qty = trade[t].qty /\ leg[t].status = trade[t].status
  BY <1>1 DEF Matches
<1>4. Registered(t)
  BY <1>3 DEF Registered, NoLeg
<1>5. QED BY <1>2, <1>3, <1>4

\* The bucket of a filled trade holds its size, and no more if the registry
\* shows no other trade there and no entry is on its way.
LEMMA BucketHolds ==
  ASSUME TypeOK, OwnershipInv, ExposureInv, NEW t \in Trade, Fills(t)
  PROVE  /\ Size(t) <= held[Side[t]]
         /\ op.phase # "submitted" /\ SameSideLegs(t) = {} => held[Side[t]] = Size(t)
<1>1. \A u \in Trade : due[u] = 0
  BY DEF ExposureInv, EnginesRun
<1>2. OwnedQty(t) = Size(t) /\ HeldIsOwned
  BY <1>1, OwnedWhole DEF ExposureInv
<1>3. ASSUME op.phase # "submitted", SameSideLegs(t) = {},
             NEW u \in Trade \ {t}, Side[u] = Side[t]
      PROVE  OwnedQty(u) = 0
  <2>1. trade[u].status \notin {"waiting", "open"}
    <3>1. SUFFICES ASSUME trade[u].status \in {"waiting", "open"} PROVE FALSE
      OBVIOUS
    <3>2. Registered(u) /\ leg[u].qty > 0
      BY <3>1, StoredIsRegistered DEF ExposureInv
    <3>3. u \in SameSideLegs(t)
      BY <1>3, <3>2 DEF SameSideLegs
    <3>4. QED BY <1>3, <3>3
  <2>2. entry[u].status = "none"
    BY <1>3, <2>1 DEF ExposureInv, EntriesKnown, InPhase
  <2>3. ~Fills(u)
    BY <2>1, <2>2 DEF Fills, Filled
  <2>4. QED BY <1>1, <2>3, OwnedWhole
<1>4. QED BY <1>1, <1>2, <1>3, OwnedIsHeld

\* A close executes and reports exactly what was asked for: the bucket holds at
\* least that, and what is flattened is the position of the last trade in it.
LEMMA ExactClose ==
  ASSUME Undisturbed, TypeOK, OwnershipInv, ExposureInv, NEW t \in Trade,
         trade[t].status = "open", op.phase # "submitted",
         NEW q \in Nat, q <= trade[t].qty, q > 0, NEW e \in Executions(t, q)
  PROVE  e = q /\ Reported(t, q, e) = q
<1>1. trade[t].qty \in Nat /\ held[Side[t]] \in Nat /\ e \in Nat
  BY ExecutionBounds DEF TypeOK, Logical
<1>2. Fills(t) /\ Size(t) = trade[t].qty
  BY DEF Fills, Size
<1>4. trade[t].qty <= held[Side[t]]
  BY <1>2, BucketHolds
<1>5. ASSUME Flattens(t, q) PROVE held[Side[t]] = trade[t].qty /\ q = trade[t].qty
  BY <1>2, <1>5, BucketHolds DEF Flattens
<1>6. "partial" \notin Events
  BY DEF Undisturbed
<1>7. CASE Flattens(t, q)
  <2>1. e = held[Side[t]]
    BY <1>6, <1>7 DEF Executions
  <2>2. Reported(t, q, e) = Less(trade[t].qty, held[Side[t]] - e)
    BY <1>7 DEF Reported
  <2>3. QED BY <1>1, <1>5, <1>7, <2>1, <2>2 DEF Less
<1>8. CASE ~Flattens(t, q)
  <2>1. e = MinOf(q, held[Side[t]])
    BY <1>6, <1>8 DEF Executions
  <2>2. Reported(t, q, e) = MinOf(e, trade[t].qty)
    BY <1>8 DEF Reported
  <2>3. QED BY <1>1, <1>4, <2>1, <2>2 DEF MinOf
<1>9. QED BY <1>7, <1>8

\* What a step that is about t leaves of another trade u: u is as it was, or
\* the entry that is given up and owns nothing.
Apart(u) ==
  /\ entry'[u] = entry[u]
  /\ \/ trade'[u] = trade[u]
     \/ /\ trade[u].status = "opening" /\ entry[u].status = "none"
        /\ trade'[u].status = "closed"
  /\ u \in managed => u \in managed'
  /\ \/ op.by = u /\ op.phase # "netting"
     \/ op'.by = u /\ op'.phase # "netting"
     => op' = op /\ trade'[u] = trade[u]

\* A step that changes one trade, and its bucket by what it owns more or less.
LEMMA OneTradeExposure ==
  ASSUME TypeOK, TypeOK', OwnershipInv, ExposureInv, NEW t \in Trade,
         UNCHANGED <<active, up>>, \A u \in Trade : due'[u] = 0,
         \A u \in Trade \ {t} : Apart(u),
         entry'[t].status # "none" =>
           /\ trade'[t].status = "waiting" \/ InPhase(t, "submitted")'
           /\ entry'[t].qty > 0,
         Reserves(t)' => trade'[t].qty > 0,
         trade'[t].status \in {"waiting", "open"} => t \in managed' \/ op'.by = t,
         \A s \in SideNames \ {Side[t]} : held'[s] = held[s],
         held'[Side[t]] + (IF Fills(t) THEN Size(t) ELSE 0) =
           held[Side[t]] + (IF Fills(t)' THEN Size(t)' ELSE 0)
  PROVE  ExposureInv'
<1>1. EnginesRun'
  BY DEF ExposureInv, EnginesRun
<1>2. EntriesKnown'
  <2>1. ASSUME NEW u \in Trade \ {t}, entry'[u].status # "none"
        PROVE  /\ trade'[u].status = "waiting" \/ InPhase(u, "submitted")'
               /\ entry'[u].qty > 0
    BY <2>1 DEF ExposureInv, EntriesKnown, InPhase, Apart
  <2>2. QED BY <2>1 DEF EntriesKnown, InPhase
<1>3. StoredIsListed'
  <2>1. ASSUME NEW u \in Trade \ {t}, Reserves(u)' PROVE trade'[u].qty > 0
    <3>1. Reserves(u) /\ trade'[u] = trade[u]
      BY <2>1 DEF Reserves, Apart
    <3>2. QED BY <3>1 DEF ExposureInv, StoredIsListed
  <2>2. ASSUME NEW u \in Trade \ {t}, trade'[u].status \in {"waiting", "open"}
        PROVE  u \in managed' \/ op'.by = u
    <3>1. trade'[u] = trade[u]
      BY <2>2 DEF Apart
    <3>2. CASE u \in managed
      BY <3>2 DEF Apart
    <3>3. CASE op.by = u
      BY <2>2, <3>1, <3>3 DEF Apart, OwnershipInv, EntryOwned
    <3>4. QED BY <2>2, <3>1, <3>2, <3>3 DEF ExposureInv, StoredIsListed
  <2>3. QED BY <2>1, <2>2 DEF StoredIsListed
<1>4. HeldIsOwned'
  <2>1. \A u \in Trade : due[u] = 0 /\ due'[u] = 0
    BY DEF ExposureInv, EnginesRun
  <2>2. ASSUME NEW u \in Trade \ {t} PROVE OwnedQty(u)' = OwnedQty(u)
    <3>1. CASE trade'[u] = trade[u]
      BY <2>1, <3>1 DEF OwnedQty, Apart, Filled
    <3>2. CASE trade'[u] # trade[u]
      <4>1. ~Fills(u) /\ ~Fills(u)'
        BY <3>2 DEF Fills, Apart, Filled
      <4>2. QED BY <2>1, <4>1, OwnedWhole, OwnedWholeAfter
    <3>3. QED BY <3>1, <3>2
  <2>3. held'[Side[t]] + OwnedQty(t) = held[Side[t]] + OwnedQty(t)'
    BY <2>1, OwnedWhole, OwnedWholeAfter
  <2>4. HeldIsOwned
    BY DEF ExposureInv
  <2>5. QED BY <2>1, <2>2, <2>3, <2>4, OneOwnerMoves
<1>5. QED BY <1>1, <1>2, <1>3, <1>4 DEF ExposureInv

\* A step that leaves the exchange alone and closes an entry that owns nothing,
\* if any.
LEMMA OnlyGivesUp ==
  ASSUME TypeOK, TypeOK', OwnershipInv, ExposureInv, NEW t \in Trade,
         UNCHANGED <<active, up, managed, exchange>>,
         entry[t].status = "none", trade[t].status = "opening",
         \A u \in Trade \ {t} : trade'[u] = trade[u],
         op' = Idle, op = Idle \/ op.by = t, trade'[t].status = "closed"
  PROVE  ExposureInv'
<1>1. /\ \A u \in Trade : op'.by # u /\ (u # t => op.by # u)
      /\ op'.by # t
  BY DEF Idle
<1>2. \A u \in Trade \ {t} : Apart(u)
  BY <1>1 DEF Apart, exchange
<1>3. ~Fills(t) /\ ~Fills(t)' /\ ~Reserves(t)'
  BY <1>1 DEF Fills, Filled, Reserves, exchange
<1>4. /\ \A s \in SideNames \ {Side[t]} : held'[s] = held[s]
      /\ held'[Side[t]] + (IF Fills(t) THEN Size(t) ELSE 0) =
           held[Side[t]] + (IF Fills(t)' THEN Size(t)' ELSE 0)
  BY <1>3 DEF exchange
<1>5. \A u \in Trade : due'[u] = 0
  BY DEF ExposureInv, EnginesRun, exchange
<1>6. entry'[t].status = "none"
  BY DEF exchange
<1>7. QED BY <1>2, <1>3, <1>4, <1>5, <1>6, OneTradeExposure

\* A close of a listed open trade keeps all exposure owned.
LEMMA ReduceExposure ==
  ASSUME Undisturbed, TypeOK, TypeOK', OwnershipInv, ExposureInv,
         NEW t \in managed, trade[t].status = "open", UNCHANGED <<active, up>>,
         op = op' \/ (op'.by = op.by /\ op.phase = "netting" /\ op'.phase = "netting"),
         op.phase # "submitted",
         NEW q \in Nat, q > 0, q <= trade[t].qty, NEW e \in Executions(t, q),
         Reduce(t, q, e), ForgetIfClosed(t)
  PROVE  ExposureInv'
<1> DEFINE left == trade[t].qty - Reported(t, q, e)
<1>1. t \in Trade /\ trade[t].qty \in Nat /\ op.by # t /\ Side[t] \in SideNames
  BY DEF TypeOK, Logical, OwnershipInv, EntryOwned
<1>2. Fills(t) /\ Size(t) = trade[t].qty
  BY DEF Fills, Size
<1>3. e = q /\ Reported(t, q, e) = q
  BY <1>1, ExactClose
<1>4. left = trade[t].qty - q /\ left \in Nat
  BY <1>1, <1>3
<1>5. /\ held' = [held EXCEPT ![Side[t]] = held[Side[t]] - q]
      /\ trade' = [trade EXCEPT ![t] = IF left = 0 THEN Closed
                                       ELSE [trade[t] EXCEPT !.qty = left]]
      /\ \A u \in Trade : due'[u] = 0
      /\ entry' = entry
  BY <1>3 DEF Reduce, ExposureInv, EnginesRun, TypeOK
<1> HIDE DEF left
<1>6. /\ held'[Side[t]] = held[Side[t]] - q
      /\ \A s \in SideNames \ {Side[t]} : held'[s] = held[s]
      /\ \A u \in Trade \ {t} : trade'[u] = trade[u]
      /\ left = 0 => trade'[t].status = "closed"
      /\ left # 0 => trade'[t].status = "open" /\ trade'[t].qty = left
  BY <1>1, <1>5 DEF TypeOK, Closed, Over, Logical
<1>7. \A u \in managed : u # t \/ left # 0 => u \in managed'
  BY <1>6 DEF ForgetIfClosed, Forget
<1>8. \A u \in Trade \ {t} : Apart(u)
  BY <1>5, <1>6, <1>7 DEF Apart
<1>9. entry[t].status = "none"
  BY <1>1 DEF ExposureInv, EntriesKnown, InPhase
<1>10. /\ Fills(t)' <=> left # 0
       /\ Reserves(t)' => left # 0
  BY <1>1, <1>5, <1>6, <1>9 DEF Fills, Filled, Reserves
<1>11. /\ Reserves(t)' => trade'[t].qty > 0
       /\ trade'[t].status \in {"waiting", "open"} => t \in managed'
  BY <1>4, <1>6, <1>7, <1>10
<1>12. held'[Side[t]] + (IF Fills(t) THEN Size(t) ELSE 0) =
         held[Side[t]] + (IF Fills(t)' THEN Size(t)' ELSE 0)
  <2>1. held[Side[t]] \in Nat
    BY <1>1 DEF TypeOK
  <2>2. held'[Side[t]] + trade[t].qty = held[Side[t]] + left
    BY <1>1, <1>4, <1>6, <2>1
  <2>3. left # 0 => Size(t)' = left
    BY <1>6 DEF Size
  <2>4. QED BY <1>2, <1>4, <1>6, <1>10, <2>1, <2>2, <2>3
<1>13. entry'[t].status = "none"
  BY <1>5, <1>9
<1>14. QED BY <1>1, <1>5, <1>6, <1>8, <1>11, <1>12, <1>13, OneTradeExposure

\* The steps of the entry that has the guard keep all exposure owned.
LEMMA EntryExposure ==
  ASSUME Undisturbed, TypeOK, TypeOK', OwnershipInv, ExposureInv,
         NEW t \in Trade, EntryStep(t)
  PROVE  ExposureInv'
<1>0. /\ \A u \in Trade : trade[u].qty \in Nat /\ due[u] = 0
      /\ Side[t] \in SideNames /\ held[Side[t]] \in Nat
  BY DEF TypeOK, Logical, ExposureInv, EnginesRun
<1>1. ASSUME NEW e, NetClose(t, e) PROVE ExposureInv'
  <2> DEFINE u == Head(op.todo).of
             q == MinOf(NetQty(t), trade[u].qty)
  <2>1. /\ u \in managed /\ trade[u].status = "open" /\ e \in Executions(u, q)
        /\ q > 0 /\ Reduce(u, q, e) /\ ForgetIfClosed(u) /\ UNCHANGED <<active, up>>
        /\ ~NettingDone(t) /\ op.phase = "netting"
    BY <1>1 DEF NetClose, Netting, sessions
  <2>2. op'.by = op.by /\ op'.phase = op.phase
    BY <1>1 DEF NetClose, TypeOK, Entry
  <2>3. u \in Trade /\ NetQty(t) \in Nat /\ q \in Nat
    BY <2>1, NetTypes
  <2>4. q <= trade[u].qty
    BY <1>0, <2>3, FloorAndMin
  <2> HIDE DEF u, q
  <2>5. op'.phase = "netting" /\ op.phase # "submitted"
    BY <2>1, <2>2
  <2>6. QED BY <2>1, <2>2, <2>3, <2>4, <2>5, ReduceExposure
<1>2. ASSUME NEW e, NetRaises(t, e) PROVE ExposureInv'
  <2>1. PICK u \in Trade, q \in Nat :
        /\ u \in managed /\ trade[u].status = "open" /\ e \in Executions(u, q)
        /\ q > 0 /\ q <= trade[u].qty /\ trade[u].qty - Reported(u, q, e) > 0
        /\ UNCHANGED <<active, up, managed, entry, due>>
        /\ op.by = t /\ op.phase = "netting" /\ op' = Idle
        /\ held' = [held EXCEPT ![Side[u]] = held[Side[u]] - e]
        /\ trade' = [trade EXCEPT ![u].qty = trade[u].qty - Reported(u, q, e),
                                ![t] = Closed]
    <3> DEFINE w == Head(op.todo).of
               p == MinOf(NetQty(t), trade[w].qty)
    <3>1. /\ w \in managed /\ trade[w].status = "open" /\ e \in Executions(w, p)
          /\ p > 0 /\ trade[w].qty - Reported(w, p, e) > 0
          /\ UNCHANGED <<active, up, managed, entry, due>>
          /\ ~NettingDone(t) /\ op.by = t /\ op.phase = "netting" /\ op' = Idle
          /\ held' = [held EXCEPT ![Side[w]] = held[Side[w]] - e]
          /\ trade' = [trade EXCEPT ![w].qty = trade[w].qty - Reported(w, p, e),
                                  ![t] = Closed]
      BY <1>2 DEF NetRaises, Netting, sessions
    <3>2. w \in Trade /\ NetQty(t) \in Nat /\ p \in Nat
      BY <3>1, NetTypes
    <3>3. p <= trade[w].qty
      BY <1>0, <3>2, FloorAndMin
    <3> HIDE DEF w, p
    <3>4. QED BY <3>1, <3>2, <3>3
  <2> DEFINE left == trade[u].qty - Reported(u, q, e)
  <2>2. e = q /\ Reported(u, q, e) = q
    <3>1. op.phase # "submitted"
      BY <2>1
    <3>2. QED BY <2>1, <3>1, ExactClose
  <2>3. left = trade[u].qty - q /\ left \in Nat
    BY <1>0, <2>1, <2>2
  <2> HIDE DEF left
  <2>4. u # t /\ Side[u] \in SideNames /\ trade[t].status = "opening" /\ t \notin managed
    BY <2>1 DEF OwnershipInv, EntryOwned
  <2>5. /\ held'[Side[u]] = held[Side[u]] - q /\ held[Side[u]] \in Nat
        /\ \A s \in SideNames \ {Side[u]} : held'[s] = held[s]
        /\ trade'[t].status = "closed"
        /\ trade'[u].status = "open" /\ trade'[u].qty = left
        /\ \A v \in Trade \ {t, u} : trade'[v] = trade[v]
    BY <2>1, <2>2, <2>4 DEF TypeOK, left, Logical, Closed, Over
  <2>6. entry[t].status = "none" /\ entry[u].status = "none"
    BY <2>1, <2>4 DEF ExposureInv, EntriesKnown, InPhase
  <2>7. ASSUME NEW v \in Trade \ {u} PROVE Apart(v)
    <3>1. op'.by # v
      BY <2>1 DEF Idle
    <3>2. CASE v = t
      BY <2>1, <2>4, <2>5, <2>6, <3>1, <3>2 DEF Apart
    <3>3. CASE v # t
      BY <2>1, <2>5, <3>1, <3>3 DEF Apart
    <3>4. QED BY <3>2, <3>3
  <2>8. Fills(u) /\ Fills(u)'
    BY <2>1, <2>5 DEF Fills, Filled
  <2>9. held'[Side[u]] + (IF Fills(u) THEN Size(u) ELSE 0) =
           held[Side[u]] + (IF Fills(u)' THEN Size(u)' ELSE 0)
    BY <1>0, <2>1, <2>3, <2>5, <2>8 DEF Size
  <2>10. \A v \in Trade : due'[v] = 0
    BY <1>0, <2>1
  <2>11. entry'[u].status = "none" /\ trade'[u].qty > 0 /\ u \in managed'
    BY <2>1, <2>5, <2>6 DEF left
  <2>12. QED
    BY <2>1, <2>5, <2>7, <2>9, <2>10, <2>11, OneTradeExposure
<1>3. ASSUME NEW e, Flattened(t, e) PROVE ExposureInv'
  <2>1. /\ op.by = t /\ op.phase = "protecting" /\ e \in Executions(t, trade[t].qty)
        /\ held' = [held EXCEPT ![Side[t]] = held[Side[t]] - e]
        /\ trade' = [trade EXCEPT ![t] = Closed] /\ op' = Idle
        /\ UNCHANGED <<active, up, managed, entry>>
        /\ \A u \in Trade : due'[u] = 0
    BY <1>0, <1>3 DEF Flattened, InPhase, Abort, sessions, TypeOK
  <2>2. trade[t].status = "open" /\ trade[t].qty > 0
    BY <2>1 DEF OwnershipInv, EntryOwned, ExposureInv, StoredIsListed, Reserves
  <2>3. Fills(t) /\ Size(t) = trade[t].qty /\ op.phase # "submitted"
    BY <2>1, <2>2 DEF Fills, Size
  <2>4. e = trade[t].qty
    BY <1>0, <2>1, <2>2, <2>3, ExactClose
  <2>5. /\ held'[Side[t]] = held[Side[t]] - trade[t].qty
        /\ \A s \in SideNames \ {Side[t]} : held'[s] = held[s]
        /\ \A u \in Trade \ {t} : trade'[u] = trade[u]
        /\ trade'[t].status = "closed"
    BY <1>0, <2>1, <2>4 DEF TypeOK, Closed, Over
  <2>6. ASSUME NEW u \in Trade \ {t} PROVE Apart(u)
    BY <2>1, <2>5 DEF Apart, Idle
  <2>7. entry'[t].status = "none"
    BY <2>1, <2>2 DEF ExposureInv, EntriesKnown, InPhase
  <2>8. ~Fills(t)' /\ ~Reserves(t)'
    BY <2>1, <2>5 DEF Fills, Filled, Reserves, Idle
  <2>9. held'[Side[t]] + (IF Fills(t) THEN Size(t) ELSE 0) =
          held[Side[t]] + (IF Fills(t)' THEN Size(t)' ELSE 0)
    BY <1>0, <2>3, <2>5, <2>8
  <2>10. trade'[t].status \notin {"waiting", "open"}
    BY <2>5
  <2>11. QED BY <2>1, <2>5, <2>6, <2>7, <2>8, <2>9, <2>10, OneTradeExposure
<1>4. ASSUME NetConflict(t) \/ DecideAgainst(t) \/ EntryRejected(t)
      PROVE  ExposureInv'
  <2>1. /\ op.by = t /\ op.phase \in {"netting", "entering"} /\ op' = Idle
        /\ trade' = [trade EXCEPT ![t] = Closed]
        /\ UNCHANGED <<active, up, managed, exchange>>
    BY <1>4 DEF NetConflict, DecideAgainst, EntryRejected, Netting, InPhase, Abort,
       sessions
  <2>2. trade[t].status = "opening"
    BY <2>1 DEF OwnershipInv, EntryOwned
  <2>3. entry[t].status = "none"
    BY <2>1, <2>2 DEF ExposureInv, EntriesKnown, InPhase
  <2>4. trade'[t].status = "closed" /\ \A u \in Trade \ {t} : trade'[u] = trade[u]
    BY <2>1 DEF TypeOK, Closed, Over
  <2>5. QED BY <2>1, <2>2, <2>3, <2>4, OnlyGivesUp
<1>5. ~EntryUnconfirmed(t) /\ ~FlattenFails(t)
  BY DEF EntryUnconfirmed, FlattenFails, Undisturbed
<1>6. ASSUME NEW x, Decide(t, x) PROVE ExposureInv'
  <2>1. /\ op.by = t /\ op.phase = "netting" /\ op'.by = t /\ op'.phase = "entering"
        /\ trade' = [trade EXCEPT ![t].qty = x] /\ x \in 1 .. Residual(t)
        /\ UNCHANGED <<active, up, managed, held, entry, due>>
    BY <1>6 DEF Decide, Approves, Netting, sessions, exchange, TypeOK, Entry
  <2>2. trade[t].status = "opening"
    BY <2>1 DEF OwnershipInv, EntryOwned
  <2>3. entry[t].status = "none"
    BY <2>1, <2>2 DEF ExposureInv, EntriesKnown, InPhase
  <2>4. /\ trade'[t].qty = x /\ trade'[t].status = "opening"
        /\ \A u \in Trade \ {t} : trade'[u] = trade[u]
    BY <2>1, <2>2 DEF TypeOK, Logical
  <2>5. x > 0
    <3>1. Residual(t) \in Nat
      BY FloorAndMin DEF Residual, TypeOK, Entry
    <3>2. QED BY <2>1, <3>1
  <2>6. ASSUME NEW u \in Trade \ {t} PROVE Apart(u)
    BY <2>1, <2>4 DEF Apart
  <2>7. ~Fills(t) /\ ~Fills(t)' /\ entry'[t].status = "none"
    BY <2>1, <2>2, <2>3, <2>4 DEF Fills, Filled
  <2>8. held'[Side[t]] + (IF Fills(t) THEN Size(t) ELSE 0) =
          held[Side[t]] + (IF Fills(t)' THEN Size(t)' ELSE 0)
    BY <2>1, <2>7
  <2>9. /\ trade'[t].qty > 0 /\ trade'[t].status \notin {"waiting", "open"}
        /\ \A u \in Trade : due'[u] = 0
        /\ \A s \in SideNames \ {Side[t]} : held'[s] = held[s]
    BY <1>0, <2>1, <2>4, <2>5
  <2>10. QED BY <2>1, <2>6, <2>7, <2>8, <2>9, OneTradeExposure
<1>7. ASSUME NEW n, NEW x, Submit(t, n, x) PROVE ExposureInv'
  <2> DEFINE order == IF x = 0 THEN [status |-> "resting", qty |-> n]
                               ELSE [status |-> "filled", qty |-> x]
             m == IF x = 0 THEN MinOf(trade[t].qty, n) ELSE x
  <2>1. /\ op.by = t /\ op.phase = "entering" /\ op'.by = t /\ op'.phase = "submitted"
        /\ n \in Orderable(t) /\ x \in 0 .. n
        /\ entry' = [entry EXCEPT ![t] = order]
        /\ held' = [held EXCEPT ![Side[t]] = held[Side[t]] + x]
        /\ trade' = [trade EXCEPT ![t].qty = m]
        /\ UNCHANGED <<active, up, managed, due>>
    BY <1>7 DEF Submit, InPhase, sessions, TypeOK, Entry
  <2>2. trade[t].status = "opening" /\ trade[t].qty > 0
    BY <2>1 DEF OwnershipInv, EntryOwned, ExposureInv, StoredIsListed, Reserves
  <2>3. entry[t].status = "none"
    BY <2>1, <2>2 DEF ExposureInv, EntriesKnown, InPhase
  <2>4. n \in Nat /\ x \in Nat /\ n > 0 /\ m \in Nat /\ m > 0
    <3>1. n \in Nat /\ n > 0
      BY <1>0, <2>1, <2>2, WantAssumption DEF Orderable
    <3>2. x \in Nat
      BY <2>1, <3>1
    <3>3. MinOf(trade[t].qty, n) \in Nat /\ MinOf(trade[t].qty, n) > 0
      BY <1>0, <2>2, <3>1 DEF MinOf
    <3>4. QED BY <3>1, <3>2, <3>3
  <2>5. order.status # "none" /\ order.qty > 0 /\ (order.status = "filled" <=> x # 0)
        /\ (x # 0 => order.qty = x)
    BY <2>4
  <2> HIDE DEF order, m
  <2>6. /\ trade'[t].qty = m /\ trade'[t].status = "opening" /\ entry'[t] = order
        /\ \A u \in Trade \ {t} : trade'[u] = trade[u] /\ entry'[u] = entry[u]
    BY <2>1, <2>2 DEF TypeOK, Logical
  <2>7. ASSUME NEW u \in Trade \ {t} PROVE Apart(u)
    BY <2>1, <2>6 DEF Apart
  <2>8. ~Fills(t) /\ (Fills(t)' <=> x # 0) /\ (x # 0 => Size(t)' = x)
    BY <2>2, <2>3, <2>5, <2>6 DEF Fills, Filled, Size
  <2>9. held'[Side[t]] = held[Side[t]] + x
    BY <1>0, <2>1 DEF TypeOK
  <2>10. held'[Side[t]] + (IF Fills(t) THEN Size(t) ELSE 0) =
           held[Side[t]] + (IF Fills(t)' THEN Size(t)' ELSE 0)
    BY <1>0, <2>4, <2>8, <2>9
  <2>11. /\ trade'[t].qty > 0 /\ trade'[t].status \notin {"waiting", "open"}
         /\ \A u \in Trade : due'[u] = 0
         /\ \A s \in SideNames \ {Side[t]} : held'[s] = held[s]
         /\ InPhase(t, "submitted")' /\ entry'[t].qty > 0
    BY <1>0, <2>1, <2>4, <2>5, <2>6 DEF InPhase, TypeOK
  <2>12. QED BY <2>1, <2>7, <2>10, <2>11, OneTradeExposure
<1>8. CASE EntryWaits(t)
  <2>1. /\ op.by = t /\ op.phase = "submitted" /\ op' = Idle
        /\ trade' = [trade EXCEPT ![t].status = "waiting"]
        /\ managed' = managed \cup {t}
        /\ UNCHANGED <<active, up, held, entry, due>>
    BY <1>8 DEF EntryWaits, InPhase, sessions, exchange
  <2>2. trade[t].status = "opening" /\ trade[t].qty > 0
    BY <2>1 DEF OwnershipInv, EntryOwned, ExposureInv, StoredIsListed, Reserves
  <2>3. /\ trade'[t].qty = trade[t].qty /\ trade'[t].status = "waiting"
        /\ \A u \in Trade \ {t} : trade'[u] = trade[u]
    BY <2>1 DEF TypeOK, Logical
  <2>4. ASSUME NEW u \in Trade \ {t} PROVE Apart(u)
    BY <2>1, <2>3 DEF Apart, Idle
  <2>5. (Fills(t)' <=> Fills(t)) /\ Size(t)' = Size(t)
    BY <2>1, <2>2, <2>3 DEF Fills, Filled, Size
  <2>6. held'[Side[t]] + (IF Fills(t) THEN Size(t) ELSE 0) =
          held[Side[t]] + (IF Fills(t)' THEN Size(t)' ELSE 0)
    BY <2>1, <2>3, <2>5
  <2>7. /\ trade'[t].qty > 0 /\ t \in managed'
        /\ \A u \in Trade : due'[u] = 0
        /\ \A s \in SideNames \ {Side[t]} : held'[s] = held[s]
        /\ entry'[t].status # "none" => entry'[t].qty > 0
    BY <1>0, <2>1, <2>2, <2>3 DEF ExposureInv, EntriesKnown
  <2>8. QED BY <2>1, <2>3, <2>4, <2>6, <2>7, OneTradeExposure
<1>9. CASE EntryFilled(t)
  <2>1. /\ op.by = t /\ op.phase = "submitted" /\ entry[t].status = "filled"
        /\ op'.by = t /\ op'.phase = "protecting"
        /\ trade' = [trade EXCEPT ![t].status = "open", ![t].qty = entry[t].qty]
        /\ entry' = [entry EXCEPT ![t] = NoOrder]
        /\ UNCHANGED <<active, up, managed, held, due>>
    BY <1>9 DEF EntryFilled, InPhase, Filled, sessions, TypeOK, Entry
  <2>2. trade[t].status = "opening" /\ entry[t].qty > 0
    BY <2>1 DEF OwnershipInv, EntryOwned, ExposureInv, EntriesKnown
  <2>3. /\ trade'[t].qty = entry[t].qty /\ trade'[t].status = "open"
        /\ entry'[t].status = "none"
        /\ \A u \in Trade \ {t} : trade'[u] = trade[u] /\ entry'[u] = entry[u]
    BY <2>1 DEF TypeOK, Logical, NoOrder
  <2>4. ASSUME NEW u \in Trade \ {t} PROVE Apart(u)
    BY <2>1, <2>3 DEF Apart
  <2>5. Fills(t)' /\ Fills(t) /\ Size(t)' = Size(t)
    BY <2>1, <2>2, <2>3 DEF Fills, Filled, Size
  <2>6. held'[Side[t]] + (IF Fills(t) THEN Size(t) ELSE 0) =
          held[Side[t]] + (IF Fills(t)' THEN Size(t)' ELSE 0)
    BY <2>1, <2>5
  <2>7. /\ trade'[t].qty > 0
        /\ \A u \in Trade : due'[u] = 0
        /\ \A s \in SideNames \ {Side[t]} : held'[s] = held[s]
    BY <1>0, <2>1, <2>2, <2>3
  <2>8. QED BY <2>1, <2>3, <2>4, <2>6, <2>7, OneTradeExposure
<1>10. CASE Protected(t)
  <2>1. /\ op.by = t /\ op.phase = "protecting" /\ op' = Idle
        /\ managed' = managed \cup {t}
        /\ UNCHANGED <<active, up, trade, held, entry, due>>
    BY <1>10 DEF Protected, InPhase, sessions, exchange
  <2>2. trade[t].status = "open" /\ trade[t].qty > 0
    BY <2>1 DEF OwnershipInv, EntryOwned, ExposureInv, StoredIsListed, Reserves
  <2>3. entry'[t].status = "none"
    BY <2>1, <2>2 DEF ExposureInv, EntriesKnown, InPhase
  <2>4. ASSUME NEW u \in Trade \ {t} PROVE Apart(u)
    BY <2>1 DEF Apart, Idle
  <2>5. Fills(t)' /\ Fills(t) /\ Size(t)' = Size(t)
    BY <2>1, <2>2 DEF Fills, Size
  <2>6. held'[Side[t]] + (IF Fills(t) THEN Size(t) ELSE 0) =
          held[Side[t]] + (IF Fills(t)' THEN Size(t)' ELSE 0)
    BY <2>1, <2>5
  <2>7. /\ trade'[t].qty > 0 /\ t \in managed'
        /\ \A u \in Trade : due'[u] = 0
        /\ \A s \in SideNames \ {Side[t]} : held'[s] = held[s]
    BY <1>0, <2>1, <2>2
  <2>8. QED BY <2>1, <2>3, <2>4, <2>6, <2>7, OneTradeExposure
<1>11. QED
  BY <1>1, <1>2, <1>3, <1>4, <1>5, <1>6, <1>7, <1>8, <1>9, <1>10 DEF EntryStep

\* No trade is released with a stopped session when none is stopped.
LEMMA NothingReleased ==
  ASSUME TypeOK, ExposureInv, NEW t \in Trade, NEW unseen
  PROVE  Releasable(t, unseen) = {}
BY DEF Releasable, Stale, ExposureInv, EnginesRun

\* The other steps of a trade keep all exposure owned.
LEMMA TradeExposure ==
  ASSUME Undisturbed, TypeOK, TypeOK', OwnershipInv, ExposureInv, NEW t \in Trade,
         TradeStep(t)
  PROVE  ExposureInv'
<1>0. /\ \A u \in Trade : trade[u].qty \in Nat /\ due[u] = 0
      /\ Side[t] \in SideNames /\ held[Side[t]] \in Nat
  BY DEF TypeOK, Logical, ExposureInv, EnginesRun
<1>1. CASE Signal(t)
  <2>1. /\ trade[t].status = "new"
        /\ trade' = [trade EXCEPT ![t] = [status |-> "opening", qty |-> Want[t],
                                          risk |-> StopRisk[t], missed |-> FALSE]]
        /\ UNCHANGED <<active, up, managed, op, held, entry, due>>
    BY <1>1 DEF Signal, sessions, exchange
  <2>2. op.by # t /\ entry[t].status = "none"
    BY <2>1 DEF OwnershipInv, EntryOwned, ExposureInv, EntriesKnown, InPhase
  <2>3. /\ trade'[t].status = "opening"
        /\ \A u \in Trade \ {t} : trade'[u] = trade[u]
    BY <2>1 DEF TypeOK
  <2>4. \A u \in Trade \ {t} : Apart(u)
    BY <2>1, <2>3 DEF Apart
  <2>5. ~Fills(t) /\ ~Fills(t)' /\ ~Reserves(t)'
    BY <2>1, <2>2, <2>3 DEF Fills, Filled, Reserves
  <2>6. /\ held'[Side[t]] + (IF Fills(t) THEN Size(t) ELSE 0) =
             held[Side[t]] + (IF Fills(t)' THEN Size(t)' ELSE 0)
        /\ \A s \in SideNames \ {Side[t]} : held'[s] = held[s]
    BY <2>1, <2>5
  <2>7. /\ entry'[t].status = "none" /\ trade'[t].status \notin {"waiting", "open"}
        /\ \A u \in Trade : due'[u] = 0
    BY <1>0, <2>1, <2>2, <2>3
  <2>8. QED BY <2>1, <2>4, <2>5, <2>6, <2>7, OneTradeExposure
<1>2. ASSUME NEW unseen, Admit(t, unseen) PROVE ExposureInv'
  <2>1. /\ op = Idle /\ trade[t].status = "opening"
        /\ UNCHANGED <<active, up, managed, held, entry, due>>
        /\ \A u \in Trade \ {t} : trade'[u] = trade[u]
        /\ trade'[t] \in {trade[t], Closed}
        /\ Refused(t, {}) => op' = Idle
        /\ ~Refused(t, {}) => op'.by = t /\ op'.phase = "netting" /\ trade'[t] = trade[t]
    <3> DEFINE freed == Releasable(t, unseen)
               end == IF Refused(t, freed) THEN freed \cup {t} ELSE freed
    <3>1. /\ op = Idle /\ trade[t].status = "opening"
          /\ UNCHANGED <<active, up, managed, held, entry, due>>
          /\ trade' = [u \in Trade |-> IF u \in end THEN Closed ELSE trade[u]]
          /\ Refused(t, freed) => op' = Idle
          /\ ~Refused(t, freed) => op'.by = t /\ op'.phase = "netting"
      BY <1>2 DEF Admit, sessions, exchange
    <3>2. freed = {}
      BY NothingReleased
    <3> HIDE DEF freed
    <3>3. QED BY <3>1, <3>2
  <2>2. entry[t].status = "none"
    BY <2>1 DEF ExposureInv, EntriesKnown, InPhase, Idle
  <2>3. ASSUME NEW u \in Trade \ {t} PROVE Apart(u)
    BY <2>1 DEF Apart, Idle
  <2>4. trade'[t].status \in {"opening", "closed"} /\ entry'[t].status = "none"
    BY <2>1, <2>2 DEF Closed, Over
  <2>5. ~Fills(t) /\ ~Fills(t)' /\ ~Reserves(t)'
    BY <2>1, <2>2, <2>4 DEF Fills, Filled, Reserves, Idle
  <2>6. /\ held'[Side[t]] + (IF Fills(t) THEN Size(t) ELSE 0) =
             held[Side[t]] + (IF Fills(t)' THEN Size(t)' ELSE 0)
        /\ \A s \in SideNames \ {Side[t]} : held'[s] = held[s]
        /\ \A u \in Trade : due'[u] = 0
    BY <1>0, <2>1, <2>5
  <2>7. trade'[t].status \notin {"waiting", "open"}
    BY <2>4
  <2>8. QED BY <2>1, <2>3, <2>4, <2>5, <2>6, <2>7, OneTradeExposure
<1>3. ASSUME NEW q, NEW e, CloseTrade(t, q, e) PROVE ExposureInv'
  <2>1. /\ t \in managed /\ trade[t].status = "open" /\ UNCHANGED <<active, up, op>>
        /\ q \in Nat /\ q > 0 /\ q <= trade[t].qty /\ e \in Executions(t, q)
        /\ Reduce(t, q, e) /\ ForgetIfClosed(t) /\ op.phase = "idle"
    BY <1>0, <1>3 DEF CloseTrade, Holds, GuardFree, Idle, sessions
  <2>2. QED BY <2>1, ReduceExposure
<1>4. ASSUME NEW e, CloseAll(t, e) \/ ActivateFlattened(t, e) PROVE ExposureInv'
  <2>1. /\ t \in managed /\ UNCHANGED <<active, up, op>> /\ op = Idle
        /\ held' = [held EXCEPT ![Side[t]] = held[Side[t]] - e]
        /\ \A u \in managed : u # t => u \in managed'
    BY <1>4 DEF CloseAll, ActivateFlattened, Holds, GuardFree, Forget, sessions
  <2>2. op.phase # "submitted"
    BY <2>1 DEF Idle
  <2>3. Fills(t) /\ e = Size(t) /\ trade' = [trade EXCEPT ![t] = Closed]
    <3>1. CASE CloseAll(t, e)
      <4>1. trade[t].status = "open" /\ e \in Executions(t, trade[t].qty)
        BY <3>1 DEF CloseAll, Holds
      <4>2. trade[t].qty \in Nat /\ trade[t].qty > 0 /\ trade[t].qty <= trade[t].qty
        BY <1>0, <4>1 DEF ExposureInv, StoredIsListed, Reserves
      <4>3. e = trade[t].qty /\ Reported(t, trade[t].qty, e) = trade[t].qty
        BY <2>2, <4>1, <4>2, ExactClose
      <4>4. trade[t].qty - Reported(t, trade[t].qty, e) = 0
        BY <4>2, <4>3
      <4>5. trade' = [trade EXCEPT ![t] = Closed]
        BY <3>1, <4>4 DEF CloseAll
      <4>6. QED BY <4>1, <4>3, <4>5 DEF Fills, Size
    <3>2. CASE ActivateFlattened(t, e)
      <4> DEFINE n == entry[t].qty
                 most == IF SameSideLegs(t) = {} THEN held[Side[t]]
                                                 ELSE MinOf(n, held[Side[t]])
                 left == IF SameSideLegs(t) = {} THEN MinOf(n, held[Side[t]] - e)
                                                 ELSE Less(n, e)
      <4>1. Fills(t) /\ Size(t) = n /\ n \in Nat
        BY <3>2 DEF ActivateFlattened, Holds, Fills, Size, TypeOK, Order
      <4>2. n <= held[Side[t]] /\ (SameSideLegs(t) = {} => held[Side[t]] = n)
        BY <2>2, <4>1, BucketHolds
      <4>3. most = n
        BY <1>0, <4>1, <4>2 DEF MinOf
      <4>4. /\ e \in {most} \ {0}
            /\ trade' = [trade EXCEPT ![t] =
                  IF left = 0 THEN Closed
                  ELSE [trade[t] EXCEPT !.status = "open", !.qty = left]]
        <5>1. "partial" \notin Events
          BY DEF Undisturbed
        <5>2. QED BY <3>2, <5>1 DEF ActivateFlattened
      <4> HIDE DEF most
      <4>5. e = n
        BY <4>3, <4>4
      <4>6. left = 0
        BY <1>0, <4>1, <4>2, <4>5 DEF MinOf, Less
      <4> HIDE DEF left
      <4>7. QED BY <4>1, <4>4, <4>5, <4>6
    <3>3. QED BY <1>4, <3>1, <3>2
  <2>4. Size(t) \in Nat
    BY <1>0 DEF Size, TypeOK, Order
  <2>5. \A u \in Trade : due'[u] = 0
    BY <1>0, <1>4 DEF CloseAll, ActivateFlattened, TypeOK
  <2>6. /\ entry'[t].status = "none"
        /\ \A u \in Trade \ {t} : entry'[u] = entry[u]
    <3>1. CASE CloseAll(t, e)
      BY <2>1, <3>1
         DEF CloseAll, Holds, ExposureInv, EntriesKnown, InPhase, Idle
    <3>2. CASE ActivateFlattened(t, e)
      BY <3>2 DEF ActivateFlattened, TypeOK, NoOrder
    <3>3. QED BY <1>4, <3>1, <3>2
  <2>7. /\ held'[Side[t]] = held[Side[t]] - Size(t)
        /\ \A s \in SideNames \ {Side[t]} : held'[s] = held[s]
        /\ \A u \in Trade \ {t} : trade'[u] = trade[u]
        /\ trade'[t].status = "closed"
    BY <1>0, <2>1, <2>3 DEF TypeOK, Closed, Over
  <2>8. ASSUME NEW u \in Trade \ {t} PROVE Apart(u)
    BY <2>1, <2>6, <2>7 DEF Apart
  <2>9. ~Fills(t)' /\ ~Reserves(t)'
    BY <2>1, <2>7 DEF Fills, Reserves, Idle
  <2>10. held'[Side[t]] + (IF Fills(t) THEN Size(t) ELSE 0) =
           held[Side[t]] + (IF Fills(t)' THEN Size(t)' ELSE 0)
    BY <1>0, <2>3, <2>4, <2>7, <2>9
  <2>11. trade'[t].status \notin {"waiting", "open"}
    BY <2>7
  <2>12. QED BY <2>1, <2>5, <2>6, <2>7, <2>8, <2>9, <2>10, <2>11, OneTradeExposure
<1>5. CASE CancelEntry(t)
  <2>1. /\ trade[t].status = "waiting" /\ entry[t].status = "resting" /\ op = Idle /\ op' = op
        /\ trade' = [trade EXCEPT ![t] = Closed]
        /\ entry' = [entry EXCEPT ![t] = NoOrder]
        /\ managed' = managed \ {t} /\ UNCHANGED <<active, up, held, due>>
    BY <1>5 DEF CancelEntry, Holds, GuardFree, Resting, sessions
  <2>2. /\ trade'[t].status = "closed" /\ entry'[t].status = "none"
        /\ \A u \in Trade \ {t} : trade'[u] = trade[u] /\ entry'[u] = entry[u]
    BY <2>1 DEF TypeOK, Closed, Over, NoOrder
  <2>3. ASSUME NEW u \in Trade \ {t} PROVE Apart(u)
    BY <2>1, <2>2 DEF Apart
  <2>4. ~Fills(t) /\ ~Fills(t)' /\ ~Reserves(t)'
    BY <2>1, <2>2 DEF Fills, Filled, Reserves, Idle
  <2>5. /\ held'[Side[t]] + (IF Fills(t) THEN Size(t) ELSE 0) =
             held[Side[t]] + (IF Fills(t)' THEN Size(t)' ELSE 0)
        /\ \A s \in SideNames \ {Side[t]} : held'[s] = held[s]
        /\ \A u \in Trade : due'[u] = 0
        /\ trade'[t].status \notin {"waiting", "open"}
    BY <1>0, <2>1, <2>2, <2>4
  <2>6. QED BY <2>1, <2>2, <2>3, <2>4, <2>5, OneTradeExposure
<1>6. ~Sync(t)
  BY <1>0 DEF Sync
<1>7. CASE EntryExecutes(t)
  <2>1. /\ entry[t].status = "resting" /\ entry' = [entry EXCEPT ![t].status = "filled"]
        /\ held' = [held EXCEPT ![Side[t]] = held[Side[t]] + entry[t].qty]
        /\ UNCHANGED <<active, up, trade, managed, op, due>>
    BY <1>7 DEF EntryExecutes, Resting, sessions
  <2>2. /\ entry'[t].status = "filled" /\ entry'[t].qty = entry[t].qty
        /\ \A u \in Trade \ {t} : entry'[u] = entry[u]
        /\ held'[Side[t]] = held[Side[t]] + entry[t].qty
        /\ \A s \in SideNames \ {Side[t]} : held'[s] = held[s]
    BY <1>0, <2>1 DEF TypeOK, Order
  <2>3. /\ trade[t].status = "waiting" \/ InPhase(t, "submitted")
        /\ trade[t].status \in {"waiting", "opening"} /\ entry[t].qty > 0
    BY <2>1 DEF ExposureInv, EntriesKnown, InPhase, OwnershipInv, EntryOwned
  <2>4. ASSUME NEW u \in Trade \ {t} PROVE Apart(u)
    BY <2>1, <2>2 DEF Apart
  <2>5. ~Fills(t) /\ Fills(t)' /\ Size(t)' = entry[t].qty
    BY <2>1, <2>2, <2>3 DEF Fills, Filled, Size
  <2>6. held'[Side[t]] + (IF Fills(t) THEN Size(t) ELSE 0) =
          held[Side[t]] + (IF Fills(t)' THEN Size(t)' ELSE 0)
    BY <1>0, <2>1, <2>2, <2>5 DEF TypeOK, Order
  <2>7. /\ trade'[t].status = "waiting" \/ InPhase(t, "submitted")'
        /\ entry'[t].qty > 0 /\ \A u \in Trade : due'[u] = 0
    BY <1>0, <2>1, <2>2, <2>3 DEF InPhase
  <2>8. Reserves(t)' => trade'[t].qty > 0
    BY <2>1 DEF Reserves, ExposureInv, StoredIsListed
  <2>9. trade'[t].status \in {"waiting", "open"} => t \in managed' \/ op'.by = t
    BY <2>1 DEF ExposureInv, StoredIsListed
  <2>10. QED BY <2>1, <2>2, <2>4, <2>6, <2>7, <2>8, <2>9, OneTradeExposure
<1>8. CASE Activate(t)
  <2>1. /\ trade[t].status = "waiting" /\ entry[t].status = "filled" /\ t \in managed
        /\ trade' = [trade EXCEPT ![t].status = "open", ![t].qty = entry[t].qty]
        /\ entry' = [entry EXCEPT ![t] = NoOrder]
        /\ UNCHANGED <<active, up, managed, op, held, due>>
    BY <1>8 DEF Activate, Holds, Filled, sessions
  <2>2. /\ trade'[t].status = "open" /\ trade'[t].qty = entry[t].qty
        /\ entry'[t].status = "none"
        /\ \A u \in Trade \ {t} : trade'[u] = trade[u] /\ entry'[u] = entry[u]
    BY <2>1 DEF TypeOK, Logical, NoOrder
  <2>3. ASSUME NEW u \in Trade \ {t} PROVE Apart(u)
    BY <2>1, <2>2 DEF Apart
  <2>4. Fills(t) /\ Fills(t)' /\ Size(t)' = Size(t) /\ entry[t].qty > 0
    BY <2>1, <2>2 DEF Fills, Filled, Size, ExposureInv, EntriesKnown
  <2>5. /\ held'[Side[t]] + (IF Fills(t) THEN Size(t) ELSE 0) =
             held[Side[t]] + (IF Fills(t)' THEN Size(t)' ELSE 0)
        /\ \A s \in SideNames \ {Side[t]} : held'[s] = held[s]
        /\ \A u \in Trade : due'[u] = 0
        /\ t \in managed' /\ trade'[t].qty > 0
    BY <1>0, <2>1, <2>2, <2>4
  <2>6. QED BY <2>1, <2>2, <2>3, <2>5, OneTradeExposure
<1>9. ~StopExecutes(t)
  BY DEF StopExecutes, Undisturbed
<1>10. CASE Issue(t)
  <2>1. /\ UNCHANGED <<active, up, trade, managed, held, entry, due>>
        /\ op'.by = op.by /\ op'.phase = op.phase
    BY <1>10 DEF Issue, sessions, exchange, TypeOK, Entry
  <2>2. \A u \in Trade : OwnedQty(u)' = OwnedQty(u)
    BY <2>1 DEF OwnedQty, Filled
  <2>3. HeldIsOwned'
    BY <2>1, <2>2 DEF ExposureInv, HeldIsOwned, OwnedQtys, OnSide
  <2>4. QED
    BY <2>1, <2>3 DEF ExposureInv, EnginesRun, EntriesKnown, StoredIsListed, Reserves,
       InPhase
<1>11. ASSUME PositionFound(t) \/ \E r : MoveStop(t, r) PROVE ExposureInv'
  <2>1. /\ UNCHANGED <<active, up, managed, op, held, entry, due>>
        /\ \A u \in Trade : trade'[u].status = trade[u].status /\ trade'[u].qty = trade[u].qty
    <3>1. CASE PositionFound(t)
      BY <3>1 DEF PositionFound, sessions, exchange, TypeOK, Logical
    <3>2. ASSUME NEW r, MoveStop(t, r)
          PROVE  /\ UNCHANGED <<active, up, managed, op, held, entry, due>>
                 /\ \A u \in Trade : /\ trade'[u].status = trade[u].status
                                      /\ trade'[u].qty = trade[u].qty
      BY <3>2 DEF MoveStop, sessions, exchange, TypeOK, Logical
    <3>3. QED BY <1>11, <3>1, <3>2
  <2>2. \A u \in Trade : OwnedQty(u)' = OwnedQty(u)
    BY <2>1 DEF OwnedQty, Filled
  <2>3. HeldIsOwned'
    BY <2>1, <2>2 DEF ExposureInv, HeldIsOwned, OwnedQtys, OnSide
  <2>4. QED
    BY <2>1, <2>3 DEF ExposureInv, EnginesRun, EntriesKnown, StoredIsListed, Reserves,
       InPhase
<1>12. ~PositionMissing(t)
  <2>1. SUFFICES ASSUME trade[t].status = "open", held[Side[t]] = 0 PROVE FALSE
    BY DEF PositionMissing, Holds
  <2>2. Fills(t) /\ Size(t) > 0
    BY <2>1 DEF Fills, Size, ExposureInv, StoredIsListed, Reserves
  <2>3. Size(t) <= 0
    BY <2>1, <2>2, BucketHolds
  <2>4. QED BY <1>0, <2>1, <2>2, <2>3 DEF Size
<1>13. QED
  BY <1>1, <1>2, <1>3, <1>4, <1>5, <1>6, <1>7, <1>8, <1>9, <1>10, <1>11, <1>12
     DEF TradeStep

\* Nothing is stopped, started or restarted.
LEMMA NoSessionStep ==
  ASSUME Undisturbed, ExposureInv
  PROVE  /\ ~\E s \in Session : Stop(s) \/ ForceStop(s) \/ EngineUp(s)
         /\ ~Restart
BY DEF Undisturbed, Stop, ForceStop, EngineUp, Restart, ExposureInv, EnginesRun

\* The strengthening holds in every state.
LEMMA ExposureInvariant == ASSUME Undisturbed PROVE Spec => []ExposureInv
<1>1. Init => ExposureInv
  <2> SUFFICES ASSUME Init PROVE ExposureInv
    OBVIOUS
  <2>1. \A t \in Trade : OwnedQtys[t] = 0
    BY DEF Init, OwnedQtys, OwnedQty, Over
  <2>2. ASSUME NEW s \in SideNames PROVE held[s] = SumFunctionOnSet(OwnedQtys, OnSide(s))
    <3>1. IsFiniteSet(OnSide(s)) /\ \A t \in OnSide(s) : OwnedQtys[t] = 0
      BY <2>1, FS_Subset DEF OnSide
    <3>2. SumFunctionOnSet(OwnedQtys, OnSide(s)) = 0
      BY <3>1, SumOfZeros
    <3>3. QED BY <3>2 DEF Init
  <2>3. QED
    BY <2>2 DEF Init, ExposureInv, EnginesRun, EntriesKnown, StoredIsListed, HeldIsOwned,
       Reserves, Idle, Over, NoOrder
<1>2. TypeOK /\ TypeOK' /\ OwnershipInv /\ ExposureInv /\ [Next]_vars => ExposureInv'
  <2> SUFFICES ASSUME TypeOK, TypeOK', OwnershipInv, ExposureInv, [Next]_vars
               PROVE  ExposureInv'
    OBVIOUS
  <2>1. CASE UNCHANGED vars
    <3>1. UNCHANGED <<active, up, trade, managed, op, held, entry, due>>
      BY <2>1 DEF vars
    <3>2. \A u \in Trade : OwnedQty(u)' = OwnedQty(u)
      BY <3>1 DEF OwnedQty, Filled
    <3>3. HeldIsOwned'
      BY <3>1, <3>2 DEF ExposureInv, HeldIsOwned, OwnedQtys, OnSide
    <3>4. QED
      BY <3>1, <3>3 DEF ExposureInv, EnginesRun, EntriesKnown, StoredIsListed, Reserves,
         InPhase
  <2>2. QED BY <2>1, StepsOf, EntryExposure, TradeExposure, NoSessionStep
<1>3. QED BY <1>1, <1>2, TypeCorrect, OwnershipInvariant, PTL DEF Spec

\* As long as closes execute whole and nothing is stopped, the position of the
\* account on each side is exactly what the trades of all sessions own together:
\* netting, follow-up closes, the residual loop that flattens a bucket and the
\* fills of resting entries neither leave exposure behind nor take another
\* trade's part.
THEOREM NothingIsUnowned == ASSUME Undisturbed PROVE Spec => []ExposureIsOwned
<1>1. ExposureInv => ExposureIsOwned
  <2> SUFFICES ASSUME ExposureInv, NEW s \in SideNames PROVE held[s] = Owned(s)
    BY DEF ExposureIsOwned
  <2>1. held[s] = SumFunctionOnSet(OwnedQtys, OnSide(s))
    BY DEF ExposureInv, HeldIsOwned
  <2>2. OnSide(s) \in SUBSET Trade
    BY DEF OnSide
  <2>3. MapThenSumSet(OwnedQty, OnSide(s)) = SumFunctionOnSet(OwnedQtys, OnSide(s))
    BY <2>2, OwnedSum
  <2>4. QED BY <2>1, <2>3 DEF Owned, OnSide
<1>2. QED BY <1>1, ExposureInvariant, PTL

-----------------------------------------------------------------------------
(* One side of the symbol.                                                 *)

\* An entry is netted against the legs of the other side, or refused.
NotHedging == PositionPolicy \in {"net", "block"}

\* No two trades that are stored or approved are on different sides.
OneOpen ==
  \A t, u \in Trade : Reserves(t) /\ Reserves(u) => Side[t] = Side[u]
\* A trade that was listed as open for the entry that is netted has no more than
\* it was listed with; and a stored trade that stands against the entry is still
\* listed, unless the entry is netted away already.
NettingCovers ==
  \A t, u \in Trade : Netting(t) =>
    /\ \A i \in DOMAIN op.todo :
         op.todo[i].of = u /\ op.todo[i].leg.status # "waiting" =>
           \/ trade[u].status = "closed"
           \/ trade[u].status = "open" /\ trade[u].qty <= op.todo[i].leg.qty
    /\ trade[u].status \in {"waiting", "open"} /\ Side[u] # Side[t] =>
         op.offset >= Want[t] \/ \E i \in DOMAIN op.todo : op.todo[i].of = u
OlderIsStrict == \A t \in Trade : <<t, t>> \notin older

\* The strengthening of NoHedge.
OneSidedInv ==
  /\ OneOpen
  /\ NettingCovers
  /\ OlderIsStrict

\* No trade was opened before itself.
LEMMA OpeningIsStrict ==
  ASSUME OlderIsStrict, NEW t, OpenedNow(t) \/ older' = older
  PROVE  OlderIsStrict'
<1>1. SUFFICES ASSUME NEW u \in Trade, <<u, u>> \in older' PROVE FALSE
  BY DEF OlderIsStrict
<1>2. <<u, u>> \notin older
  BY DEF OlderIsStrict
<1>3. <<u, u>> \in (Opened \ {t}) \X {t}
  BY <1>1, <1>2 DEF OpenedNow
<1>4. u \in Opened \ {t} /\ u \in {t}
  BY <1>3
<1>5. QED BY <1>4

\* What is listed for netting is a trade and its leg.
LEMMA ListedTypes ==
  ASSUME TypeOK, NEW i \in DOMAIN op.todo
  PROVE  op.todo[i].of \in Trade /\ op.todo[i].leg.qty \in Nat
<1> DEFINE s == op.todo
<1>1. s \in Seq([of : Trade, leg : Leg]) /\ i \in DOMAIN s
  BY DEF TypeOK, Entry
<1> HIDE DEF s
<1>2. s[i] \in [of : Trade, leg : Leg]
  <2>1. \A S : \A r \in Seq(S) : \A j \in DOMAIN r : r[j] \in S
    OBVIOUS
  <2>2. QED BY <1>1, <2>1
<1>3. s[i].of \in Trade /\ s[i].leg.qty \in Nat
  BY <1>2 DEF Leg
<1>4. QED BY <1>3 DEF s

\* A step stores and approves no other trade, an open trade gets no more, and a
\* closed one stays closed.
Narrows ==
  \A t \in Trade :
    /\ Reserves(t)' => Reserves(t)
    /\ trade[t].status \in {"open", "closed"} =>
         \/ trade'[t].status = "closed"
         \/ /\ trade[t].status = "open" /\ trade'[t].status = "open"
            /\ trade'[t].qty <= trade[t].qty

\* A step that changes one listed trade.
LEMMA OneTradeNarrows ==
  ASSUME TypeOK, OwnershipInv, op'.by = op.by, op'.phase = op.phase,
         NEW t \in managed, NEW r, trade' = [trade EXCEPT ![t] = r],
         \/ r.status = "closed"
         \/ trade[t].status = "waiting"
         \/ trade[t].status = "open" /\ r.status = "open" /\ r.qty <= trade[t].qty
  PROVE  Narrows
<1>1. t \in Trade /\ op.by # t
  BY DEF TypeOK, OwnershipInv, EntryOwned
<1>2. trade'[t] = r /\ \A u \in Trade \ {t} : trade'[u] = trade[u]
  BY <1>1 DEF TypeOK
<1>3. \A u \in Trade : trade[u].qty \in Nat
  BY DEF TypeOK, Logical
<1>4. QED BY <1>1, <1>2, <1>3 DEF Narrows, Reserves

\* An entry that is given up.
LEMMA AbortNarrows ==
  ASSUME TypeOK, NEW t \in Trade, Abort(t)
  PROVE  Narrows
<1>1. /\ trade'[t].status = "closed" /\ op' = Idle
      /\ \A u \in Trade \ {t} : trade'[u] = trade[u]
  BY DEF Abort, Closed, Over, TypeOK
<1>2. \A u \in Trade : trade[u].qty \in Nat
  BY DEF TypeOK, Logical
<1>3. \A u \in Trade : op'.by # u
  BY <1>1, NobodyAssumption DEF Idle
<1>4. QED BY <1>1, <1>2, <1>3 DEF Narrows, Reserves

\* A close of a listed trade.
LEMMA ReduceNarrows ==
  ASSUME TypeOK, OwnershipInv, op'.by = op.by, op'.phase = op.phase,
         NEW t \in managed, trade[t].status = "open",
         NEW q \in Nat, NEW e \in Executions(t, q), Reduce(t, q, e)
  PROVE  Narrows
<1> DEFINE left == trade[t].qty - Reported(t, q, e)
           r == IF left = 0 THEN Closed ELSE [trade[t] EXCEPT !.qty = left]
<1>1. t \in Trade /\ trade[t].qty \in Nat /\ trade[t] \in Logical
  BY DEF TypeOK, Logical
<1>2. Reported(t, q, e) \in Nat
  BY <1>1, ReportedBounds
<1>3. left <= trade[t].qty
  BY <1>1, <1>2
<1>4. trade' = [trade EXCEPT ![t] = r]
  BY DEF Reduce
<1>5. r.status = "closed" \/ (r.status = "open" /\ r.qty <= trade[t].qty)
  BY <1>1, <1>3 DEF Closed, Over, Logical
<1> HIDE DEF r, left
<1>6. QED BY <1>4, <1>5, OneTradeNarrows

\* No step of the entry in progress but its decision approves or stores more.
LEMMA EntryNarrows ==
  ASSUME TypeOK, OwnershipInv, NEW t \in Trade, EntryStep(t), ~\E x : Decide(t, x)
  PROVE  Narrows
<1>0. \A u \in Trade : trade[u].qty \in Nat
  BY DEF TypeOK, Logical
<1>1. ASSUME NEW e, NetClose(t, e) PROVE Narrows
  <2> DEFINE u == Head(op.todo).of
             q == MinOf(NetQty(t), trade[u].qty)
  <2>1. /\ u \in managed /\ trade[u].status = "open" /\ e \in Executions(u, q)
        /\ Reduce(u, q, e) /\ ~NettingDone(t)
    BY <1>1 DEF NetClose
  <2>2. op'.by = op.by /\ op'.phase = op.phase
    BY <1>1 DEF NetClose, TypeOK, Entry
  <2>3. q \in Nat
    BY <2>1, NetTypes
  <2> HIDE DEF u, q
  <2>4. QED BY <2>1, <2>2, <2>3, ReduceNarrows
<1>2. ASSUME NEW e, NetRaises(t, e) PROVE Narrows
  <2> DEFINE u == Head(op.todo).of
             q == MinOf(NetQty(t), trade[u].qty)
             left == trade[u].qty - Reported(u, q, e)
  <2>1. /\ u \in managed /\ trade[u].status = "open" /\ e \in Executions(u, q)
        /\ op.by = t /\ ~NettingDone(t) /\ op' = Idle
        /\ trade' = [trade EXCEPT ![u].qty = left, ![t] = Closed]
    BY <1>2 DEF NetRaises, Netting, sessions
  <2>2. u \in Trade /\ q \in Nat
    BY <2>1, NetTypes
  <2>3. Reported(u, q, e) \in Nat
    BY <2>1, <2>2, ReportedBounds
  <2>4. left <= trade[u].qty
    BY <1>0, <2>2, <2>3
  <2>5. u # t
    BY <2>1 DEF OwnershipInv, EntryOwned
  <2> HIDE DEF u, q, left
  <2>6. /\ trade'[t].status = "closed" /\ trade'[u].status = "open"
        /\ trade'[u].qty = left
        /\ \A v \in Trade \ {t, u} : trade'[v] = trade[v]
    BY <2>1, <2>2, <2>5 DEF TypeOK, Logical, Closed, Over
  <2>7. \A v \in Trade : op'.by # v
    BY <2>1, NobodyAssumption DEF Idle
  <2>8. ASSUME NEW v \in Trade, Reserves(v)' PROVE Reserves(v)
    BY <2>1, <2>6, <2>7, <2>8 DEF Reserves
  <2>9. ASSUME NEW v \in Trade, trade[v].status \in {"open", "closed"}
        PROVE  \/ trade'[v].status = "closed"
               \/ /\ trade[v].status = "open" /\ trade'[v].status = "open"
                  /\ trade'[v].qty <= trade[v].qty
    <3>1. CASE v = u
      BY <2>1, <2>4, <2>6, <3>1
    <3>2. CASE v # u
      BY <1>0, <2>6, <2>9, <3>2
    <3>3. QED BY <3>1, <3>2
  <2>10. QED BY <2>8, <2>9 DEF Narrows
<1>3. ASSUME \/ \E e : Flattened(t, e)
             \/ NetConflict(t) \/ DecideAgainst(t) \/ EntryRejected(t)
             \/ EntryUnconfirmed(t) \/ FlattenFails(t)
      PROVE  Narrows
  BY <1>3, AbortNarrows DEF Flattened, NetConflict, DecideAgainst, EntryRejected,
     EntryUnconfirmed, FlattenFails
<1>4. ASSUME \/ \E n, x : Submit(t, n, x)
             \/ EntryWaits(t) \/ EntryFilled(t) \/ Protected(t)
      PROVE  Narrows
  <2>1. op.by = t /\ op.phase # "netting"
    BY <1>4 DEF Submit, EntryWaits, EntryFilled, Protected, InPhase
  <2>2. \/ op' = Idle
        \/ op'.by = t /\ op'.phase # "netting"
    BY <1>4 DEF Submit, EntryWaits, EntryFilled, Protected, InPhase, TypeOK, Entry
  <2>3. \A u \in Trade \ {t} : trade'[u] = trade[u]
    BY <1>4 DEF Submit, EntryWaits, EntryFilled, Protected, TypeOK
  <2>4. trade[t].status = "opening" \/ trade' = trade
    <3>1. CASE Protected(t)
      BY <3>1 DEF Protected
    <3>2. ASSUME ~Protected(t) PROVE trade[t].status = "opening"
      <4>1. op.phase \in {"entering", "submitted"}
        BY <1>4, <3>2 DEF Submit, EntryWaits, EntryFilled, InPhase
      <4>2. QED BY <2>1, <4>1 DEF OwnershipInv, EntryOwned
    <3>3. QED BY <3>1, <3>2
  <2>5. ASSUME NEW u \in Trade, Reserves(u)' PROVE Reserves(u)
    <3>1. CASE u = t
      BY <2>1, <3>1 DEF Reserves
    <3>2. CASE u # t
      <4>1. op'.by # u
        BY <2>2, <3>2, NobodyAssumption DEF Idle
      <4>2. QED BY <2>3, <2>5, <3>2, <4>1 DEF Reserves
    <3>3. QED BY <3>1, <3>2
  <2>6. ASSUME NEW u \in Trade, trade[u].status \in {"open", "closed"}
        PROVE  \/ trade'[u].status = "closed"
               \/ /\ trade[u].status = "open" /\ trade'[u].status = "open"
                  /\ trade'[u].qty <= trade[u].qty
    <3>1. trade'[u] = trade[u]
      BY <2>3, <2>4, <2>6
    <3>2. QED BY <1>0, <2>6, <3>1
  <2>7. QED BY <2>5, <2>6 DEF Narrows
<1>5. QED BY <1>1, <1>2, <1>3, <1>4 DEF EntryStep

\* Nor does any other step of a trade.
LEMMA TradeNarrows ==
  ASSUME TypeOK, OwnershipInv, NEW t \in Trade, TradeStep(t)
  PROVE  Narrows
<1>0. /\ \A u \in Trade : trade[u].qty \in Nat /\ due[u] \in Nat
      /\ trade[t] \in Logical
  BY DEF TypeOK, Logical
<1>1. CASE Signal(t)
  <2>1. /\ trade[t].status = "new" /\ op' = op
        /\ trade' = [trade EXCEPT ![t] = [status |-> "opening", qty |-> Want[t],
                                          risk |-> StopRisk[t], missed |-> FALSE]]
    BY <1>1 DEF Signal
  <2>2. /\ trade'[t].status = "opening" /\ op.by # t
        /\ \A u \in Trade \ {t} : trade'[u] = trade[u]
    BY <2>1 DEF OwnershipInv, EntryOwned, TypeOK
  <2>3. QED BY <1>0, <2>1, <2>2 DEF Narrows, Reserves
<1>2. ASSUME NEW unseen, Admit(t, unseen) PROVE Narrows
  <2> DEFINE freed == Releasable(t, unseen)
             end == IF Refused(t, freed) THEN freed \cup {t} ELSE freed
  <2>1. /\ op = Idle /\ trade' = [u \in Trade |-> IF u \in end THEN Closed ELSE trade[u]]
        /\ op' = Idle \/ op'.phase = "netting"
    BY <1>2 DEF Admit
  <2>2. \A u \in Trade : trade'[u] = Closed \/ trade'[u] = trade[u]
    BY <2>1
  <2>3. QED BY <1>0, <2>1, <2>2 DEF Narrows, Reserves, Idle, Closed, Over
<1>3. ASSUME NEW q, NEW e, CloseTrade(t, q, e) PROVE Narrows
  <2>1. /\ t \in managed /\ trade[t].status = "open" /\ op' = op
        /\ q \in Nat /\ e \in Executions(t, q) /\ Reduce(t, q, e)
    BY <1>0, <1>3 DEF CloseTrade, Holds
  <2>2. QED BY <2>1, ReduceNarrows
<1>4. ASSUME NEW e, CloseAll(t, e) PROVE Narrows
  <2> DEFINE left == trade[t].qty - Reported(t, trade[t].qty, e)
             r == IF left = 0 THEN Closed ELSE [trade[t] EXCEPT !.qty = left]
  <2>1. /\ t \in managed /\ trade[t].status = "open" /\ op' = op
        /\ e \in Executions(t, trade[t].qty) /\ trade' = [trade EXCEPT ![t] = r]
    BY <1>4 DEF CloseAll, Holds
  <2>2. left <= trade[t].qty
    <3>1. Reported(t, trade[t].qty, e) \in Nat
      BY <1>0, <2>1, ReportedBounds
    <3>2. QED BY <1>0, <3>1
  <2>3. r.status = "closed" \/ (r.status = "open" /\ r.qty <= trade[t].qty)
    BY <1>0, <2>1, <2>2 DEF Closed, Over, Logical
  <2> HIDE DEF r, left
  <2>4. QED BY <2>1, <2>3, OneTradeNarrows
<1>5. ASSUME CancelEntry(t) \/ Activate(t) \/ \E e : ActivateFlattened(t, e)
      PROVE  Narrows
  <2>1. t \in managed /\ trade[t].status = "waiting" /\ op' = op
    BY <1>5 DEF CancelEntry, Activate, ActivateFlattened, Holds
  <2>2. PICK r : trade' = [trade EXCEPT ![t] = r]
    BY <1>5 DEF CancelEntry, Activate, ActivateFlattened
  <2>3. QED BY <2>1, <2>2, OneTradeNarrows
<1>6. CASE Sync(t)
  <2> DEFINE left == Less(trade[t].qty, due[t])
             r == IF left = 0 THEN Closed ELSE [trade[t] EXCEPT !.qty = left]
  <2>1. /\ t \in managed /\ trade[t].status = "open" /\ op' = op
        /\ trade' = [trade EXCEPT ![t] = r]
    BY <1>6 DEF Sync, Holds
  <2>2. left <= trade[t].qty
    BY <1>0, FloorAndMin
  <2>3. r.status = "closed" \/ (r.status = "open" /\ r.qty <= trade[t].qty)
    <3> HIDE DEF left
    <3> QED BY <1>0, <2>1, <2>2 DEF Closed, Over, Logical
  <2> HIDE DEF r, left
  <2>4. QED BY <2>1, <2>3, OneTradeNarrows
<1>7. ASSUME PositionFound(t) \/ PositionMissing(t) \/ \E r : MoveStop(t, r)
      PROVE  Narrows
  <2>1. /\ t \in managed /\ trade[t].status \in {"waiting", "open"} /\ op' = op
        /\ \E r : /\ trade' = [trade EXCEPT ![t] = r]
                  /\ \/ r.status = "closed"
                     \/ r.status = trade[t].status /\ r.qty <= trade[t].qty
    <3>1. CASE PositionFound(t)
      <4> DEFINE r == [trade[t] EXCEPT !.missed = FALSE]
      <4>1. /\ t \in managed /\ trade[t].status = "open" /\ op' = op
            /\ trade' = [trade EXCEPT ![t] = r]
        BY <3>1 DEF PositionFound, Holds
      <4>2. r.status = trade[t].status /\ r.qty <= trade[t].qty
        BY <1>0 DEF Logical
      <4> HIDE DEF r
      <4>3. QED BY <4>1, <4>2
    <3>2. CASE PositionMissing(t)
      <4> DEFINE r == IF trade[t].missed THEN Closed ELSE [trade[t] EXCEPT !.missed = TRUE]
      <4>1. /\ t \in managed /\ trade[t].status = "open" /\ op' = op
            /\ trade' = [trade EXCEPT ![t] = r]
        BY <3>2 DEF PositionMissing, Holds
      <4>2. r.status = "closed" \/ (r.status = trade[t].status /\ r.qty <= trade[t].qty)
        BY <1>0 DEF Logical, Closed, Over
      <4> HIDE DEF r
      <4>3. QED BY <4>1, <4>2
    <3>3. ASSUME NEW m, MoveStop(t, m)
          PROVE  /\ t \in managed /\ trade[t].status \in {"waiting", "open"} /\ op' = op
                 /\ \E r : /\ trade' = [trade EXCEPT ![t] = r]
                           /\ r.status = trade[t].status /\ r.qty <= trade[t].qty
      <4> DEFINE r == [trade[t] EXCEPT !.risk = m]
      <4>1. /\ t \in managed /\ trade[t].status \in {"waiting", "open"} /\ op' = op
            /\ trade' = [trade EXCEPT ![t] = r]
        BY <3>3 DEF MoveStop
      <4>2. r.status = trade[t].status /\ r.qty <= trade[t].qty
        BY <1>0 DEF Logical
      <4> HIDE DEF r
      <4>3. QED BY <4>1, <4>2
    <3>4. QED BY <1>7, <3>1, <3>2, <3>3
  <2>2. QED BY <2>1, OneTradeNarrows
<1>8. CASE EntryExecutes(t) \/ StopExecutes(t) \/ Issue(t)
  <2>1. trade' = trade /\ op'.by = op.by /\ op'.phase = op.phase
    BY <1>8 DEF EntryExecutes, StopExecutes, Issue, TypeOK, Entry
  <2>2. QED BY <1>0, <2>1 DEF Narrows, Reserves
<1>9. QED
  BY <1>1, <1>2, <1>3, <1>4, <1>5, <1>6, <1>7, <1>8 DEF TradeStep

\* A step that narrows what there is keeps the account on one side, if it starts
\* no netting.
LEMMA NarrowingIsOneSided ==
  ASSUME TypeOK, TypeOK', OneSidedInv, Narrows, OlderIsStrict',
         \/ op'.phase # "netting"
         \/ /\ op'.by = op.by /\ op'.phase = op.phase
            /\ op'.todo = op.todo /\ op'.offset = op.offset
  PROVE  OneSidedInv'
<1>1. OneOpen'
  BY DEF OneSidedInv, OneOpen, Narrows
<1>2. NettingCovers'
  <2> SUFFICES ASSUME NEW t \in Trade, NEW u \in Trade, Netting(t)'
               PROVE  /\ \A i \in DOMAIN op'.todo :
                           op'.todo[i].of = u /\ op'.todo[i].leg.status # "waiting" =>
                             \/ trade'[u].status = "closed"
                             \/ /\ trade'[u].status = "open"
                                /\ trade'[u].qty <= op'.todo[i].leg.qty
                      /\ trade'[u].status \in {"waiting", "open"} /\ Side[u] # Side[t] =>
                           \/ op'.offset >= Want[t]
                           \/ \E i \in DOMAIN op'.todo : op'.todo[i].of = u
    BY DEF NettingCovers
  <2>1. /\ op'.todo = op.todo /\ op'.offset = op.offset /\ Netting(t)
        /\ op.by = t /\ op.phase = "netting"
    BY DEF Netting
  <2>2. trade'[u].status \in {"waiting", "open"} => trade[u].status \in {"waiting", "open"}
    BY <2>1 DEF Narrows, Reserves
  <2>3. /\ \A i \in DOMAIN op.todo :
             op.todo[i].of = u /\ op.todo[i].leg.status # "waiting" =>
               \/ trade[u].status = "closed"
               \/ trade[u].status = "open" /\ trade[u].qty <= op.todo[i].leg.qty
        /\ trade[u].status \in {"waiting", "open"} /\ Side[u] # Side[t] =>
             op.offset >= Want[t] \/ \E i \in DOMAIN op.todo : op.todo[i].of = u
    BY <2>1 DEF OneSidedInv, NettingCovers
  <2>4. ASSUME NEW i \in DOMAIN op.todo, op.todo[i].of = u,
               op.todo[i].leg.status # "waiting"
        PROVE  \/ trade'[u].status = "closed"
               \/ trade'[u].status = "open" /\ trade'[u].qty <= op.todo[i].leg.qty
    <3>1. op.todo[i].leg.qty \in Nat
      BY ListedTypes
    <3>2. trade[u].qty \in Nat /\ trade'[u].qty \in Nat
      BY DEF TypeOK, Logical
    <3>3. \/ trade[u].status = "closed"
          \/ trade[u].status = "open" /\ trade[u].qty <= op.todo[i].leg.qty
      BY <2>3, <2>4
    <3>4. \/ trade'[u].status = "closed"
          \/ /\ trade[u].status = "open" /\ trade'[u].status = "open"
             /\ trade'[u].qty <= trade[u].qty
      BY <3>3 DEF Narrows
    <3>5. QED BY <3>1, <3>2, <3>3, <3>4
  <2>5. QED BY <2>1, <2>2, <2>3, <2>4
<1>3. QED BY <1>1, <1>2 DEF OneSidedInv

\* The listing of the legs to net against is complete: it names as many trades
\* as there are, and none twice, since each was opened before the next.
LEMMA ListingIsComplete ==
  ASSUME TypeOK, OlderIsStrict, NEW t \in Trade, NEW todo \in Snapshot(t)
  PROVE  /\ \A u \in OppositeLegs(t) : \E i \in DOMAIN todo : todo[i].of = u
         /\ \A i \in DOMAIN todo :
              todo[i].of \in OppositeLegs(t) /\ todo[i].leg = leg[todo[i].of]
<1> DEFINE L == OppositeLegs(t)
           n == Cardinality(L)
<1>1. IsFiniteSet(L) /\ L \subseteq Trade
  BY FS_Subset DEF OppositeLegs
<1>2. n \in Nat /\ IsFiniteSet(1 .. n) /\ Cardinality(1 .. n) = n
  <2>1. n \in Nat
    BY <1>1, FS_CardinalityType
  <2>2. QED BY <2>1, FS_Interval
<1>3. PICK f \in [1 .. n -> L] :
        /\ \A i, j \in 1 .. n : i < j => <<f[i], f[j]>> \in older
        /\ todo = [i \in 1 .. n |-> [of |-> f[i], leg |-> leg[f[i]]]]
  BY DEF Snapshot, Listed
<1> HIDE DEF L, n
<1>4. ASSUME NEW i \in 1 .. n, NEW j \in 1 .. n, f[i] = f[j] PROVE i = j
  <2>1. f[i] \in Trade
    BY <1>1, <1>3
  <2>2. ~(i < j) /\ ~(j < i)
    BY <1>3, <1>4, <2>1 DEF OlderIsStrict
  <2>3. QED BY <1>2, <2>2
<1>5. f \in Injection(1 .. n, L)
  BY <1>3, <1>4 DEF Injection, IsInjective
<1>6. f \in Surjection(1 .. n, L)
  <2>1. Cardinality(1 .. n) = Cardinality(L)
    BY <1>2 DEF n
  <2>2. QED BY <1>1, <1>5, <2>1, FS_Injection
<1>7. \A u \in L : \E i \in 1 .. n : f[i] = u
  BY <1>6 DEF Surjection
<1>8. QED BY <1>3, <1>7 DEF L

\* What a close for an entry leaves of the trade it was taken from is left
\* because the entry needed no more.
LEMMA NetCloseIsOneSided ==
  ASSUME Undisturbed, TypeOK, TypeOK', OwnershipInv, ExposureInv, OneSidedInv,
         NEW t \in Trade, NEW e, NetClose(t, e)
  PROVE  OneSidedInv'
<1> DEFINE u == Head(op.todo).of
           most == Head(op.todo).leg.qty
           q == MinOf(NetQty(t), trade[u].qty)
           left == trade[u].qty - Reported(u, q, e)
<1>1. /\ Netting(t) /\ ~NettingDone(t) /\ q > 0 /\ Head(op.todo).leg.status # "waiting"
      /\ u \in managed /\ trade[u].status = "open" /\ e \in Executions(u, q)
      /\ Reduce(u, q, e) /\ older' = older /\ up' = up
      /\ op' = [op EXCEPT !.todo = Tail(op.todo),
                  !.offset = op.offset + MinOf(Reported(u, q, e), NetQty(t))]
  BY DEF NetClose, Unnettable, sessions
<1>2. /\ op.todo # <<>> /\ op.offset \in Nat /\ Want[t] \in Nat
      /\ op.offset < Want[t] /\ op.by = t /\ op.phase = "netting"
  BY <1>1 DEF Netting, NettingDone, TypeOK, Entry
<1>3. /\ u \in Trade /\ most \in Nat /\ trade[u].qty \in Nat
      /\ NetQty(t) \in Nat /\ q \in Nat
      /\ NetQty(t) = MinOf(most, Want[t] - op.offset)
  BY <1>1, NetTypes DEF NetQty, Leg, TypeOK, Logical
<1>4. q <= trade[u].qty /\ q <= NetQty(t) /\ Want[t] - op.offset \in Nat
  <2>1. MinOf(NetQty(t), trade[u].qty) <= NetQty(t)
        /\ MinOf(NetQty(t), trade[u].qty) <= trade[u].qty
    BY <1>3, FloorAndMin
  <2>2. Want[t] - op.offset \in Nat
    BY <1>2
  <2>3. QED BY <2>1, <2>2
<1> HIDE DEF u, most, q, left
<1>5. Reported(u, q, e) = q
  BY <1>1, <1>2, <1>3, <1>4, ExactClose
<1>6. left = trade[u].qty - q /\ MinOf(q, NetQty(t)) = q
  BY <1>3, <1>4, <1>5 DEF left, MinOf
<1>7. /\ op'.todo = Tail(op.todo) /\ op'.offset = op.offset + q
      /\ op'.by = t /\ op'.phase = "netting"
  BY <1>1, <1>2, <1>5, <1>6 DEF TypeOK, Entry
<1>8. trade' = [trade EXCEPT ![u] = IF left = 0 THEN Closed
                                    ELSE [trade[u] EXCEPT !.qty = left]]
  BY <1>1 DEF Reduce, left
<1>9. /\ \A v \in Trade \ {u} : trade'[v] = trade[v]
      /\ left = 0 => trade'[u].status = "closed"
      /\ left # 0 => trade'[u].qty = left
  BY <1>3, <1>8 DEF TypeOK, Closed, Over, Logical
<1>0. Narrows
  BY <1>1, <1>2, <1>3, <1>7, ReduceNarrows
<1>10. OneOpen'
  BY <1>0 DEF OneSidedInv, OneOpen, Narrows
<1>11. /\ \A i \in DOMAIN op'.todo :
            i + 1 \in DOMAIN op.todo /\ op'.todo[i] = op.todo[i + 1]
       /\ \A j \in DOMAIN op.todo : j # 1 =>
            j - 1 \in DOMAIN op'.todo /\ op'.todo[j - 1] = op.todo[j]
       /\ 1 \in DOMAIN op.todo /\ Head(op.todo) = op.todo[1]
  <2> DEFINE s == op.todo
  <2>1. s \in Seq([of : Trade, leg : Leg]) /\ s # <<>>
    BY <1>2 DEF TypeOK, Entry
  <2> HIDE DEF s
  <2>2. /\ \A i \in DOMAIN Tail(s) : i + 1 \in DOMAIN s /\ Tail(s)[i] = s[i + 1]
        /\ \A j \in DOMAIN s : j # 1 =>
             j - 1 \in DOMAIN Tail(s) /\ Tail(s)[j - 1] = s[j]
        /\ 1 \in DOMAIN s /\ Head(s) = s[1]
    BY <2>1
  <2>3. QED BY <1>7, <2>2 DEF s
<1>12. ASSUME NEW v \in Trade, trade'[v].status \in {"waiting", "open"}
       PROVE  trade[v].status \in {"waiting", "open"}
  BY <1>1, <1>2, <1>0, <1>12 DEF Narrows, Reserves
<1>13. ASSUME NEW v \in Trade, NEW i \in DOMAIN op'.todo, op'.todo[i].of = v,
              op'.todo[i].leg.status # "waiting"
       PROVE  \/ trade'[v].status = "closed"
              \/ trade'[v].status = "open" /\ trade'[v].qty <= op'.todo[i].leg.qty
  <2>1. i + 1 \in DOMAIN op.todo /\ op'.todo[i] = op.todo[i + 1]
    BY <1>11
  <2>2. \/ trade[v].status = "closed"
        \/ trade[v].status = "open" /\ trade[v].qty <= op.todo[i + 1].leg.qty
    BY <1>1, <1>13, <2>1 DEF OneSidedInv, NettingCovers
  <2>3. /\ op.todo[i + 1].leg.qty \in Nat
        /\ trade[v].qty \in Nat /\ trade'[v].qty \in Nat
    BY <2>1, ListedTypes DEF TypeOK, Logical
  <2>4. \/ trade'[v].status = "closed"
        \/ /\ trade[v].status = "open" /\ trade'[v].status = "open"
           /\ trade'[v].qty <= trade[v].qty
    BY <1>0, <2>2 DEF Narrows
  <2>5. QED BY <2>1, <2>2, <2>3, <2>4
<1>14. ASSUME NEW v \in Trade, trade'[v].status \in {"waiting", "open"},
              Side[v] # Side[t]
       PROVE  op'.offset >= Want[t] \/ \E i \in DOMAIN op'.todo : op'.todo[i].of = v
  <2>1. PICK j \in DOMAIN op.todo : op.todo[j].of = v
    BY <1>1, <1>2, <1>12, <1>14 DEF OneSidedInv, NettingCovers
  <2>2. CASE v # u
    <3>1. j # 1
      BY <1>11, <2>1, <2>2 DEF u
    <3>2. QED BY <1>11, <2>1, <3>1
  <2>3. CASE v = u
    <3>1. q # trade[u].qty
      BY <1>3, <1>6, <1>9, <1>14, <2>3
    <3>2. trade[u].qty <= most
      <4>1. /\ 1 \in DOMAIN op.todo /\ op.todo[1].of = u /\ op.todo[1].leg.qty = most
            /\ op.todo[1].leg.status # "waiting"
        BY <1>1, <1>11 DEF u, most
      <4>2. trade[u].status = "open"
        BY <1>1
      <4>3. QED BY <1>1, <1>3, <4>1, <4>2 DEF OneSidedInv, NettingCovers
    <3>3. q = MinOf(NetQty(t), trade[u].qty)
      BY DEF q
    <3>4. q = Want[t] - op.offset
      BY <1>2, <1>3, <1>4, <3>1, <3>2, <3>3 DEF MinOf
    <3>5. QED BY <1>2, <1>3, <1>7, <3>4
  <2>4. QED BY <2>2, <2>3
<1>15. NettingCovers'
  BY <1>7, <1>13, <1>14 DEF NettingCovers, Netting
<1>16. OlderIsStrict'
  BY <1>1, OpeningIsStrict DEF OneSidedInv
<1>17. QED BY <1>10, <1>15, <1>16 DEF OneSidedInv

\* An entry is approved when nothing stored stands against it: all that was
\* listed has been netted, and it was not enough.
LEMMA DecisionIsOneSided ==
  ASSUME TypeOK, OwnershipInv, OneSidedInv, NEW t \in Trade, NEW x, Decide(t, x)
  PROVE  OneSidedInv'
<1>1. /\ Netting(t) /\ NettingDone(t) /\ x \in 1 .. Residual(t) /\ older' = older
      /\ trade' = [trade EXCEPT ![t].qty = x]
      /\ op' = [op EXCEPT !.phase = "entering"]
  BY DEF Decide, Approves
<1>2. /\ op.by = t /\ op.phase = "netting" /\ trade[t].status = "opening"
      /\ op'.by = t /\ op'.phase = "entering"
  BY <1>1 DEF Netting, OwnershipInv, EntryOwned, TypeOK, Entry
<1>3. \A u \in Trade : trade'[u].status = trade[u].status
  BY <1>1 DEF TypeOK, Logical
<1>4. op.offset < Want[t] /\ op.todo = <<>>
  <2>1. op.offset \in Nat /\ Want[t] \in Nat
    BY DEF TypeOK, Entry
  <2>2. Residual(t) > 0
    BY <1>1, <2>1, FloorAndMin DEF Residual
  <2>3. op.offset < Want[t]
    BY <2>1, <2>2 DEF Residual, Less
  <2>4. QED BY <1>1, <2>1, <2>3 DEF NettingDone
<1>5. ASSUME NEW u \in Trade, trade[u].status \in {"waiting", "open"}
      PROVE  Side[u] = Side[t]
  <2>1. op.offset \in Nat /\ Want[t] \in Nat
    BY DEF TypeOK, Entry
  <2>2. Side[u] # Side[t] =>
          op.offset >= Want[t] \/ \E i \in DOMAIN op.todo : op.todo[i].of = u
    BY <1>1, <1>5 DEF OneSidedInv, NettingCovers
  <2>3. DOMAIN op.todo = {}
    BY <1>4
  <2>4. QED BY <1>4, <2>1, <2>2, <2>3
<1>6. ASSUME NEW u \in Trade, Reserves(u)' PROVE Side[u] = Side[t]
  BY <1>2, <1>3, <1>5, <1>6 DEF Reserves
<1>7. OneOpen'
  BY <1>6 DEF OneOpen
<1>8. NettingCovers'
  BY <1>2 DEF NettingCovers, Netting
<1>9. OlderIsStrict'
  BY <1>1, OpeningIsStrict DEF OneSidedInv
<1>10. QED BY <1>7, <1>8, <1>9 DEF OneSidedInv

\* An entry that is admitted has listed every stored trade that stands against
\* it, or there is none.
LEMMA AdmissionIsOneSided ==
  ASSUME NotHedging, TypeOK, TypeOK', OwnershipInv, ExposureInv, OneSidedInv,
         NEW t \in Trade, NEW unseen \in Unseen, Admit(t, unseen)
  PROVE  OneSidedInv'
<1> DEFINE freed == Releasable(t, unseen)
<1>0. freed = {}
  BY NothingReleased
<1>1. /\ Narrows /\ older' = older /\ op = Idle
      /\ Refused(t, freed) => op' = Idle
  <2>1. Narrows
    BY TradeNarrows DEF TradeStep
  <2>2. QED BY <2>1 DEF Admit
<1>2. OlderIsStrict'
  BY <1>1, OpeningIsStrict DEF OneSidedInv
<1>3. CASE Refused(t, freed)
  <2>1. op'.phase # "netting"
    BY <1>1, <1>3 DEF Idle
  <2>2. QED BY <1>1, <1>2, <2>1, NarrowingIsOneSided
<1>4. CASE ~Refused(t, freed)
  <2>1. PICK todo \in IF PositionPolicy = "net" THEN Snapshot(t) ELSE {<<>>} :
          op' = [Idle EXCEPT !.by = t, !.phase = "netting", !.todo = todo]
    BY <1>4 DEF Admit
  <2>2. /\ op'.by = t /\ op'.todo = todo /\ op'.offset = 0
        /\ \A u \in Trade : trade'[u] = trade[u]
    <3>1. trade' = [u \in Trade |-> IF u \in freed THEN Closed ELSE trade[u]]
      BY <1>4 DEF Admit
    <3> HIDE DEF freed
    <3>2. QED BY <1>0, <2>1, <3>1 DEF Idle
  <2>3. ASSUME NEW u \in Trade, trade[u].status \in {"waiting", "open"},
               Side[u] # Side[t]
        PROVE  u \in OppositeLegs(t)
    <3>1. leg[u].qty > 0 /\ Registered(u)
      BY <2>3, StoredIsRegistered DEF ExposureInv
    <3>2. \A o \in SideNames : o # Side[t] => o = Opposite(Side[t])
      BY DEF SideNames, Opposite
    <3>3. QED BY <2>3, <3>1, <3>2 DEF OppositeLegs
  <2>4. ASSUME NEW u \in OppositeLegs(t), leg[u].status # "waiting"
        PROVE  \/ trade[u].status = "closed"
               \/ trade[u].status = "open" /\ trade[u].qty <= leg[u].qty
    <3>1. u \in Trade /\ Registered(u) /\ trade[u].qty \in Nat
      BY DEF OppositeLegs, TypeOK, Logical
    <3>2. u \in managed
      BY <1>1, <3>1 DEF OwnershipInv, RegistryMirrorsTrades, InPhase, Idle, ExposureInv,
         EnginesRun, IsUp
    <3>3. QED BY <2>4, <3>1, <3>2 DEF OwnershipInv, RegistryMirrorsTrades
  <2>5. /\ \A v \in OppositeLegs(t) : \E i \in DOMAIN todo : todo[i].of = v
        /\ \A i \in DOMAIN todo :
             todo[i].of \in OppositeLegs(t) /\ todo[i].leg = leg[todo[i].of]
    <3>1. CASE PositionPolicy = "net"
      BY <2>1, <3>1, ListingIsComplete DEF OneSidedInv
    <3>2. CASE PositionPolicy = "block"
      <4>1. OppositeLegs(t) = {} /\ todo = <<>>
        BY <1>4, <2>1, <3>2 DEF Refused
      <4>2. DOMAIN todo = {}
        BY <4>1
      <4>3. QED BY <4>1, <4>2
    <3>3. QED BY <3>1, <3>2 DEF NotHedging
  <2>6. NettingCovers'
    <3> SUFFICES ASSUME NEW v \in Trade, NEW u \in Trade, Netting(v)'
                 PROVE  /\ \A i \in DOMAIN todo :
                             todo[i].of = u /\ todo[i].leg.status # "waiting" =>
                               \/ trade[u].status = "closed"
                               \/ /\ trade[u].status = "open"
                                  /\ trade[u].qty <= todo[i].leg.qty
                        /\ trade[u].status \in {"waiting", "open"} /\ Side[u] # Side[v] =>
                             \E i \in DOMAIN todo : todo[i].of = u
      BY <2>2 DEF NettingCovers
    <3>1. v = t
      BY <2>2 DEF Netting
    <3>2. ASSUME NEW i \in DOMAIN todo, todo[i].of = u,
                 todo[i].leg.status # "waiting"
          PROVE  \/ trade[u].status = "closed"
                 \/ trade[u].status = "open" /\ trade[u].qty <= todo[i].leg.qty
      BY <2>4, <2>5, <3>2
    <3>3. trade[u].status \in {"waiting", "open"} /\ Side[u] # Side[v] =>
            \E i \in DOMAIN todo : todo[i].of = u
      BY <2>3, <2>5, <3>1
    <3>4. QED BY <3>2, <3>3
  <2>7. OneOpen'
    BY <1>1 DEF OneSidedInv, OneOpen, Narrows
  <2>8. QED BY <1>2, <2>6, <2>7 DEF OneSidedInv
<1>5. QED BY <1>3, <1>4

\* The strengthening of NoHedge holds in every state.
LEMMA OneSidedInvariant ==
  ASSUME Undisturbed, NotHedging PROVE Spec => []OneSidedInv
<1>1. Init => OneSidedInv
  BY DEF Init, OneSidedInv, OneOpen, NettingCovers, OlderIsStrict, Reserves, Netting,
         Idle, Over
<1>2. /\ TypeOK /\ TypeOK' /\ OwnershipInv /\ ExposureInv /\ OneSidedInv
      /\ [Next]_vars
      => OneSidedInv'
  <2> SUFFICES ASSUME TypeOK, TypeOK', OwnershipInv, ExposureInv, OneSidedInv, [Next]_vars
               PROVE  OneSidedInv'
    OBVIOUS
  <2>1. ASSUME NEW t \in Trade, EntryStep(t) PROVE OneSidedInv'
    <3>1. CASE \E e : NetClose(t, e)
      BY <3>1, NetCloseIsOneSided
    <3>2. CASE \E x : Decide(t, x)
      BY <3>2, DecisionIsOneSided
    <3>3. ASSUME ~(\E e : NetClose(t, e)), ~(\E x : Decide(t, x))
          PROVE  OneSidedInv'
      <4>1. Narrows
        BY <2>1, <3>3, EntryNarrows
      <4>2. op'.phase # "netting" /\ (OpenedNow(t) \/ older' = older)
        <5>1. ASSUME \/ \E e : NetRaises(t, e) \/ Flattened(t, e)
                     \/ NetConflict(t) \/ DecideAgainst(t) \/ EntryRejected(t)
                     \/ EntryWaits(t) \/ EntryUnconfirmed(t) \/ Protected(t)
                     \/ FlattenFails(t)
              PROVE  op' = Idle /\ older' = older
          BY <5>1
             DEF NetRaises, Flattened, NetConflict, DecideAgainst, EntryRejected,
                 EntryWaits, EntryUnconfirmed, Protected, FlattenFails, Abort
        <5>2. ASSUME \/ \E n, x : Submit(t, n, x)
                     \/ EntryFilled(t)
              PROVE  /\ op'.phase \in {"submitted", "protecting"}
                     /\ OpenedNow(t) \/ older' = older
          BY <5>2 DEF Submit, EntryFilled, TypeOK, Entry
        <5>3. QED BY <2>1, <3>3, <5>1, <5>2 DEF EntryStep, Idle
      <4>3. OlderIsStrict'
        BY <4>2, OpeningIsStrict DEF OneSidedInv
      <4>4. QED BY <4>1, <4>2, <4>3, NarrowingIsOneSided
    <3>4. QED BY <3>1, <3>2, <3>3
  <2>2. ASSUME NEW t \in Trade, NEW unseen \in Unseen, Admit(t, unseen)
        PROVE  OneSidedInv'
    BY <2>2, AdmissionIsOneSided
  <2>3. ASSUME NEW t \in Trade, TradeStep(t), ~\E unseen \in Unseen : Admit(t, unseen)
        PROVE  OneSidedInv'
    <3>1. Narrows
      BY <2>3, TradeNarrows
    <3>2. /\ op'.by = op.by /\ op'.phase = op.phase
          /\ op'.todo = op.todo /\ op'.offset = op.offset
      <4>1. CASE Issue(t)
        BY <4>1 DEF Issue, TypeOK, Entry
      <4>2. ASSUME ~Issue(t) PROVE op' = op
        BY <2>3, <4>2 DEF TradeStep, Signal, CloseTrade, CloseAll, ActivateFlattened,
           CancelEntry, Sync, EntryExecutes, StopExecutes, Activate, PositionFound,
           PositionMissing, MoveStop
      <4>3. QED BY <4>1, <4>2
    <3>3. OpenedNow(t) \/ older' = older
      BY <2>3 DEF TradeStep, Signal, CloseTrade, CloseAll, ActivateFlattened,
         CancelEntry, Sync, EntryExecutes, StopExecutes, Activate, Issue, PositionFound,
         PositionMissing, MoveStop
    <3>4. OlderIsStrict'
      BY <3>3, OpeningIsStrict DEF OneSidedInv
    <3>5. QED BY <3>1, <3>2, <3>4, NarrowingIsOneSided
  <2>4. CASE UNCHANGED vars
    BY <2>4 DEF vars, OneSidedInv, OneOpen, NettingCovers, OlderIsStrict, Reserves,
       Netting
  <2>5. QED BY <2>1, <2>2, <2>3, <2>4, StepsOf, NoSessionStep
<1>3. QED
  BY <1>1, <1>2, TypeCorrect, OwnershipInvariant, ExposureInvariant, PTL DEF Spec

\* Without hedging the account never holds both sides of the symbol, as long as
\* closes execute whole and nothing is stopped: whatever the sessions decide to
\* open, what stands against it is closed first, and what the order was sent for
\* is counted from its approval on.
THEOREM OneSideIsHeld ==
  ASSUME Undisturbed, NotHedging PROVE Spec => []NoHedge
<1>1. TypeOK /\ ExposureInv /\ OneSidedInv => NoHedge
  <2> SUFFICES ASSUME TypeOK, ExposureInv, OneSidedInv, NEW s \in SideNames,
                      held[s] # 0, held[Opposite(s)] # 0
               PROVE  FALSE
    BY DEF NoHedge
  <2>1. Opposite(s) \in SideNames /\ Opposite(s) # s
    BY DEF SideNames, Opposite
  <2>2. ASSUME NEW o \in SideNames, held[o] # 0
        PROVE  \E t \in Trade : Side[t] = o /\ Reserves(t)
    <3>1. PICK t \in OnSide(o) : OwnedQtys[t] # 0
      <4>1. held[o] = SumFunctionOnSet(OwnedQtys, OnSide(o)) /\ IsFiniteSet(OnSide(o))
        BY FS_Subset DEF ExposureInv, HeldIsOwned, OnSide
      <4>2. QED BY <2>2, <4>1, SumOfZeros
    <3>2. t \in Trade /\ Side[t] = o /\ OwnedQty(t) # 0 /\ due[t] = 0
      BY <3>1 DEF OnSide, OwnedQtys, ExposureInv, EnginesRun
    <3>3. Fills(t)
      BY <3>2, OwnedWhole
    <3>4. Reserves(t)
      BY <3>2, <3>3 DEF Fills, Filled, Reserves, ExposureInv, EntriesKnown, InPhase
    <3>5. QED BY <3>2, <3>4
  <2>3. QED BY <2>1, <2>2 DEF OneSidedInv, OneOpen
<1>2. QED
  BY <1>1, TypeCorrect, ExposureInvariant, OneSidedInvariant, PTL

\* The order of an entry is sent only after every stored trade that stood
\* against it was closed, whatever was closed, activated or synchronised between
\* the listing and the order.
THEOREM NettingComesFirst == ASSUME Undisturbed PROVE Spec => EntryFollowsNetting
<1>1. CASE PositionPolicy = "net"
  <2>1. OneSidedInv => (\A t, u \in Trade :
                          /\ PositionPolicy = "net" /\ Submitted(t)
                          /\ Side[u] # Side[t]
                          => ~StoredOpen(u))
    BY DEF OneSidedInv, OneOpen, Reserves, Submitted, StoredOpen
  <2>2. NotHedging
    BY <1>1 DEF NotHedging
  <2>3. Spec => []OneSidedInv
    BY <2>2, OneSidedInvariant
  <2>4. QED BY <2>1, <2>3, PTL DEF EntryFollowsNetting
<1>2. CASE PositionPolicy # "net"
  <2>1. \A t, u \in Trade :
          /\ PositionPolicy = "net" /\ Submitted(t)
          /\ Side[u] # Side[t]
          => ~StoredOpen(u)
    BY <1>2
  <2>2. QED BY <2>1, PTL DEF EntryFollowsNetting
<1>3. QED BY <1>1, <1>2
=============================================================================
