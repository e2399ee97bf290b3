--------------------------- MODULE EntrySizing ---------------------------
(* What becomes of the size of a trade between its account coordination   *)
(* and its entry order: the risk tiers of the contract, the leverages the *)
(* exchange takes, and what an order and a target need at least.  A trade *)
(* is PositionSizing's; "quantity" is what its entry order asks for and   *)
(* "remaining" what its targets are planned for.                           *)
EXTENDS PositionSizing

CONSTANTS
  Tiers,        \* the risk limits of the contract, the smallest first: the
                \* quantity up to which a leverage is allowed
  Levels,       \* the leverages that are tried when one is refused
  MinQuantity   \* the least an order may ask for

ASSUME EntryAssumption ==
  /\ Tiers \in Seq([upTo : Nat, leverage : Nat \ {0}])
  /\ Levels \subseteq Nat \ {0} /\ MinQuantity \in Nat \ {0}

\* The leverage the first tier large enough allows, the last one at worst.
MaxAllowed(trade) ==
  LET fits == {k \in DOMAIN Tiers : trade.quantity <= Tiers[k].upTo}
  IN IF Tiers = <<>> THEN trade.leverage
     ELSE Tiers[IF fits = {} THEN Len(Tiers) ELSE Min(fits)].leverage

\* The trade at another leverage: what the margin it has buys then, raised to
\* the least an order may ask for; what remains is never raised.
Resized(trade, leverage) ==
  LET bought == Larger((trade.margin * leverage) \div trade.entry, MinQuantity)
  IN IF trade.margin <= 0 THEN [trade EXCEPT !.leverage = leverage]
     ELSE [trade EXCEPT
             !.leverage = leverage, !.quantity = bought,
             !.remaining = Smaller(@, bought),
             !.margin = (trade.entry * bought) \div leverage]

WithinTier(trade) ==
  IF trade.leverage <= MaxAllowed(trade) THEN trade
  ELSE Resized(trade, MaxAllowed(trade))

\* The lower leverages to try, those of the tiers and the usual ones.
Candidates(leverage) ==
  {l \in Levels \union {Tiers[k].leverage : k \in DOMAIN Tiers} : l < leverage}

\* The trade at the leverage it asks for or, when the exchange refuses that
\* one and all the higher candidates, at a lower one.
Negotiated(trade, refusing) ==
  {trade} \union
    (IF refusing THEN {Resized(trade, l) : l \in Candidates(trade.leverage)}
     ELSE {})

\* An entry order is never raised to what the exchange asks for at least.
EntrySupported(trade) == trade.quantity >= MinQuantity

\* The targets to come that get the least an order may ask for.
SupportedTargets(trade) ==
  {k \in 1..Len(trade.targets) :
     k > trade.hits /\ (k - trade.hits) * MinQuantity <= trade.remaining}

\* At least one target can be ordered for what remains.
TargetsSupported(trade) == SupportedTargets(trade) # {}

\* The sizes the entry of a trade may go to the exchange with.
ForExchange(trade, refusing) ==
  {[sized EXCEPT !.margin = (sized.entry * sized.quantity) \div sized.leverage] :
     sized \in Negotiated(WithinTier(trade), refusing)}

Executable(trade) == EntrySupported(trade) /\ TargetsSupported(trade)
=============================================================================
