------------------------- MODULE MCSignalPaths --------------------------
(* The channels and the candles of SignalPaths. *)
EXTENDS SignalPaths

Said(action) ==
  [action |-> action, symbol |-> "none", side |-> "unknown",
   type |-> "unknown", entry |-> 0, stop |-> 0, targets |-> <<>>,
   leverage |-> 0, sure |-> TRUE]

Opening(symbol, side, type) ==
  [Said("open") EXCEPT !.symbol = symbol, !.side = side, !.type = type]

LongLimit == [Opening("A", "long", "limit") EXCEPT
                !.entry = 10, !.stop = 8, !.targets = <<12, 14>>]
LongMarket == [Opening("A", "long", "market") EXCEPT !.stop = 8,
                                                     !.targets = <<12>>]
ShortLimit == [Opening("B", "short", "limit") EXCEPT
                 !.entry = 10, !.stop = 11, !.targets = <<8>>, !.leverage = 2]

\* A message of a date, in reply to another, that the classifier reads so.
M(date, reply, text, parsed) ==
  [id |-> 0, date |-> date, reply |-> reply, ai |-> 0, text |-> text,
   visual |-> FALSE, parsed |-> parsed]

WithPicture(message) == [message EXCEPT !.visual = TRUE]

About(signal, message) == [message EXCEPT !.ai = signal]

Channel(faulty, messages) ==
  [faults |-> faulty,
   messages |-> [m \in DOMAIN messages |-> [messages[m] EXCEPT !.id = m]]]

MCStreams ==
  { \* A limit opening whose stop moves and of which half is closed.
    Channel({"crash"},
      <<M(2, 0, "plain", LongLimit),
        M(3, 1, "plain", [Said("sl") EXCEPT !.stop = 7]),
        M(5, 0, "half", Said("unknown")),
        M(8, 0, "riskfree", Said("unknown"))>>),
    \* Everything is closed, with nothing and with two trades open.
    Channel({"refuse"},
      <<M(1, 0, "closeall", Said("ignore")),
        M(2, 0, "plain", LongMarket), M(2, 0, "plain", ShortLimit),
        M(5, 0, "closeall", Said("unknown"))>>),
    \* Targets listed in the words, then the leverage, of the only signal.
    Channel({"unclear", "crash"},
      <<M(2, 0, "plain", LongMarket), M(4, 1, "tplist", Said("unknown")),
        M(5, 0, "plain", [Said("leverage") EXCEPT !.leverage = 3]),
        M(11, 0, "half", Said("close"))>>),
    \* The same symbol again, at another price and with another stop.
    Channel({},
      <<M(2, 0, "plain", LongLimit),
        M(4, 0, "plain", [LongLimit EXCEPT !.entry = 9, !.targets = <<>>]),
        M(5, 0, "plain", [Said("sl") EXCEPT !.stop = 9])>>),
    \* An opening the classifier doubts, one that a reply completes.
    Channel({"drop"},
      <<M(2, 0, "plain", [LongMarket EXCEPT !.sure = FALSE]),
        M(2, 0, "plain", Opening("none", "unknown", "market")),
        M(3, 2, "plain", [Said("entry") EXCEPT !.symbol = "B",
                            !.side = "short", !.stop = 12, !.targets = <<9>>])>>),
    \* A stop on the wrong side, an advertisement, an opening without a symbol.
    Channel({"crash"},
      <<M(2, 0, "plain", [LongLimit EXCEPT !.stop = 12]),
        M(3, 0, "closeall", Said("unrelated")),
        M(3, 0, "plain", Opening("none", "long", "market")),
        M(4, 1, "plain", [Said("tp") EXCEPT !.targets = <<13>>])>>),
    \* Late: closed inside a candle, and after targets were hit.
    Channel({},
      <<M(2, 0, "plain", LongLimit), M(6, 0, "plain", Said("close"))>>),
    Channel({},
      <<M(3, 0, "plain", [LongMarket EXCEPT !.targets = <<12, 14, 16>>]),
        M(8, 0, "plain", [Said("sl") EXCEPT !.stop = 11]),
        M(11, 0, "plain", Said("close"))>>),
    \* A stop, and the symbol again.
    Channel({"crash"},
      <<M(2, 0, "plain", LongMarket), M(5, 0, "plain", LongMarket)>>),
    \* More signals than positions.
    Channel({},
      <<M(2, 0, "plain", LongMarket),
        M(4, 0, "plain", Opening("B", "short", "market")),
        M(5, 0, "plain", Opening("C", "short", "market"))>>),
    \* Targets in percent, and an update with a picture that opens a signal.
    Channel({"unclear"},
      <<M(2, 0, "plain", [LongMarket EXCEPT !.leverage = 2]),
        M(5, 1, "percents", Said("unknown")),
        WithPicture(M(5, 0, "plain", [ShortLimit EXCEPT !.action = "tp"]))>>),
    \* The stop to the entry, then a cancellation by a reply to the reply.
    Channel({"die"},
      <<M(2, 0, "plain", ShortLimit), M(4, 1, "riskfree", Said("unknown")),
        M(5, 2, "plain", Said("cancel"))>>),
    \* The consolidation task ends, and then the process.
    Channel({"die", "crash"}, <<M(2, 0, "plain", ShortLimit)>>),
    \* Two signals, one of them named by the classifier.
    Channel({"untradable", "netted", "blocked"},
      <<M(2, 0, "plain", LongMarket), M(2, 0, "plain", ShortLimit),
        About(2, M(5, 0, "plain", Said("close")))>>),
    \* No price to be had, an entry the exchange rejects, an old message.
    Channel({"unpriced", "rejected"},
      <<M(0, 0, "plain", LongLimit), M(1, 0, "plain", LongMarket),
        M(2, 2, "plain", [Said("tp") EXCEPT !.targets = <<13>>, !.stop = 9]),
        M(3, 0, "plain", [ShortLimit EXCEPT !.stop = 0, !.targets = <<>>])>>),
    \* The account leaves a part of the size, the exchange refuses a leverage.
    \* Then a stop for what is planned, which what is ordered cannot afford.
    Channel({"reduced", "leverage"},
      <<M(2, 0, "plain", [LongLimit EXCEPT !.leverage = 4, !.stop = 9]),
        M(5, 0, "plain", [Said("sl") EXCEPT !.stop = 6])>>),
    \* Entries fill at other prices than they ask for.
    Channel({"slips"},
      <<M(2, 0, "plain", LongMarket), M(4, 0, "plain", Said("close"))>>),
    Channel({"slips", "crash"},
      <<M(2, 0, "plain", ShortLimit), M(5, 0, "riskfree", Said("unknown"))>>),
    \* A size below what the exchange asks for.
    Channel({"leverage"},
      <<M(2, 0, "plain", [LongLimit EXCEPT !.leverage = 4, !.stop = 2]),
        M(4, 0, "plain", [LongMarket EXCEPT !.symbol = "C", !.leverage = 4])>>)
  }

Shape(first, low, high, last) ==
  [first |-> first, low |-> low, high |-> high, last |-> last]

\* Still, down to a stop, up to a target, up to all targets, and both ways.
MCShapes == {Shape(10, 10, 10, 10), Shape(10, 8, 10, 9), Shape(10, 10, 12, 11),
             Shape(11, 11, 14, 13), Shape(10, 7, 14, 10)}

\* Up to three units any leverage, up to eight units twice the margin.
MCTiers == <<[upTo |-> 3, leverage |-> 4], [upTo |-> 8, leverage |-> 2]>>
MCLevels == {1, 2, 3}

MCListed == <<11, 13>>
MCPercents == <<40, 80>>
=============================================================================
