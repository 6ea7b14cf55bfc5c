--------------------------- MODULE EntryTick_proofs ---------------------------
(***************************************************************************)
(* Theorems about EntryTick.  A tick that has passed the same-ticker guard *)
(* knows of every position in its ticker, but for those of buys that were  *)
(* unresolved when it began (Guarded); and a window keeps the rank and the *)
(* deadline of the signals it saw (WindowRanks is inductive).              *)
(***************************************************************************)
EXTENDS EntryTick, TLAPS

\* Where a tick has passed the guard, and where it has chosen a contract.
Chosen == {"quote", "size", "reward", "review", "positions", "orders", "intent", "send"}
Cleared == {"route", "policy", "price", "market", "contract"} \cup Chosen
Running == {"manage", "gate", "ticker"} \cup Cleared

Ticks == [at : Running \cup {"idle", "wait"},
          ticker : Tickers \cup {Nothing}, trades : SUBSET Contracts, unsure : SUBSET Tickers,
          mode : {"trade", "signal_only", "collection_only"}, opportunity : BOOLEAN,
          contract : Contracts \cup {Nothing}, exposed : SUBSET Contracts]

\* What the running tick does not know of belongs to buys that were unresolved when it
\* began, and where it has passed the guard nothing of its ticker is left to know.
Guarded ==
  /\ tick.at \in Running =>
       /\ \A c \in Contracts : buys[c] # "none" => TickerOf[c] \in tick.unsure
       /\ \A c \in journal : c \in seen \/ TickerOf[c] \in tick.unsure
  /\ tick.at \in Cleared /\ tick.ticker \notin tick.unsure => \A c \in journal : TickerOf[c] # tick.ticker
  /\ tick.at \in Chosen => tick.contract \in Contracts /\ TickerOf[tick.contract] = tick.ticker
  /\ tick.at = "wait" => tick.contract \in Contracts

EntryInv == EntryTypeOK /\ WindowRanks /\ Guarded /\ OnePerTicker

-----------------------------------------------------------------------------
(* Types. *)

Stored ==
  /\ settings \in Settings
  /\ journal \subseteq Contracts /\ doubled \subseteq Contracts
  /\ buys \in [Contracts -> {"none", "working", "filled", "dead"}]

Windows == [ticker : Tickers \cup {Nothing}, rank : Ranks \cup {0}, left : 0..WindowMinutes]
Openings == [best : Ranks \cup {0}, age : 0..WindowMinutes]

Remembered ==
  /\ seen \subseteq Contracts
  /\ cooldown \in [Tickers -> 0..CooldownMinutes]
  /\ window \in Windows /\ opened \in Openings
  /\ lastKey \in Contracts \cup {Nothing}

LEMMA Types == EntryTypeOK <=> (tick \in Ticks /\ Stored /\ Remembered)
<1>1. Running \cup {"idle", "wait"} =
        {"idle", "manage", "gate", "ticker", "route", "policy", "price", "market", "contract", "quote",
         "size", "reward", "review", "positions", "orders", "intent", "send", "wait"}
  BY DEF Running, Cleared, Chosen
<1> QED  BY <1>1 DEF EntryTypeOK, Ticks, Stored, Remembered, Windows, Openings

LEMMA IdleType == Idle \in Ticks /\ Idle.at = "idle"
<1>1. Idle \in [at : {"idle"}, ticker : {Nothing}, trades : SUBSET Contracts, unsure : SUBSET Tickers,
                mode : {"trade"}, opportunity : {FALSE}, contract : {Nothing}, exposed : SUBSET Contracts]
  BY DEF Idle
<1> QED  BY <1>1 DEF Ticks

LEMMA TickTypes ==
  ASSUME NEW x \in Ticks, NEW a \in Running \cup {"idle", "wait"}, NEW t \in Tickers \cup {Nothing},
         NEW ts \in SUBSET Contracts, NEW us \in SUBSET Tickers, NEW b \in BOOLEAN,
         NEW m \in {"trade", "signal_only", "collection_only"}, NEW c \in Contracts \cup {Nothing}
  PROVE  /\ [x EXCEPT !.at = a] \in Ticks
         /\ [x EXCEPT !.at = a, !.ticker = t, !.trades = ts, !.unsure = us, !.mode = m] \in Ticks
         /\ [x EXCEPT !.at = a, !.trades = ts, !.opportunity = b, !.mode = m] \in Ticks
         /\ [x EXCEPT !.at = a, !.opportunity = b] \in Ticks
         /\ [x EXCEPT !.at = a, !.contract = c] \in Ticks
         /\ [x EXCEPT !.at = a, !.exposed = ts] \in Ticks
  BY DEF Ticks

LEMMA WindowTypes ==
  /\ NoWindow \in Windows /\ Closed \in Openings /\ NoWindow.left = 0
  /\ [t \in Tickers |-> 0] \in [Tickers -> 0..CooldownMinutes]
<1>1. 0 \in 0..WindowMinutes /\ 0 \in 0..CooldownMinutes
  BY EntryAssumption
<1> QED  BY <1>1 DEF NoWindow, Closed, Windows, Openings

LEMMA SettingsType == settings \in Settings => settings.mode \in {"trade", "signal_only", "collection_only"} /\ settings.opportunity \in BOOLEAN
  BY DEF Settings

LEMMA TickersOfType == ASSUME NEW cs \in SUBSET Contracts PROVE TickersOf(cs) \in SUBSET Tickers
  BY EntryAssumption DEF TickersOf

\* A tick that returns, or goes on and keeps its ticker and what it was not sure of.
Onward(x) ==
  \/ x = Idle
  \/ /\ tick.at \in Running /\ x.at \in Running
     /\ x.ticker = tick.ticker /\ x.unsure = tick.unsure /\ x.contract = tick.contract
     /\ x.at \in Cleared => tick.at \in Cleared
     /\ x.at \in Chosen => tick.at \in Chosen

LEMMA GoesOn ==
  ASSUME EntryInv, tick' \in Ticks, Onward(tick'), Stored', Remembered', WindowRanks',
         UNCHANGED <<journal, buys, seen, doubled>>
  PROVE  EntryInv'
<1>1. EntryTypeOK'
  BY Types DEF EntryTypeOK, Ticks, Stored, Remembered, Windows, Openings, Running, Cleared, Chosen
<1>2. OnePerTicker'
  BY DEF EntryInv, OnePerTicker, Exposed
<1>3. Guarded'
  BY IdleType DEF EntryInv, Guarded, Onward, Running, Cleared, Chosen
<1> QED  BY <1>1, <1>2, <1>3 DEF EntryInv

LEMMA Kept ==
  ASSUME EntryInv
  PROVE  /\ UNCHANGED <<settings, journal, buys, doubled>> => Stored'
         /\ UNCHANGED memory => Remembered' /\ WindowRanks'
         /\ UNCHANGED <<window, opened>> => WindowRanks'
  BY Types DEF EntryInv, Stored, Remembered, memory, WindowRanks

LEMMA GoesTo ==
  ASSUME NEW a \in Running \cup {"idle", "wait"}, tick \in Ticks
  PROVE  LET x == [tick EXCEPT !.at = a]
         IN /\ x \in Ticks /\ x.at = a
            /\ x.ticker = tick.ticker /\ x.unsure = tick.unsure /\ x.contract = tick.contract
<1>1. [tick EXCEPT !.at = a] \in Ticks
  BY DEF Ticks
<1> QED  BY <1>1 DEF Ticks

\* A gate that looks at nothing: it returns, or goes on within what was cleared.
LEMMA GateStep ==
  ASSUME EntryInv, NEW here \in Running, NEW next \in Running, Gate(here, next),
         next \in Cleared => here \in Cleared, next \in Chosen => here \in Chosen
  PROVE  EntryInv'
<1>1. tick \in Ticks
  BY Types DEF EntryInv
<1>2. CASE tick' = Idle
  BY <1>2, IdleType, GoesOn, Kept DEF Gate, Onward, memory
<1>3. CASE tick' = [tick EXCEPT !.at = next]
  <2>1. tick' \in Ticks /\ Onward(tick')
    <3>1. next \in Running \cup {"idle", "wait"} /\ tick.at = here
      BY DEF Gate
    <3> QED  BY <1>1, <1>3, <3>1, GoesTo DEF Onward, Running
  <2> QED  BY <2>1, GoesOn, Kept DEF Gate, memory
<1> QED  BY <1>2, <1>3 DEF Gate, GoOn, Return

-----------------------------------------------------------------------------
(* The steps of a tick. *)

\* The memory of a new user (user_state.py:29-112) satisfies the invariant.
THEOREM EntryStarts == EntryInit => EntryInv
<1> SUFFICES ASSUME EntryInit PROVE EntryInv
  OBVIOUS
<1>1. EntryTypeOK
  BY Types, IdleType, WindowTypes DEF EntryInit, Stored, Remembered
<1>2. Guarded /\ OnePerTicker /\ WindowRanks
  BY IdleType DEF EntryInit, Guarded, OnePerTicker, Exposed, WindowRanks, Running, Cleared, Chosen
<1> QED  BY <1>1, <1>2 DEF EntryInv

LEMMA NewSessionStep ==
  ASSUME EntryInv, NewSession
  PROVE  EntryInv'
<1>1. Remembered' /\ WindowRanks' /\ tick \in Ticks
  BY Types, WindowTypes DEF EntryInv, NewSession, Remembered, WindowRanks
<1> QED  BY <1>1, GoesOn, Kept DEF NewSession, Onward

LEMMA BeginTickStep ==
  ASSUME EntryInv, NEW t \in Tickers \cup {Nothing}, BeginTick(t)
  PROVE  EntryInv'
<1>1. tick \in Ticks /\ Stored /\ Remembered
  BY Types DEF EntryInv
<1>2. TickersOf(Unresolved) \in SUBSET Tickers
  BY TickersOfType DEF Unresolved
<1>3. settings.mode \in {"trade", "signal_only", "collection_only"}
  BY <1>1, SettingsType DEF Stored
<1> DEFINE x == [Idle EXCEPT !.at = "manage", !.ticker = t, !.trades = journal,
                             !.unsure = TickersOf(Unresolved), !.mode = settings.mode]
<1>4. tick' = x /\ seen' = journal /\ UNCHANGED <<settings, journal, buys, cooldown, window, opened, lastKey, doubled>>
  BY DEF BeginTick, OpenTrades
<1>5. x \in Ticks /\ x.at = "manage" /\ x.unsure = TickersOf(Unresolved)
  <2>1. "manage" \in Running \cup {"idle", "wait"}
    BY DEF Running
  <2>2. x \in Ticks
    BY <1>1, <1>2, <1>3, <2>1, IdleType, TickTypes DEF Stored
  <2>3. Idle \in Ticks
    BY IdleType
  <2> QED  BY <2>2, <2>3 DEF Ticks
<1>6. EntryTypeOK'
  BY <1>1, <1>4, <1>5, Types DEF EntryTypeOK, Ticks, Stored, Remembered, Windows, Openings, Running, Cleared, Chosen
<1>7. Guarded'
  BY <1>4, <1>5 DEF Guarded, TickersOf, Unresolved, Running, Cleared, Chosen
<1>8. OnePerTicker' /\ WindowRanks'
  BY <1>4 DEF EntryInv, OnePerTicker, Exposed, WindowRanks
<1> QED  BY <1>6, <1>7, <1>8 DEF EntryInv

\* A trade leaves the journal, and the list in memory becomes the journal.
LEMMA TradeCloses ==
  ASSUME EntryInv, NEW c \in Contracts, journal' = journal \ {c}, seen' = journal',
         Remembered', UNCHANGED <<tick, settings, buys, window, opened, doubled>>
  PROVE  EntryInv'
<1>1. EntryTypeOK'
  <2>1. tick' \in Ticks /\ Stored'
    BY Types DEF EntryInv, Stored
  <2> QED
    BY <2>1 DEF EntryTypeOK, Ticks, Stored, Remembered, Windows, Openings, Running, Cleared, Chosen
<1>2. Guarded'
  BY DEF EntryInv, Guarded
<1>3. OnePerTicker' /\ WindowRanks'
  BY DEF EntryInv, OnePerTicker, Exposed, WindowRanks
<1> QED  BY <1>1, <1>2, <1>3 DEF EntryInv

LEMMA CloseTradeStep ==
  ASSUME EntryInv, NEW c \in Contracts, NEW won \in BOOLEAN, CloseTrade(c, won)
  PROVE  EntryInv'
<1>1. Stored /\ Remembered
  BY Types DEF EntryInv
<1>2. CooldownMinutes \in 0..CooldownMinutes
  BY EntryAssumption
<1>3. [cooldown EXCEPT ![TickerOf[c]] = CooldownMinutes] \in [Tickers -> 0..CooldownMinutes]
  BY <1>1, <1>2 DEF Remembered
<1>4. Remembered'
  BY <1>1, <1>3 DEF Stored, Remembered, CloseTrade, OpenTrades
<1> QED  BY <1>4, TradeCloses DEF CloseTrade, OpenTrades

LEMMA CloseByHandStep ==
  ASSUME EntryInv, NEW c \in Contracts, CloseByHand(c)
  PROVE  EntryInv'
<1>1. Stored /\ Remembered
  BY Types DEF EntryInv
<1>2. Remembered'
  BY <1>1 DEF Stored, Remembered, CloseByHand, OpenTrades
<1> QED  BY <1>2, TradeCloses DEF CloseByHand, OpenTrades

LEMMA ReadSettingsStep ==
  ASSUME EntryInv, ReadSettings
  PROVE  EntryInv'
<1>1. tick \in Ticks /\ Stored
  BY Types DEF EntryInv
<1>2. tick' \in Ticks /\ Onward(tick')
  <2>1. CASE tick' = Idle
    BY <2>1, IdleType DEF Onward
  <2>2. CASE tick' # Idle
    <3> DEFINE m == IF tick.mode = "collection_only" THEN tick.mode
                    ELSE IF settings.mode = "signal_only" THEN "signal_only" ELSE "trade"
               x == [tick EXCEPT !.at = "gate", !.trades = {}, !.opportunity = settings.opportunity, !.mode = m]
    <3>1. tick' = x /\ tick.at = "manage"
      BY <2>2 DEF ReadSettings, Return
    <3>2. m \in {"trade", "signal_only", "collection_only"} /\ settings.opportunity \in BOOLEAN
      BY <1>1, SettingsType DEF Ticks, Stored
    <3>3. "gate" \in Running \cup {"idle", "wait"} /\ {} \in SUBSET Contracts
      BY DEF Running
    <3>4. x \in Ticks
      BY <1>1, <3>2, <3>3, TickTypes
    <3>5. x.at = "gate" /\ x.ticker = tick.ticker /\ x.unsure = tick.unsure /\ x.contract = tick.contract
      BY <1>1 DEF Ticks
    <3> QED  BY <3>1, <3>4, <3>5 DEF Onward, Running, Cleared, Chosen
  <2> QED  BY <2>1, <2>2
<1>3. Stored' /\ Remembered' /\ WindowRanks'
  BY Kept DEF ReadSettings
<1> QED  BY <1>2, <1>3, GoesOn DEF ReadSettings, memory

LEMMA SelectTickerStep ==
  ASSUME EntryInv, SelectTicker
  PROVE  EntryInv'
<1>1. tick \in Ticks /\ Stored /\ Remembered
  BY Types DEF EntryInv
<1>2. tick' \in Ticks /\ Onward(tick')
  <2>1. CASE tick' = Idle
    BY <2>1, IdleType DEF Onward
  <2>2. CASE tick' = [tick EXCEPT !.at = "ticker"]
    <3>1. tick.at = "gate" /\ "ticker" \in Running \cup {"idle", "wait"}
      BY DEF SelectTicker, Running
    <3> QED  BY <1>1, <2>2, <3>1, GoesTo DEF Onward, Running, Cleared, Chosen
  <2> QED  BY <2>1, <2>2 DEF SelectTicker, GoOn, Return
<1>3. Remembered'
  BY <1>1, WindowTypes DEF Remembered, SelectTicker
<1>4. WindowRanks'
  BY DEF EntryInv, WindowRanks, SelectTicker
<1> QED  BY <1>2, <1>3, <1>4, GoesOn, Kept DEF SelectTicker

LEMMA TickerGatesStep ==
  ASSUME EntryInv, TickerGates
  PROVE  EntryInv'
<1>1. tick \in Ticks
  BY Types DEF EntryInv
<1>2. CASE Return
  BY <1>2, IdleType, GoesOn, Kept DEF TickerGates, Return, Onward, memory
<1>3. CASE TickerFree /\ GoOn("route")
  <2>1. tick'.at = "route" /\ tick' \in Ticks /\ tick'.ticker = tick.ticker /\ tick'.unsure = tick.unsure
    BY <1>1, <1>3, GoesTo DEF GoOn, Running, Cleared
  <2>2. EntryTypeOK'
    BY <2>1, Kept DEF TickerGates, EntryTypeOK, Ticks, Stored, Remembered, Windows, Openings, Running, Cleared, Chosen
  <2>3. \A c \in journal : TickerOf[c] # tick.ticker \/ TickerOf[c] \in tick.unsure
    BY <1>3 DEF EntryInv, Guarded, TickerGates, TickerFree, TickersOf, Running
  <2>4. Guarded'
    BY <2>1, <2>3 DEF EntryInv, Guarded, TickerGates, memory, Running, Cleared, Chosen
  <2>5. OnePerTicker' /\ WindowRanks'
    BY DEF EntryInv, OnePerTicker, Exposed, WindowRanks, TickerGates, memory
  <2> QED  BY <2>2, <2>4, <2>5 DEF EntryInv
<1> QED  BY <1>2, <1>3 DEF TickerGates

LEMMA AcceptedTick ==
  ASSUME tick \in Ticks, tick.at = "route", NEW signal, Accepted(signal)
  PROVE  tick' \in Ticks /\ Onward(tick')
<1>1. CASE tick' = Idle
  BY <1>1, IdleType DEF Onward
<1>2. CASE tick' = [tick EXCEPT !.at = "policy", !.opportunity = FALSE]
  <2>1. "policy" \in Running \cup {"idle", "wait"} /\ FALSE \in BOOLEAN
    BY DEF Running, Cleared
  <2>2. [tick EXCEPT !.at = "policy", !.opportunity = FALSE] \in Ticks
    BY <2>1, TickTypes
  <2>3. tick'.at = "policy" /\ tick'.ticker = tick.ticker /\ tick'.unsure = tick.unsure
        /\ tick'.contract = tick.contract
    BY <1>2 DEF Ticks
  <2> QED  BY <1>2, <2>2, <2>3 DEF Onward, Running, Cleared, Chosen
<1> QED  BY <1>1, <1>2 DEF Accepted, Return

\* What the router does to the window.
Routed(rank) ==
  \/ UNCHANGED <<window, opened>>
  \/ window' = NoWindow /\ opened' = Closed
  \/ /\ window = NoWindow /\ rank > 0
     /\ window' = [ticker |-> tick.ticker, rank |-> rank, left |-> WindowMinutes]
     /\ opened' = [best |-> rank, age |-> 0]
  \/ /\ window.left > 0
     /\ window' = IF rank > window.rank THEN Replaced(rank) ELSE window
     /\ opened' = [opened EXCEPT !.best = IF rank > @ THEN rank ELSE @]

LEMMA RoutedWindow ==
  ASSUME EntryInv, NEW rank \in Ranks \cup {0}, Routed(rank), UNCHANGED <<seen, cooldown, lastKey>>
  PROVE  Remembered' /\ WindowRanks'
<1>1. tick \in Ticks /\ Remembered
  BY Types DEF EntryInv
<1>2. window \in Windows /\ opened \in Openings /\ Ranks \subseteq Nat /\ tick.ticker \in Tickers \cup {Nothing}
  BY <1>1, EntryAssumption DEF Remembered, Ticks
<1>3. WindowMinutes \in 0..WindowMinutes /\ 0 \in 0..WindowMinutes /\ WindowMinutes \in Nat
  BY EntryAssumption
<1>4. CASE UNCHANGED <<window, opened>>
  BY <1>1, <1>4 DEF EntryInv, Remembered, WindowRanks
<1>5. CASE window' = NoWindow /\ opened' = Closed
  BY <1>1, <1>5, WindowTypes DEF Remembered, WindowRanks
<1>6. CASE /\ window = NoWindow /\ rank > 0
           /\ window' = [ticker |-> tick.ticker, rank |-> rank, left |-> WindowMinutes]
           /\ opened' = [best |-> rank, age |-> 0]
  <2>1. window' \in Windows /\ opened' \in Openings
    BY <1>2, <1>3, <1>6 DEF Windows, Openings
  <2>2. window'.rank = rank /\ window'.left = WindowMinutes /\ opened'.best = rank /\ opened'.age = 0
    BY <1>6
  <2> QED  BY <1>1, <1>3, <2>1, <2>2 DEF Remembered, WindowRanks
<1>7. CASE /\ window.left > 0
           /\ window' = IF rank > window.rank THEN Replaced(rank) ELSE window
           /\ opened' = [opened EXCEPT !.best = IF rank > @ THEN rank ELSE @]
  <2>1. window.rank = opened.best /\ window.left + opened.age = WindowMinutes
    BY <1>7, WindowTypes DEF EntryInv, WindowRanks
  <2> DEFINE best == IF rank > opened.best THEN rank ELSE opened.best
  <2>2. best \in Ranks \cup {0} /\ opened' = [opened EXCEPT !.best = best]
    BY <1>2, <1>7 DEF Openings
  <2>3. opened' \in Openings
    BY <1>2, <2>2 DEF Openings
  <2>4. opened'.best = best /\ opened'.age = opened.age
    BY <1>2, <2>2 DEF Openings
  <2>5. window' \in Windows
    <3>1. CASE rank > window.rank
      <4>1. window.left \in 0..WindowMinutes
        BY <1>2 DEF Windows
      <4> QED  BY <1>2, <1>7, <3>1, <4>1 DEF Windows, Replaced
    <3>2. CASE ~(rank > window.rank)
      BY <1>2, <1>7, <3>2
    <3> QED  BY <3>1, <3>2
  <2>6. window'.rank = best /\ window'.left = window.left
    BY <1>7, <2>1 DEF Replaced
  <2> QED  BY <1>1, <2>1, <2>3, <2>4, <2>5, <2>6 DEF Remembered, WindowRanks
<1> QED  BY <1>4, <1>5, <1>6, <1>7 DEF Routed

LEMMA RouteStep ==
  ASSUME EntryInv, NEW main \in BOOLEAN, NEW rank \in Ranks \cup {0}, Route(main, rank)
  PROVE  EntryInv'
<1>1. tick \in Ticks
  BY Types DEF EntryInv
<1>2. tick' \in Ticks /\ Onward(tick')
  <2>1. tick' = Idle \/ \E signal : Accepted(signal)
    BY DEF Route, StartWindow, Collect, Confirm, Return
  <2>2. ASSUME NEW signal, Accepted(signal)
        PROVE  tick' \in Ticks /\ Onward(tick')
    BY <1>1, <2>2, AcceptedTick DEF Route
  <2> QED  BY <2>1, <2>2, IdleType DEF Onward
<1>3. Routed(rank)
  BY DEF Route, StartWindow, Collect, Confirm, Routed
<1>4. Remembered' /\ WindowRanks'
  BY <1>3, RoutedWindow DEF Route
<1> QED  BY <1>2, <1>4, GoesOn, Kept DEF Route

-----------------------------------------------------------------------------
(* From a signal to an order. *)

LEMMA SelectContractStep ==
  ASSUME EntryInv, SelectContract
  PROVE  EntryInv'
<1>1. tick \in Ticks
  BY Types DEF EntryInv
<1>2. CASE Return
  BY <1>2, IdleType, GoesOn, Kept DEF SelectContract, Return, Onward, memory
<1>3. ASSUME NEW c \in Contracts, TickerOf[c] = tick.ticker,
             tick' = [tick EXCEPT !.at = "quote", !.contract = c]
      PROVE  EntryInv'
  <2>1. "quote" \in Running \cup {"idle", "wait"} /\ c \in Contracts \cup {Nothing}
    BY DEF Running, Cleared, Chosen
  <2>2. tick' \in Ticks
    BY <1>1, <1>3, <2>1, TickTypes
  <2>3. tick'.at = "quote" /\ tick'.contract = c /\ tick'.ticker = tick.ticker /\ tick'.unsure = tick.unsure
    BY <1>1, <1>3 DEF Ticks
  <2>4. Stored' /\ Remembered' /\ WindowRanks'
    BY Kept DEF SelectContract
  <2>5. EntryTypeOK'
    BY <2>2, <2>4 DEF EntryTypeOK, Ticks, Stored, Remembered, Windows, Openings, Running, Cleared, Chosen
  <2>6. Guarded'
    BY <1>3, <2>3 DEF EntryInv, Guarded, SelectContract, memory, Running, Cleared, Chosen
  <2>7. OnePerTicker'
    BY DEF EntryInv, OnePerTicker, Exposed, SelectContract
  <2> QED  BY <2>4, <2>5, <2>6, <2>7 DEF EntryInv
<1> QED  BY <1>2, <1>3 DEF SelectContract

LEMMA CapacityPositionsStep ==
  ASSUME EntryInv, CapacityPositions
  PROVE  EntryInv'
<1>1. tick \in Ticks /\ Stored
  BY Types DEF EntryInv
<1>2. tick' \in Ticks /\ Onward(tick')
  <2>1. CASE tick' = Idle
    BY <2>1, IdleType DEF Onward
  <2>2. CASE tick' # Idle
    <3> DEFINE held == journal \cup {c \in Contracts : buys[c] = "filled"}
    <3>1. tick' = [tick EXCEPT !.at = "orders", !.exposed = held] /\ tick.at = "positions"
      BY <2>2 DEF CapacityPositions, Return
    <3>2. "orders" \in Running \cup {"idle", "wait"} /\ held \in SUBSET Contracts
      BY <1>1 DEF Running, Cleared, Chosen, Stored
    <3>3. [tick EXCEPT !.at = "orders", !.exposed = held] \in Ticks
      BY <1>1, <3>2, TickTypes
    <3>4. tick'.at = "orders" /\ tick'.ticker = tick.ticker /\ tick'.unsure = tick.unsure
          /\ tick'.contract = tick.contract
      BY <1>1, <3>1 DEF Ticks
    <3> QED  BY <3>1, <3>3, <3>4 DEF Onward, Running, Cleared, Chosen
  <2> QED  BY <2>1, <2>2
<1>3. Stored' /\ Remembered' /\ WindowRanks'
  BY Kept DEF CapacityPositions
<1> QED  BY <1>2, <1>3, GoesOn DEF CapacityPositions, memory

LEMMA CapacityOrdersStep ==
  ASSUME EntryInv, CapacityOrders
  PROVE  EntryInv'
<1>1. tick \in Ticks
  BY Types DEF EntryInv
<1>2. tick' \in Ticks /\ Onward(tick')
  <2>1. CASE tick' = Idle
    BY <2>1, IdleType DEF Onward
  <2>2. CASE tick' # Idle
    <3>1. tick' = [tick EXCEPT !.at = "intent", !.exposed = {}] /\ tick.at = "orders"
      BY <2>2 DEF CapacityOrders, Return
    <3>2. "intent" \in Running \cup {"idle", "wait"} /\ {} \in SUBSET Contracts
      BY DEF Running, Cleared, Chosen
    <3>3. [tick EXCEPT !.at = "intent", !.exposed = {}] \in Ticks
      BY <1>1, <3>2, TickTypes
    <3>4. tick'.at = "intent" /\ tick'.ticker = tick.ticker /\ tick'.unsure = tick.unsure
          /\ tick'.contract = tick.contract
      BY <1>1, <3>1 DEF Ticks
    <3> QED  BY <3>1, <3>3, <3>4 DEF Onward, Running, Cleared, Chosen
  <2> QED  BY <2>1, <2>2
<1>3. Stored' /\ Remembered' /\ WindowRanks'
  BY Kept DEF CapacityOrders
<1> QED  BY <1>2, <1>3, GoesOn DEF CapacityOrders, memory

LEMMA OrderIntentStep ==
  ASSUME EntryInv, OrderIntent
  PROVE  EntryInv'
<1>1. tick \in Ticks /\ Stored /\ Remembered
  BY Types DEF EntryInv
<1>2. tick' \in Ticks /\ Onward(tick')
  <2>1. CASE tick' = Idle
    BY <2>1, IdleType DEF Onward
  <2>2. CASE tick' # Idle
    <3>1. tick' = [tick EXCEPT !.at = "send"] /\ tick.at = "intent" /\ "send" \in Running \cup {"idle", "wait"}
      BY <2>2 DEF OrderIntent, Return, GoOn, Running, Cleared, Chosen
    <3> QED  BY <1>1, <3>1, GoesTo DEF Onward, Running, Cleared, Chosen
  <2> QED  BY <2>1, <2>2
<1>3. Stored' /\ WindowRanks'
  BY Kept DEF OrderIntent
<1>4. lastKey' \in Contracts \cup {Nothing}
  BY <1>1 DEF OrderIntent, Ticks, Remembered
<1>5. Remembered'
  BY <1>1, <1>4 DEF OrderIntent, Remembered
<1> QED  BY <1>2, <1>3, <1>5, GoesOn DEF OrderIntent

\* Where the buy is sent, a position in its ticker that it does not know of belongs to a
\* buy that was unresolved when the tick began.
LEMMA SendBuyStep ==
  ASSUME EntryInv, SendBuy
  PROVE  EntryInv'
<1>1. tick \in Ticks /\ Stored /\ Remembered
  BY Types DEF EntryInv
<1>2. /\ tick' \in Ticks /\ tick'.at \in {"idle", "wait"}
      /\ tick'.at = "wait" => tick'.contract = tick.contract
  <2>1. "wait" \in Running \cup {"idle", "wait"}
    OBVIOUS
  <2> QED  BY <1>1, <2>1, IdleType, GoesTo DEF SendBuy, GoOn, Return
<1>0. tick.contract \in Contracts /\ TickerOf[tick.contract] = tick.ticker
  BY DEF EntryInv, Guarded, SendBuy, Chosen
<1>3. Remembered' /\ WindowRanks'
  BY Kept DEF SendBuy
<1>4. CASE UNCHANGED <<buys, doubled>>
  <2>1. Stored'
    BY <1>4, Kept DEF SendBuy
  <2>2. EntryTypeOK'
    BY <1>2, <1>3, <2>1 DEF EntryTypeOK, Ticks, Stored, Remembered, Windows, Openings, Running, Cleared, Chosen
  <2>3. Guarded' /\ OnePerTicker'
    BY <1>2, <1>0, <1>4 DEF EntryInv, Guarded, OnePerTicker, Exposed, SendBuy, Running, Cleared, Chosen
  <2> QED  BY <1>3, <2>2, <2>3 DEF EntryInv
<1>5. CASE /\ buys[tick.contract] = "none"
           /\ buys' = [buys EXCEPT ![tick.contract] = "working"]
           /\ doubled' = IF tick.ticker \in tick.unsure THEN doubled \cup {tick.contract}
                         ELSE doubled \ {tick.contract}
  <2> DEFINE b == tick.contract
  <2>1. b \in Contracts /\ TickerOf[b] = tick.ticker
    BY <1>0
  <2>2. Stored'
    BY <1>1, <1>5, <2>1 DEF Stored, SendBuy
  <2>3. EntryTypeOK'
    BY <1>2, <1>3, <2>2 DEF EntryTypeOK, Ticks, Stored, Remembered, Windows, Openings, Running, Cleared, Chosen
  <2>4. Guarded'
    BY <1>2, <1>0 DEF Guarded, Running, Cleared, Chosen
  <2>5. \A d \in Exposed' : d # b => d \in Exposed
    BY <1>1, <1>5, <2>1 DEF Exposed, SendBuy, Stored
  <2>6. ASSUME NEW d \in Exposed, TickerOf[d] = tick.ticker
        PROVE  tick.ticker \in tick.unsure
    <3>1. CASE d \in journal
      BY <2>6, <3>1 DEF EntryInv, Guarded, SendBuy, Cleared, Chosen
    <3>2. CASE d \in Contracts /\ buys[d] # "none"
      BY <2>6, <3>2 DEF EntryInv, Guarded, SendBuy, Running, Cleared, Chosen
    <3> QED  BY <3>1, <3>2 DEF Exposed
  <2>7. OnePerTicker'
    <3> SUFFICES ASSUME NEW c \in Exposed', NEW d \in Exposed', TickerOf[c] = TickerOf[d], c # d
                 PROVE  c \in doubled' \/ d \in doubled'
      BY DEF OnePerTicker
    <3>1. CASE c # b /\ d # b
      BY <1>5, <2>5, <3>1 DEF EntryInv, OnePerTicker
    <3>2. CASE c = b \/ d = b
      <4>1. tick.ticker \in tick.unsure
        BY <2>1, <2>5, <2>6, <3>2
      <4> QED  BY <1>5, <3>2, <4>1
    <3> QED  BY <3>1, <3>2
  <2> QED  BY <1>3, <2>3, <2>4, <2>7 DEF EntryInv
<1> QED  BY <1>4, <1>5 DEF SendBuy

-----------------------------------------------------------------------------
(* What happens beside the tick, and to its order. *)

\* A resolved buy adds no exposure, and a position it adds was not sure to any tick.
LEMMA Resolved ==
  ASSUME EntryInv, NEW c \in Contracts, Resolve(c), UNCHANGED <<settings, doubled>>
  PROVE  /\ Stored' /\ OnePerTicker'
         /\ UNCHANGED <<tick, seen>> => Guarded'
<1>1. Stored
  BY Types DEF EntryInv
<1>2. Stored'
  BY <1>1 DEF Stored, Resolve
<1>3. Exposed' \subseteq Exposed
  BY <1>1 DEF Exposed, Resolve, Stored
<1>4. OnePerTicker'
  BY <1>3 DEF EntryInv, OnePerTicker
<1>5. ASSUME UNCHANGED <<tick, seen>> PROVE Guarded'
  <2>1. \A d \in Contracts : buys'[d] # "none" => buys[d] # "none"
    BY <1>1 DEF Resolve, Stored
  <2>2. buys[c] # "none" /\ journal' \subseteq journal \cup {c}
    BY DEF Resolve
  <2>3. tick.at \in Running => TickerOf[c] \in tick.unsure
    BY <2>2 DEF EntryInv, Guarded
  <2>4. Cleared \subseteq Running
    BY DEF Running
  <2> QED  BY <1>5, <2>1, <2>2, <2>3, <2>4 DEF EntryInv, Guarded
<1> QED  BY <1>2, <1>4, <1>5

LEMMA RecordEntryStep ==
  ASSUME EntryInv, RecordEntry
  PROVE  EntryInv'
<1>1. tick \in Ticks /\ Stored /\ Remembered /\ WindowRanks
  BY Types DEF EntryInv
<1>2. tick' = Idle
  BY DEF RecordEntry, Return
<1>3. CASE UNCHANGED <<journal, buys, seen>>
  <2>1. Stored' /\ Remembered' /\ WindowRanks'
    BY <1>1, <1>3, Kept DEF RecordEntry, memory
  <2> QED  BY <1>2, <1>3, <2>1, IdleType, GoesOn DEF RecordEntry, Onward
<1>4. CASE Resolve(tick.contract) /\ seen' = journal'
  <2>1. tick.contract \in Contracts
    BY DEF EntryInv, Guarded, RecordEntry
  <2>2. Stored' /\ OnePerTicker'
    BY <1>4, <2>1, Resolved DEF RecordEntry
  <2>3. Remembered' /\ WindowRanks'
    BY <1>1, <1>4, <2>2 DEF RecordEntry, Stored, Remembered, WindowRanks
  <2>4. EntryTypeOK'
    BY <1>2, <2>2, <2>3, IdleType DEF EntryTypeOK, Ticks, Stored, Remembered, Windows, Openings, Running, Cleared, Chosen
  <2>5. Guarded'
    BY <1>2, IdleType DEF Guarded, Running, Cleared, Chosen
  <2> QED  BY <2>2, <2>3, <2>4, <2>5 DEF EntryInv
<1> QED  BY <1>3, <1>4 DEF RecordEntry, OpenTrades

LEMMA ExecuteStep ==
  ASSUME EntryInv, NEW c \in Contracts, Execute(c)
  PROVE  EntryInv'
<1>1. tick \in Ticks /\ Stored
  BY Types DEF EntryInv
<1>2. Stored'
  BY <1>1 DEF Stored, Execute
<1>3. Remembered' /\ WindowRanks'
  BY Kept DEF Execute
<1>4. EntryTypeOK'
  BY <1>1, <1>2, <1>3 DEF EntryTypeOK, Ticks, Stored, Remembered, Windows, Openings, Running, Cleared, Chosen, Execute
<1>5. Exposed' \subseteq Exposed
  BY <1>1 DEF Exposed, Execute, Stored
<1>6. OnePerTicker'
  BY <1>5 DEF EntryInv, OnePerTicker, Execute
<1>7. \A d \in Contracts : buys'[d] # "none" => buys[d] # "none"
  BY <1>1 DEF Execute, Stored
<1>8. Guarded'
  BY <1>7 DEF EntryInv, Guarded, Execute, memory
<1> QED  BY <1>3, <1>4, <1>6, <1>8 DEF EntryInv

LEMMA ReconciledStep ==
  ASSUME EntryInv, NEW c \in Contracts, Reconciled(c)
  PROVE  EntryInv'
<1>1. tick \in Ticks
  BY Types DEF EntryInv
<1>2. Remembered' /\ WindowRanks'
  BY Kept DEF Reconciled
<1>3. UNCHANGED <<tick, settings, seen, doubled>>
  BY DEF Reconciled, memory
<1>4. Stored' /\ OnePerTicker' /\ Guarded'
  BY <1>3, Resolved DEF Reconciled
<1>5. EntryTypeOK'
  BY <1>1, <1>2, <1>3, <1>4 DEF EntryTypeOK, Ticks, Stored, Remembered, Windows, Openings, Running, Cleared, Chosen
<1> QED  BY <1>2, <1>4, <1>5 DEF EntryInv

\* Whatever leaves the tick and the trades alone, and the memory well-typed.
LEMMA Beside ==
  ASSUME EntryInv, Stored', Remembered', WindowRanks', UNCHANGED <<tick, journal, buys, seen, doubled>>
  PROVE  EntryInv'
<1>1. tick' \in Ticks
  BY Types DEF EntryInv
<1>2. EntryTypeOK'
  BY <1>1 DEF EntryTypeOK, Ticks, Stored, Remembered, Windows, Openings, Running, Cleared, Chosen
<1>3. Guarded' /\ OnePerTicker'
  BY DEF EntryInv, Guarded, OnePerTicker, Exposed
<1> QED  BY <1>2, <1>3 DEF EntryInv

LEMMA ChangeSettingsStep ==
  ASSUME EntryInv, ChangeSettings
  PROVE  EntryInv'
<1>1. Stored
  BY Types DEF EntryInv
<1>2. Stored'
  BY <1>1 DEF Stored, ChangeSettings, Settings
<1>3. Remembered' /\ WindowRanks'
  BY Kept DEF ChangeSettings
<1> QED  BY <1>2, <1>3, Beside DEF ChangeSettings, memory

LEMMA LessType == ASSUME NEW N \in Nat, NEW n \in 0..N PROVE Less(n) \in 0..N
  BY DEF Less

LEMMA MinutePassesStep ==
  ASSUME EntryInv, MinutePasses
  PROVE  EntryInv'
<1>1. Stored /\ Remembered /\ WindowRanks /\ WindowMinutes \in Nat /\ CooldownMinutes \in Nat
  BY Types, EntryAssumption DEF EntryInv
<1>2. window \in Windows /\ opened \in Openings /\ opened.age \in 0..WindowMinutes /\ window.left \in 0..WindowMinutes
  BY <1>1 DEF Remembered, Windows, Openings
<1>3. Less(window.left) \in 0..WindowMinutes
  BY <1>1, <1>2, LessType
<1>4. window' = [window EXCEPT !.left = Less(window.left)]
  BY DEF MinutePasses
<1>5. window' \in Windows
  BY <1>2, <1>3, <1>4 DEF Windows
<1>6. window'.left = Less(window.left) /\ window'.rank = window.rank
  BY <1>2, <1>4 DEF Windows
<1> DEFINE age == IF window # NoWindow /\ opened.age < WindowMinutes THEN opened.age + 1 ELSE opened.age
<1>7. opened' = [opened EXCEPT !.age = age] /\ age \in 0..WindowMinutes
  BY <1>1, <1>2 DEF MinutePasses
<1>8. opened' \in Openings
  BY <1>2, <1>7 DEF Openings
<1>9. opened'.age = age /\ opened'.best = opened.best
  BY <1>2, <1>7 DEF Openings
<1>10. cooldown' \in [Tickers -> 0..CooldownMinutes]
  BY <1>1, LessType DEF MinutePasses, Remembered
<1>11. Remembered'
  BY <1>1, <1>5, <1>8, <1>10 DEF Remembered, MinutePasses
<1>12. WindowRanks'
  <2>1. CASE window = NoWindow
    BY <1>4, <2>1 DEF WindowRanks, NoWindow, Less
  <2>2. CASE window # NoWindow
    <3>1. window.rank = opened.best /\ window.left + opened.age = WindowMinutes
      BY <1>1, <2>2 DEF WindowRanks
    <3>2. Less(window.left) + age = WindowMinutes
      BY <1>1, <1>2, <2>2, <3>1 DEF Less
    <3> QED  BY <1>6, <1>9, <3>1, <3>2 DEF WindowRanks
  <2> QED  BY <2>1, <2>2
<1>13. Stored'
  BY Kept DEF MinutePasses
<1> QED  BY <1>11, <1>12, <1>13, Beside DEF MinutePasses

LEMMA LoseMemoryStep ==
  ASSUME EntryInv, LoseMemory
  PROVE  EntryInv'
<1>1. Stored'
  BY Kept DEF LoseMemory
<1>2. Remembered' /\ WindowRanks'
  BY WindowTypes DEF LoseMemory, Remembered, WindowRanks
<1>3. tick' \in Ticks /\ tick'.at = "idle"
  BY IdleType DEF LoseMemory, Return
<1>4. EntryTypeOK'
  BY <1>1, <1>2, <1>3 DEF EntryTypeOK, Ticks, Stored, Remembered, Windows, Openings, Running, Cleared, Chosen
<1>5. Guarded' /\ OnePerTicker'
  BY <1>3 DEF EntryInv, Guarded, OnePerTicker, Exposed, LoseMemory, Running, Cleared, Chosen
<1> QED  BY <1>2, <1>4, <1>5 DEF EntryInv

-----------------------------------------------------------------------------
LEMMA EntrySteps ==
  ASSUME EntryInv, EntryNext
  PROVE  EntryInv'
<1>1. CASE NewSession \/ ReadSettings \/ SelectTicker \/ TickerGates
  BY <1>1, NewSessionStep, ReadSettingsStep, SelectTickerStep, TickerGatesStep
<1>2. CASE PolicyGates \/ PriceGates \/ MarketVetoes \/ QuoteContract \/ SizeOrder \/ RewardGates \/ ReviewOrder
  <2>1. CASE PolicyGates \/ PriceGates \/ MarketVetoes
    BY <2>1, GateStep DEF PolicyGates, PriceGates, MarketVetoes, Running, Cleared, Chosen
  <2>2. CASE QuoteContract \/ SizeOrder \/ RewardGates \/ ReviewOrder
    BY <2>2, GateStep DEF QuoteContract, SizeOrder, RewardGates, ReviewOrder, Running, Cleared, Chosen
  <2> QED  BY <1>2, <2>1, <2>2
<1>3. CASE SelectContract \/ CapacityPositions \/ CapacityOrders \/ OrderIntent \/ SendBuy \/ RecordEntry
  BY <1>3, SelectContractStep, CapacityPositionsStep, CapacityOrdersStep, OrderIntentStep, SendBuyStep,
     RecordEntryStep
<1>4. CASE ChangeSettings \/ MinutePasses \/ LoseMemory
  BY <1>4, ChangeSettingsStep, MinutePassesStep, LoseMemoryStep
<1>5. CASE \E t \in Tickers \cup {Nothing} : BeginTick(t)
  BY <1>5, BeginTickStep
<1>6. CASE \E c \in Contracts, won \in BOOLEAN : CloseTrade(c, won)
  BY <1>6, CloseTradeStep
<1>7. CASE \E main \in BOOLEAN, rank \in Ranks \cup {0} : Route(main, rank)
  BY <1>7, RouteStep
<1>8. CASE \E c \in Contracts : Execute(c) \/ Reconciled(c) \/ CloseByHand(c)
  BY <1>8, ExecuteStep, ReconciledStep, CloseByHandStep
<1> QED  BY <1>1, <1>2, <1>3, <1>4, <1>5, <1>6, <1>7, <1>8 DEF EntryNext

LEMMA EntryStutters ==
  ASSUME EntryInv, UNCHANGED entryVars
  PROVE  EntryInv'
<1>1. Stored' /\ Remembered' /\ WindowRanks'
  BY Kept DEF entryVars, memory
<1> QED  BY <1>1, Beside DEF entryVars

\* The invariant of the entry path, with what a tick that passed the same-ticker guard
\* still does not know.
THEOREM EntryInductive == EntrySpec => []EntryInv
<1>1. EntryInv /\ [EntryNext]_entryVars => EntryInv'
  BY EntrySteps, EntryStutters
<1> QED  BY EntryStarts, <1>1, PTL DEF EntrySpec

\* Every variable of the entry path keeps its type, for every set of tickers and contracts.
THEOREM EntryTypeCorrect == EntrySpec => []EntryTypeOK
<1>1. EntryInv => EntryTypeOK
  BY DEF EntryInv
<1> QED  BY EntryInductive, <1>1, PTL

\* The opportunity window keeps the best rank it saw and the deadline of its first signal,
\* whatever comes between two scans of its ticker.
THEOREM WindowRanksHolds == EntrySpec => []WindowRanks
<1>1. EntryInv => WindowRanks
  BY DEF EntryInv
<1> QED  BY EntryInductive, <1>1, PTL

\* The bot never holds or orders two contracts of a ticker, except where a buy in it was
\* unresolved when the tick of the second began.
THEOREM OnePerTickerHolds == EntrySpec => []OnePerTicker
<1>1. EntryInv => OnePerTicker
  BY DEF EntryInv
<1> QED  BY EntryInductive, <1>1, PTL
=============================================================================
