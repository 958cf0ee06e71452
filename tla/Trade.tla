------------------------------- MODULE Trade -------------------------------
(***************************************************************************)
(* The trade window of two players, and the saves that follow it.          *)
(*                                                                         *)
(* All trade opcodes are handled by the world thread (PROCESS_THREADUNSAFE *)
(* in Opcodes.cpp), so every handler is one step.  What happens between    *)
(* the steps is the hard part: either side changes the offer, items and    *)
(* money leave the bags by other routes, a player logs out, and the        *)
(* database executes the saves later and one at a time, in the order of    *)
(* the queue (CharacterDatabase.WorkerThreads = 1), or never, if the       *)
(* process dies.                                                           *)
(*                                                                         *)
(* A definition whose name ends in _Wrong is a defect the properties are   *)
(* tried against: it is the definition that follows it with a plausible    *)
(* mistake, and nothing here uses it.                                      *)
(***************************************************************************)
EXTENDS Integers, Sequences, FiniteSets, Functions

CONSTANTS
    Players, Items,
    TradedSlots,        \* TRADE_SLOT_TRADED_COUNT: slots whose items change hands
    Capacity,           \* places in the bags of each player
    MAX_MONEY_AMOUNT,
    InitialItems,       \* what each player owns in the database
    InitialMoney,
    MaxStack,           \* bound: stack size an item starts with
    MaxTrades,          \* bound: trades opened
    MaxMishaps,         \* bound: logouts, crashes, items and money that leave a bag
                        \* by other routes
    MaxPending,         \* bound: transactions waiting for the database
    None

ASSUME TradeAssumption ==
    /\ TradedSlots \in Nat
    /\ MAX_MONEY_AMOUNT \in Nat /\ MaxStack \in Nat \ {0}
    /\ MaxTrades \in Nat /\ MaxMishaps \in Nat /\ MaxPending \in Nat
    /\ IsFiniteSet(Players) /\ IsFiniteSet(Items)
    /\ Capacity \in [Players -> Nat]
    /\ InitialItems \in [Players -> SUBSET Items]
    /\ \A p, q \in Players: p # q => InitialItems[p] \cap InitialItems[q] = {}
    /\ InitialMoney \in [Players -> 0..MAX_MONEY_AMOUNT]
    /\ None \notin Players /\ None \notin Items

VARIABLES
    online,             \* players in the world
    bag,                \* items in the inventory of each player
    count,              \* stack count of each item
    money, spent,       \* gold of each player, and what it has bought outside trades
    gone,               \* destroyed items whose rows are still there
    m_trade,            \* None, or the TradeData of a player
    db,                 \* the rows of the characters database
    pending,            \* transactions and login queries waiting for the worker thread
    trades, mishaps     \* history for the bounds

inventory == <<bag, count, money, spent, gone>>
bounds == <<trades, mishaps>>
vars == <<online, inventory, m_trade, db, pending, bounds>>

-----------------------------------------------------------------------------
NonTraded == TradedSlots + 1    \* TRADE_SLOT_NONTRADED: shown, never given
Slots == 1..NonTraded

NewTrade(q) ==
    [trader |-> q, accepted |-> FALSE, money |-> 0, spell |-> FALSE,
     items |-> [s \in Slots |-> None]]

TradeDatas ==
    [trader: Players, accepted: BOOLEAN, money: 0..MAX_MONEY_AMOUNT, spell: BOOLEAN,
     items: [Slots -> Items \cup {None}]]

\* TradeDatas are compared with None, the null pointer.
ASSUME NullAssumption == None \notin TradeDatas

\* An item of the offer that is no longer in the inventory counts as an empty slot.
GetItem(p, s) == IF m_trade[p].items[s] \in bag[p] THEN m_trade[p].items[s] ELSE None

\* As if one item could be put into many slots.
HasItem_Wrong(p, i) == FALSE

HasItem(p, i) == \E s \in Slots: m_trade[p].items[s] = i

\* The items p would give, as setAcceptTradeMode collects them.
Given(p) == {GetItem(p, s) : s \in 1..TradedSlots} \ {None}

\* The items a set of slots of p's window resolve to.
GivenIn(p, s) == {GetItem(p, s)} \ {None}

HasEnoughMoney(p) == money[p] >= m_trade[p].money

\* p would reach the limit by what q offers.
TooMuchGold(p, q) == money[p] >= MAX_MONEY_AMOUNT - m_trade[q].money

\* Items fit when there is a place for each.
Fits(p, items) == Cardinality(items) <= Capacity[p]

CanStoreItems(p, mine, his) == Fits(p, (bag[p] \ mine) \cup his)

\* As if only the offering side were asked again.
Unaccept_Wrong(p, q, td) == [td EXCEPT ![p].accepted = FALSE]

\* Both acceptances are withdrawn by every change of an offer.
Unaccept(p, q, td) ==
    [td EXCEPT ![p].accepted = FALSE, ![q].accepted = FALSE]

\* Player::ModifyMoney
Debit(m, x) == IF m > x THEN m - x ELSE 0
Credit(m, x) == IF m < MAX_MONEY_AMOUNT - x THEN m + x ELSE m

\* One transaction with the inventories and the gold of the players of S.
Saving(S, b, m) ==
    [load |-> None,
     images |-> [p \in S |-> [bag |-> b[p], count |-> count, money |-> m[p],
                              spent |-> spent[p], gone |-> gone[p]]]]

Loading(p) == [load |-> p, images |-> <<>>]

\* As if the login queries went past the saves.
Behind_Wrong(l) == <<l>> \o pending

\* The queue of the database with one entry more.
Behind(l) == Append(pending, l)

\* Whoever saves leaves no deletion behind.
Cleaned(S) == [p \in Players |-> IF p \in S THEN {} ELSE gone[p]]

\* moveItems: slot after slot, both directions or a return to the owner; an item
\* that fits nowhere is in no bag.
MoveItems(p, q) ==
    LET moved[s \in 0..TradedSlots] ==
        IF s = 0
        THEN [mine |-> bag[p] \ Given(p), his |-> bag[q] \ Given(q)]
        ELSE LET b == moved[s - 1]
                 my == GivenIn(p, s)
                 hi == GivenIn(q, s)
                 Stored(r, old, new) ==
                    IF Fits(r, old \cup new) THEN old \cup new ELSE old
             IN  IF Fits(q, b.his \cup my) /\ Fits(p, b.mine \cup hi)
                 THEN [mine |-> b.mine \cup hi, his |-> b.his \cup my]
                 ELSE [mine |-> Stored(p, b.mine, my), his |-> Stored(q, b.his, hi)]
    IN  moved[TradedSlots]

-----------------------------------------------------------------------------
(* The window: TradeHandler.cpp, TradeData.cpp.                            *)

Trading(p) == p \in online /\ m_trade[p] # None

\* HandleInitiateTradeOpcode.  That the two are alive, near, of one faction and so
\* on is left to chance: a refusal changes nothing.
Initiate(p, q) ==
    /\ trades < MaxTrades
    /\ {p, q} \subseteq online /\ p # q
    /\ m_trade[p] = None /\ m_trade[q] = None
    /\ m_trade' = [m_trade EXCEPT ![p] = NewTrade(q), ![q] = NewTrade(p)]
    /\ trades' = trades + 1
    /\ UNCHANGED <<online, inventory, db, pending, mishaps>>

\* TradeData::SetItem when the slot or its item changes: the spells that depend on
\* it go with it.
PutItem(p, q, s, i) ==
    Unaccept(p, q, [m_trade EXCEPT ![p].items[s] = i, ![p].spell = FALSE,
                                   ![q].spell = @ /\ s # NonTraded])

\* HandleSetTradeItemOpcode.
SetTradeItem(p, s, i) ==
    /\ Trading(p)
    /\ i \in bag[p] /\ ~HasItem(p, i)
    /\ m_trade' = PutItem(p, m_trade[p].trader, s, i)
    /\ UNCHANGED <<online, inventory, db, pending, bounds>>

\* HandleClearTradeItemOpcode.
ClearTradeItem(p, s) ==
    /\ Trading(p)
    /\ m_trade[p].items[s] # None
    /\ m_trade' = PutItem(p, m_trade[p].trader, s, None)
    /\ UNCHANGED <<online, inventory, db, pending, bounds>>

\* HandleSetTradeGoldOpcode.
SetTradeGold(p, gold) ==
    /\ Trading(p)
    /\ gold # m_trade[p].money
    /\ money[p] >= gold
    /\ m_trade' = Unaccept(p, m_trade[p].trader, [m_trade EXCEPT ![p].money = gold])
    /\ UNCHANGED <<online, inventory, db, pending, bounds>>

\* A spell cast on the item the partner shows (Spell::_cast, CheckItems) waits for
\* the trade to complete.
SetTradeSpell(p) ==
    /\ Trading(p)
    /\ ~m_trade[p].spell
    /\ GetItem(m_trade[p].trader, NonTraded) # None
    /\ m_trade' = Unaccept(p, m_trade[p].trader, [m_trade EXCEPT ![p].spell = TRUE])
    /\ UNCHANGED <<online, inventory, db, pending, bounds>>

\* HandleUnacceptTradeOpcode.
UnacceptTrade(p) ==
    /\ Trading(p)
    /\ m_trade[p].accepted
    /\ m_trade' = [m_trade EXCEPT ![p].accepted = FALSE]
    /\ UNCHANGED <<online, inventory, db, pending, bounds>>

\* As if each side closed its own window.
Closed_Wrong(p) == IF m_trade[p] = None THEN m_trade ELSE [m_trade EXCEPT ![p] = None]

\* Player::TradeCancel: neither side keeps a window.
Closed(p) ==
    LET q == m_trade[p].trader IN
    IF m_trade[p] = None THEN m_trade
    ELSE [m_trade EXCEPT ![p] = None, ![q] = None]

\* HandleCancelTradeOpcode; ActivateTaxiPathTo cancels the same way.
CancelTrade(p) ==
    /\ Trading(p)
    /\ m_trade' = Closed(p)
    /\ UNCHANGED <<online, inventory, db, pending, bounds>>

-----------------------------------------------------------------------------
(* HandleAcceptTradeOpcode.  q is the partner of p in all of it.           *)

\* Whose acceptance the checks on gold withdraw: the first that fails counts.
RefusedFor(p, q) ==
    LET asked == <<p, q, p, q>>
        failed == <<~HasEnoughMoney(p), ~HasEnoughMoney(q),
                    TooMuchGold(p, q), TooMuchGold(q, p)>>
        n == {k \in 1..4: failed[k] /\ \A j \in 1..(k - 1): ~failed[j]}
    IN  IF n = {} THEN None ELSE asked[CHOOSE k \in n: TRUE]

\* m_trade when p has pressed accept and the acceptance of r, if any, is withdrawn.
Pressed(p, r) ==
    [x \in Players |->
        IF m_trade[x] = None THEN None
        ELSE [m_trade[x] EXCEPT !.accepted = (@ \/ x = p) /\ x # r]]

\* The partner is too far away, or somebody's gold is wrong.
AcceptRefused(p, q) ==
    /\ \/ m_trade' = Pressed(p, p)
       \/ RefusedFor(p, q) # None /\ m_trade' = Pressed(p, RefusedFor(p, q))
    /\ UNCHANGED <<online, inventory, db, pending, bounds>>

\* The partner has not accepted yet; or an offered item can no longer be traded, and
\* the acceptance just given stays.
AcceptWaits(p, q) ==
    /\ RefusedFor(p, q) = None
    /\ ~m_trade[q].accepted \/ Given(p) \cup Given(q) # {}
    /\ m_trade' = Pressed(p, None)
    /\ UNCHANGED <<online, inventory, db, pending, bounds>>

BothAccept(p, q) == RefusedFor(p, q) = None /\ m_trade[q].accepted

\* The spell of c cannot be cast: its target is gone, or CheckCast says so.
SpellFails(p, q) ==
    /\ BothAccept(p, q)
    /\ \E c \in {p, q}:
        /\ m_trade[c].spell
        /\ m_trade' = Unaccept(p, q, [m_trade EXCEPT ![c].spell = FALSE])
    /\ UNCHANGED <<online, inventory, db, pending, bounds>>

SpellsHaveTargets(p, q) ==
    \A c \in {p, q}: m_trade[c].spell => GetItem(m_trade[c].trader, NonTraded) # None

\* As if only the player who accepts last were checked.
EverythingFits_Wrong(p, q) == CanStoreItems(p, Given(p), Given(q))

EverythingFits(p, q) ==
    /\ CanStoreItems(q, Given(q), Given(p))
    /\ CanStoreItems(p, Given(p), Given(q))

ItemsDoNotFit(p, q) ==
    /\ BothAccept(p, q) /\ SpellsHaveTargets(p, q)
    /\ ~EverythingFits(p, q)
    /\ m_trade' = Unaccept(p, q, m_trade)
    /\ UNCHANGED <<online, inventory, db, pending, bounds>>

\* As if each player were saved in a transaction of his own.
SaveExchange_Wrong(p, q, b, m) == <<Saving({p}, b, m), Saving({q}, b, m)>>

\* The transactions the exchange leaves behind: one for both players.
SaveExchange(p, q, b, m) == <<Saving({p, q}, b, m)>>

Exchange(p, q) ==
    /\ BothAccept(p, q) /\ SpellsHaveTargets(p, q)
    /\ EverythingFits(p, q)
    /\ Len(pending) < MaxPending
    /\ LET moved == MoveItems(p, q)
           Paid(x, gives, takes) == Credit(Debit(money[x], gives), takes)
           newBag == [bag EXCEPT ![p] = moved.mine, ![q] = moved.his]
           newMoney == [money EXCEPT
                            ![p] = Paid(p, m_trade[p].money, m_trade[q].money),
                            ![q] = Paid(q, m_trade[q].money, m_trade[p].money)]
       IN  /\ bag' = newBag
           /\ money' = newMoney
           /\ pending' = pending \o SaveExchange(p, q, newBag, newMoney)
    /\ gone' = Cleaned({p, q})
    /\ m_trade' = [m_trade EXCEPT ![p] = None, ![q] = None]
    /\ UNCHANGED <<online, count, spent, db, bounds>>

AcceptTrade(p) ==
    /\ Trading(p)
    /\ LET q == m_trade[p].trader IN
        /\ m_trade[q] # None
        /\ \/ AcceptRefused(p, q)
           \/ AcceptWaits(p, q)
           \/ SpellFails(p, q)
           \/ ItemsDoNotFit(p, q)
           \/ Exchange(p, q)

-----------------------------------------------------------------------------
(* What changes the bags while a window is open.                           *)

\* Player::DestroyItem, or any other way out of the inventory: the windows are not
\* told.
DestroyItem(p, i) ==
    /\ mishaps < MaxMishaps
    /\ p \in online /\ i \in bag[p]
    /\ bag' = [bag EXCEPT ![p] = @ \ {i}]
    /\ gone' = [gone EXCEPT ![p] = @ \cup {i}]
    /\ mishaps' = mishaps + 1
    /\ UNCHANGED <<online, count, money, spent, m_trade, db, pending, trades>>

\* Item::SetCount: a stack shrinks; an offered one is put into its slot again.
SetCount(p, i) ==
    /\ mishaps < MaxMishaps
    /\ p \in online /\ i \in bag[p] /\ count[i] > 1
    /\ count' = [count EXCEPT ![i] = @ - 1]
    /\ m_trade' =
        IF m_trade[p] = None \/ ~HasItem(p, i) THEN m_trade
        ELSE PutItem(p, m_trade[p].trader,
                     CHOOSE s \in Slots: m_trade[p].items[s] = i, i)
    /\ mishaps' = mishaps + 1
    /\ UNCHANGED <<online, bag, money, spent, gone, db, pending, trades>>

\* Repairs, postage, a vendor.
Spend(p) ==
    /\ mishaps < MaxMishaps
    /\ p \in online /\ money[p] > 0
    /\ money' = [money EXCEPT ![p] = @ - 1]
    /\ spent' = [spent EXCEPT ![p] = @ + 1]
    /\ mishaps' = mishaps + 1
    /\ UNCHANGED <<online, bag, count, gone, m_trade, db, pending, trades>>

-----------------------------------------------------------------------------
(* Saves, logins and the database.                                         *)

\* Player::SaveToDB, from the timer or a command.
SaveToDB(p) ==
    /\ p \in online
    /\ Len(pending) < MaxPending
    /\ pending' = Behind(Saving({p}, bag, money))
    /\ gone' = Cleaned({p})
    /\ UNCHANGED <<online, bag, count, money, spent, m_trade, db, bounds>>

\* WorldSession::LogoutPlayer: SaveToDB, then CleanupsBeforeDelete.
LogoutPlayer(p) ==
    /\ mishaps < MaxMishaps
    /\ p \in online
    /\ Len(pending) < MaxPending
    /\ pending' = Behind(Saving({p}, bag, money))
    /\ gone' = Cleaned({p})
    /\ m_trade' = Closed(p)
    /\ online' = online \ {p}
    /\ bag' = [bag EXCEPT ![p] = {}]
    /\ mishaps' = mishaps + 1
    /\ UNCHANGED <<count, money, spent, db, trades>>

\* WorldSession::HandlePlayerLoginOpcode: the queries wait behind the saves.
PlayerLogin(p) ==
    /\ p \notin online
    /\ \A n \in DOMAIN pending: pending[n].load # p
    /\ Len(pending) < MaxPending
    /\ pending' = Behind(Loading(p))
    /\ UNCHANGED <<online, inventory, m_trade, db, bounds>>

\* The rows of database d after a transaction.
Written(d, images) ==
    LET W == DOMAIN images
        OwnerOf(i) ==
            IF \E p \in W: i \in images[p].bag THEN CHOOSE p \in W: i \in images[p].bag
            ELSE IF \E p \in W: i \in images[p].gone THEN None
            ELSE d.owner[i]
    IN  [owner |-> [i \in Items |-> OwnerOf(i)],
         count |-> [i \in Items |->
            IF \E p \in W: i \in images[p].bag
            THEN images[CHOOSE p \in W: i \in images[p].bag].count[i] ELSE d.count[i]],
         money |-> [p \in Players |-> IF p \in W THEN images[p].money ELSE d.money[p]],
         spent |-> [p \in Players |-> IF p \in W THEN images[p].spent ELSE d.spent[p]]]

\* The worker thread executes the oldest transaction.
ExecuteTransaction ==
    /\ pending # <<>>
    /\ Head(pending).load = None
    /\ db' = Written(db, Head(pending).images)
    /\ pending' = Tail(pending)
    /\ UNCHANGED <<online, inventory, m_trade, bounds>>

\* Player p as the rows describe him enters the world (HandlePlayerLogin).
Enters(p, owner) ==
    /\ online' = online \cup {p}
    /\ bag' = [bag EXCEPT ![p] = {i \in Items: owner[i] = p}]
    /\ count' = [i \in Items |-> IF owner[i] = p THEN db.count[i] ELSE count[i]]
    /\ money' = [money EXCEPT ![p] = db.money[p]]
    /\ spent' = [spent EXCEPT ![p] = db.spent[p]]

LoadPlayer ==
    /\ pending # <<>>
    /\ Head(pending).load # None
    /\ Enters(Head(pending).load, db.owner)
    /\ pending' = Tail(pending)
    /\ UNCHANGED <<gone, m_trade, db, bounds>>

\* The process dies and starts again: only the rows remain.
Crash ==
    /\ mishaps < MaxMishaps
    /\ online' = {}
    /\ bag' = [p \in Players |-> {}]
    /\ gone' = [p \in Players |-> {}]
    /\ m_trade' = [p \in Players |-> None]
    /\ pending' = <<>>
    /\ mishaps' = mishaps + 1
    /\ UNCHANGED <<count, money, spent, db, trades>>

-----------------------------------------------------------------------------
Init ==
    /\ online = Players
    /\ bag = InitialItems
    /\ count = [i \in Items |-> MaxStack]
    /\ money = InitialMoney
    /\ spent = [p \in Players |-> 0]
    /\ gone = [p \in Players |-> {}]
    /\ m_trade = [p \in Players |-> None]
    /\ db = [owner |-> [i \in Items |->
                IF \E p \in Players: i \in InitialItems[p]
                THEN CHOOSE p \in Players: i \in InitialItems[p] ELSE None],
             count |-> count, money |-> money, spent |-> spent]
    /\ pending = <<>>
    /\ trades = 0 /\ mishaps = 0

Next ==
    \/ \E p, q \in Players: Initiate(p, q)
    \/ \E p \in Players:
        \/ \E s \in Slots: ClearTradeItem(p, s) \/ \E i \in Items: SetTradeItem(p, s, i)
        \/ \E gold \in 0..MAX_MONEY_AMOUNT: SetTradeGold(p, gold)
        \/ SetTradeSpell(p)
        \/ AcceptTrade(p)
        \/ UnacceptTrade(p)
        \/ CancelTrade(p)
        \/ \E i \in Items: DestroyItem(p, i) \/ SetCount(p, i)
        \/ Spend(p)
        \/ SaveToDB(p)
        \/ LogoutPlayer(p)
        \/ PlayerLogin(p)
    \/ ExecuteTransaction
    \/ LoadPlayer
    \/ Crash

Spec == Init /\ [][Next]_vars

-----------------------------------------------------------------------------
\* Every variable keeps to its type, and no item is in two slots of a window.
TypeOK ==
    /\ online \subseteq Players
    /\ bag \in [Players -> SUBSET Items]
    /\ gone \in [Players -> SUBSET Items]
    /\ count \in [Items -> 1..MaxStack]
    /\ money \in [Players -> 0..MAX_MONEY_AMOUNT]
    /\ spent \in [Players -> Nat]
    /\ m_trade \in [Players -> TradeDatas \cup {None}]
    /\ \A p \in Players: m_trade[p] # None =>
        \A s, t \in Slots: m_trade[p].items[s] = m_trade[p].items[t]
                            => s = t \/ m_trade[p].items[s] = None
    /\ db.owner \in [Items -> Players \cup {None}]
    /\ trades \in 0..MaxTrades /\ mishaps \in 0..MaxMishaps

\* A window points to a partner in the world whose window points back: what lets
\* GetTraderData() be used without a test (TradeData.cpp:69, Player.cpp:13483), also
\* when the partner is trading with somebody else or has just left.
TradesAreMutual ==
    \A p \in Players: m_trade[p] # None =>
        LET q == m_trade[p].trader IN
        /\ {p, q} \subseteq online /\ p # q
        /\ m_trade[q] # None /\ m_trade[q].trader = p

\* What p's window says, and the stacks in it.
Window(p) ==
    [items |-> [s \in Slots |-> <<m_trade[p].items[s],
                  IF m_trade[p].items[s] = None THEN 0 ELSE count[m_trade[p].items[s]]>>],
     money |-> m_trade[p].money, spell |-> m_trade[p].spell]

\* An acceptance is for the windows it was given for: while it stands nobody puts
\* anything into either window or takes it out, no stack in them shrinks, and gold
\* and spells stay.  It does outlive the loss of an offered item from its owner's
\* bag, of which the windows are not told (DestroyItem); all that can happen to what
\* a slot resolves to is that it becomes nothing.
StandsForTheOffers(p) ==
    (/\ m_trade[p] # None /\ m_trade[p].accepted
     /\ m_trade'[p] # None /\ m_trade'[p].accepted)
    => \A x \in {p, m_trade[p].trader}:
        /\ Window(x)' = Window(x)
        /\ \A s \in Slots: GetItem(x, s)' \in {GetItem(x, s), None}

AcceptancesStandForTheOffers == [][\A p \in Players: StandsForTheOffers(p)]_vars

\* However a trade of p and q ends while both stay in the world, everything they had
\* is still theirs.  If anything changed hands the trade was closed on both sides
\* with an acceptance standing, each received exactly what the other still held of
\* his offer and nobody's gold was cut or wasted.
EndsFairly(p, q) ==
    LET gives == Given(p)
        takes == Given(q)
    IN  (/\ m_trade[p] # None /\ m_trade[p].trader = q
         /\ m_trade'[p] = None /\ {p, q} \subseteq online')
        => \/ UNCHANGED <<bag, money>>
           \/ /\ m_trade[p].accepted \/ m_trade[q].accepted
              /\ bag'[p] = (bag[p] \ gives) \cup takes
              /\ money'[p] = money[p] - m_trade[p].money + m_trade[q].money

TradesEndFairly == [][\A p, q \in Players: EndsFairly(p, q)]_vars

\* No item is in two bags: a player who comes back while saves are still waiting does
\* not find what he has given away.
OneHolder == \A p, q \in Players: p # q => bag[p] \cap bag[q] = {}

Total(f) == FoldFunction(LAMBDA x, y: x + y, 0, f)

\* The rows never show half an exchange: the gold of all players, spent gold
\* included, adds up at any moment a crash could make final, and what is in a bag
\* has a row.
TradesAreSavedWhole ==
    /\ Total(db.money) + Total(db.spent) = Total(InitialMoney)
    /\ \A p \in online: \A i \in bag[p]: db.owner[i] # None

=============================================================================
