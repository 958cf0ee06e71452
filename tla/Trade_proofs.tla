---------------------------- MODULE Trade_proofs -----------------------------
(***************************************************************************)
(* Theorems about Trade, for any finite set of players and items, and any  *)
(* bags, gold and number of slots: the windows of two players always       *)
(* belong together, an acceptance stands for the offers it was given for,  *)
(* a trade ends fairly, no item has two holders, and the rows in the       *)
(* database are never half an exchange.                                    *)
(*                                                                         *)
(* The last three need an invariant about the queue: Agrees(H) says how    *)
(* the databases H[0], H[1], ... H[Len(pending)] that the worker thread    *)
(* will produce, entry after entry, relate to what the players in the      *)
(* world hold.                                                             *)
(***************************************************************************)
EXTENDS Trade, DataFacts

Windows == [Players -> TradeDatas \cup {None}]

WindowsInv == m_trade \in Windows /\ TradesAreMutual

(* The same players trade with each other, whatever they offer.            *)
SamePartners(old, new) ==
    /\ new \in Windows
    /\ \A p \in Players : /\ new[p] = None <=> old[p] = None
                          /\ new[p] # None => new[p].trader = old[p].trader

-----------------------------------------------------------------------------
(* A window whose fields have their types is one.                          *)
LEMMA Fields ==
    ASSUME NEW d \in TradeDatas
    PROVE  /\ d # None /\ d.trader \in Players /\ d.accepted \in BOOLEAN /\ d.spell \in BOOLEAN
           /\ d.money \in 0..MAX_MONEY_AMOUNT /\ d.items \in [Slots -> Items \cup {None}]
           /\ \A b \in BOOLEAN : [d EXCEPT !.accepted = b] \in TradeDatas
           /\ \A b \in BOOLEAN : [d EXCEPT !.spell = b] \in TradeDatas
           /\ \A n \in 0..MAX_MONEY_AMOUNT : [d EXCEPT !.money = n] \in TradeDatas
           /\ \A t \in [Slots -> Items \cup {None}] : [d EXCEPT !.items = t] \in TradeDatas
           /\ \A b \in BOOLEAN : [d EXCEPT !.accepted = b].trader = d.trader
           /\ \A b \in BOOLEAN : [d EXCEPT !.spell = b].trader = d.trader
           /\ \A n \in 0..MAX_MONEY_AMOUNT : [d EXCEPT !.money = n].trader = d.trader
           /\ \A t \in [Slots -> Items \cup {None}] : [d EXCEPT !.items = t].trader = d.trader
BY NullAssumption DEF TradeDatas

(* One field of a window that is open changes.                             *)
LEMMA OneField ==
    ASSUME NEW old, NEW td, SamePartners(old, td), NEW p \in Players, NEW d \in TradeDatas,
           td[p] # None, d.trader = td[p].trader
    PROVE  SamePartners(old, [td EXCEPT ![p] = d])
<1>1. d # None
  BY Fields
<1>2. [td EXCEPT ![p] = d] \in Windows
  BY DEF SamePartners, Windows
<1>3. QED
  BY <1>1, <1>2 DEF SamePartners, Windows

(* Withdrawing acceptances keeps the partners.                             *)
LEMMA Unaccepted ==
    ASSUME NEW old, NEW td, SamePartners(old, td), NEW p \in Players, NEW q \in Players,
           old[p] # None, old[q] # None
    PROVE  SamePartners(old, Unaccept(p, q, td))
<1> DEFINE one == [td EXCEPT ![p] = [td[p] EXCEPT !.accepted = FALSE]]
<1>1. td[p] \in TradeDatas /\ td[p] # None
  BY DEF SamePartners, Windows
<1>2. SamePartners(old, one)
  BY <1>1, Fields, OneField
<1> HIDE DEF one
<1>3. one[q] \in TradeDatas /\ one[q] # None
  BY <1>2 DEF SamePartners, Windows
<1>4. SamePartners(old, [one EXCEPT ![q] = [one[q] EXCEPT !.accepted = FALSE]])
  BY <1>2, <1>3, Fields, OneField
<1>5. Unaccept(p, q, td) = [one EXCEPT ![q] = [one[q] EXCEPT !.accepted = FALSE]]
  BY <1>1 DEF Unaccept, one
<1>6. QED
  BY <1>4, <1>5

(* So does putting an item into a slot, or taking one out.                 *)
LEMMA ItemPut ==
    ASSUME m_trade \in Windows, NEW p \in Players, NEW q \in Players, p # q,
           m_trade[p] # None, m_trade[q] # None, NEW s \in Slots, NEW i \in Items \cup {None}
    PROVE  SamePartners(m_trade, PutItem(p, q, s, i))
<1> DEFINE t == [m_trade[p].items EXCEPT ![s] = i]
           one == [m_trade EXCEPT ![p] = [m_trade[p] EXCEPT !.items = t]]
           two == [one EXCEPT ![p] = [one[p] EXCEPT !.spell = FALSE]]
           three == [two EXCEPT ![q] = [two[q] EXCEPT !.spell = two[q].spell /\ s # NonTraded]]
<1>1. SamePartners(m_trade, m_trade) /\ m_trade[p] \in TradeDatas
  BY DEF SamePartners, Windows
<1>2. SamePartners(m_trade, one)
  <2>1. t \in [Slots -> Items \cup {None}]
    BY <1>1, Fields
  <2>2. QED
    BY <1>1, <2>1, Fields, OneField
<1>3. [m_trade EXCEPT ![p].items[s] = i, ![p].spell = FALSE,
                      ![q].spell = @ /\ s # NonTraded] = three
  <2>1. [m_trade EXCEPT ![p].items[s] = i] = one
    BY <1>1 DEF one, Windows
  <2>2. /\ [m_trade EXCEPT ![p].items[s] = i, ![p].spell = FALSE] = two
        /\ p \in DOMAIN one
    BY <1>1, <2>1 DEF two, Windows
  <2>3. two[q] = m_trade[q]
    BY <1>1 DEF one, two, Windows
  <2>4. QED
    BY <2>2, <2>3 DEF three
<1> HIDE DEF one, two, three, t
<1>4. one[p] \in TradeDatas /\ one[p] # None
  BY <1>2 DEF SamePartners, Windows
<1>5. SamePartners(m_trade, two)
  BY <1>2, <1>4, Fields, OneField DEF two
<1>6. two[q] \in TradeDatas /\ two[q] # None
  BY <1>5 DEF SamePartners, Windows
<1>7. SamePartners(m_trade, three)
  <2>1. (two[q].spell /\ s # NonTraded) \in BOOLEAN
    OBVIOUS
  <2>2. QED
    BY <1>5, <1>6, <2>1, Fields, OneField DEF three
<1>8. QED
  BY <1>3, <1>7, Unaccepted DEF PutItem

(* Windows that keep their partners stay mutual, whoever comes.            *)
LEMMA PartnersStay ==
    ASSUME WindowsInv, SamePartners(m_trade, m_trade'), online \subseteq online'
    PROVE  WindowsInv'
<1>1. ASSUME NEW p \in Players, m_trade'[p] # None
      PROVE  LET q == m_trade'[p].trader IN
             /\ {p, q} \subseteq online' /\ p # q
             /\ m_trade'[q] # None /\ m_trade'[q].trader = p
  <2> DEFINE q == m_trade[p].trader
  <2>1. m_trade[p] # None /\ m_trade'[p].trader = q /\ q \in Players
    BY <1>1, Fields DEF SamePartners, WindowsInv, Windows
  <2>2. {p, q} \subseteq online /\ p # q /\ m_trade[q] # None /\ m_trade[q].trader = p
    BY <2>1 DEF WindowsInv, TradesAreMutual
  <2>3. m_trade'[q] # None /\ m_trade'[q].trader = p
    BY <2>1, <2>2 DEF SamePartners
  <2>4. QED
    BY <2>1, <2>2, <2>3
<1>2. QED
  BY <1>1 DEF WindowsInv, TradesAreMutual, SamePartners

(* Two windows close together; the others stay, and so do their owners.    *)
LEMMA BothClose ==
    ASSUME WindowsInv, NEW p \in Players, m_trade[p] # None,
           m_trade' = [m_trade EXCEPT ![p] = None, ![m_trade[p].trader] = None],
           \A r \in online : r # p => r \in online'
    PROVE  WindowsInv'
<1> DEFINE q == m_trade[p].trader
<1>1. q \in Players /\ p # q /\ m_trade[q] # None /\ m_trade[q].trader = p
  BY Fields DEF WindowsInv, Windows, TradesAreMutual
<1>2. m_trade' \in Windows
  BY <1>1 DEF WindowsInv, Windows
<1>3. /\ m_trade'[p] = None /\ m_trade'[q] = None
      /\ \A r \in Players \ {p, q} : m_trade'[r] = m_trade[r]
  BY <1>1 DEF WindowsInv, Windows
<1>4. ASSUME NEW r \in Players, m_trade'[r] # None
      PROVE  LET x == m_trade'[r].trader IN
             /\ {r, x} \subseteq online' /\ r # x
             /\ m_trade'[x] # None /\ m_trade'[x].trader = r
  <2> DEFINE x == m_trade[r].trader
  <2>1. r \notin {p, q} /\ m_trade[r] # None /\ m_trade'[r] = m_trade[r] /\ x \in Players
    BY <1>3, <1>4, Fields DEF WindowsInv, Windows
  <2>2. {r, x} \subseteq online /\ r # x /\ m_trade[x] # None /\ m_trade[x].trader = r
    BY <2>1 DEF WindowsInv, TradesAreMutual
  <2>3. x \notin {p, q}
    BY <1>1, <2>1, <2>2
  <2>4. QED
    BY <1>3, <2>1, <2>2, <2>3
<1>5. QED
  BY <1>2, <1>4 DEF WindowsInv, TradesAreMutual

-----------------------------------------------------------------------------
(* A player who presses accept keeps his partner, as everybody does.       *)
LEMMA AcceptPressed ==
    ASSUME m_trade \in Windows, NEW p, NEW r
    PROVE  SamePartners(m_trade, Pressed(p, r))
<1>1. ASSUME NEW x \in Players, m_trade[x] # None
      PROVE  LET d == [m_trade[x] EXCEPT !.accepted = (@ \/ x = p) /\ x # r]
             IN  d \in TradeDatas /\ d # None /\ d.trader = m_trade[x].trader
  <2>1. m_trade[x] \in TradeDatas
    BY <1>1 DEF Windows
  <2>2. ((m_trade[x].accepted \/ x = p) /\ x # r) \in BOOLEAN
    OBVIOUS
  <2>3. QED
    BY <2>1, <2>2, Fields
<1>2. QED
  BY <1>1 DEF Pressed, SamePartners, Windows

(* HandleAcceptTradeOpcode.                                                *)
LEMMA AcceptNext ==
    ASSUME WindowsInv, NEW p \in Players, AcceptTrade(p)
    PROVE  WindowsInv'
<1> DEFINE q == m_trade[p].trader
<1>1. /\ m_trade[p] # None /\ m_trade \in Windows /\ q \in Players /\ m_trade[q] # None
      /\ SamePartners(m_trade, m_trade)
  BY Fields DEF AcceptTrade, Trading, WindowsInv, Windows, TradesAreMutual, SamePartners
<1>2. ASSUME SamePartners(m_trade, m_trade'), UNCHANGED online PROVE WindowsInv'
  BY <1>2, PartnersStay
<1>3. CASE AcceptRefused(p, q) \/ AcceptWaits(p, q)
  <2>1. UNCHANGED online /\ \E r : m_trade' = Pressed(p, r)
    BY <1>3 DEF AcceptRefused, AcceptWaits
  <2>2. QED
    BY <1>1, <1>2, <2>1, AcceptPressed
<1>4. CASE SpellFails(p, q)
  <2>1. PICK c \in {p, q} : m_trade' = Unaccept(p, q, [m_trade EXCEPT ![c].spell = FALSE])
    BY <1>4 DEF SpellFails
  <2>2. c \in Players /\ m_trade[c] \in TradeDatas /\ m_trade[c] # None
    BY <1>1, <2>1 DEF Windows
  <2>3. SamePartners(m_trade, [m_trade EXCEPT ![c] = [m_trade[c] EXCEPT !.spell = FALSE]])
    BY <1>1, <2>2, Fields, OneField
  <2>4. QED
    BY <1>1, <1>2, <1>4, <2>1, <2>3, Unaccepted DEF SpellFails
<1>5. CASE ItemsDoNotFit(p, q)
  BY <1>1, <1>2, <1>5, Unaccepted DEF ItemsDoNotFit
<1>6. CASE Exchange(p, q)
  BY <1>1, <1>6, BothClose DEF Exchange
<1>7. QED
  BY <1>3, <1>4, <1>5, <1>6 DEF AcceptTrade

(* The other handlers of the window.                                       *)
WindowStep(p) ==
    \/ \E s \in Slots : ClearTradeItem(p, s) \/ \E i \in Items : SetTradeItem(p, s, i)
    \/ \E gold \in 0..MAX_MONEY_AMOUNT : SetTradeGold(p, gold)
    \/ SetTradeSpell(p) \/ UnacceptTrade(p)
    \/ \E i \in Items : SetCount(p, i)

(* They change the offers and not the partners.                            *)
LEMMA WindowNext ==
    ASSUME WindowsInv, NEW p \in Players, WindowStep(p)
    PROVE  WindowsInv'
<1> DEFINE q == m_trade[p].trader
<1>1. m_trade \in Windows /\ SamePartners(m_trade, m_trade)
  BY DEF WindowsInv, SamePartners
<1>2. m_trade[p] # None => /\ q \in Players /\ p # q /\ m_trade[q] # None
                           /\ m_trade[p] \in TradeDatas
  BY Fields DEF WindowsInv, Windows, TradesAreMutual
<1>3. ASSUME SamePartners(m_trade, m_trade'), UNCHANGED online PROVE WindowsInv'
  BY <1>3, PartnersStay
<1>4. ASSUME NEW s \in Slots, ClearTradeItem(p, s) PROVE WindowsInv'
  BY <1>1, <1>2, <1>3, <1>4, ItemPut DEF ClearTradeItem, Trading
<1>5. ASSUME NEW s \in Slots, NEW i \in Items, SetTradeItem(p, s, i) PROVE WindowsInv'
  BY <1>1, <1>2, <1>3, <1>5, ItemPut DEF SetTradeItem, Trading
<1>6. ASSUME NEW gold \in 0..MAX_MONEY_AMOUNT, SetTradeGold(p, gold) PROVE WindowsInv'
  <2>1. /\ m_trade[p] # None /\ UNCHANGED online
        /\ m_trade' = Unaccept(p, q, [m_trade EXCEPT ![p] = [m_trade[p] EXCEPT !.money = gold]])
    BY <1>6 DEF SetTradeGold, Trading
  <2>2. SamePartners(m_trade, [m_trade EXCEPT ![p] = [m_trade[p] EXCEPT !.money = gold]])
    BY <1>1, <1>2, <2>1, Fields, OneField
  <2>3. QED
    BY <1>2, <1>3, <2>1, <2>2, Unaccepted
<1>7. CASE SetTradeSpell(p)
  <2>1. /\ m_trade[p] # None /\ UNCHANGED online
        /\ m_trade' = Unaccept(p, q, [m_trade EXCEPT ![p] = [m_trade[p] EXCEPT !.spell = TRUE]])
    BY <1>7 DEF SetTradeSpell, Trading
  <2>2. SamePartners(m_trade, [m_trade EXCEPT ![p] = [m_trade[p] EXCEPT !.spell = TRUE]])
    BY <1>1, <1>2, <2>1, Fields, OneField
  <2>3. QED
    BY <1>2, <1>3, <2>1, <2>2, Unaccepted
<1>8. CASE UnacceptTrade(p)
  <2>1. /\ m_trade[p] # None /\ UNCHANGED online
        /\ m_trade' = [m_trade EXCEPT ![p] = [m_trade[p] EXCEPT !.accepted = FALSE]]
    BY <1>8 DEF UnacceptTrade, Trading
  <2>2. QED
    BY <1>1, <1>2, <1>3, <2>1, Fields, OneField
<1>9. ASSUME NEW i \in Items, SetCount(p, i) PROVE WindowsInv'
  <2>1. CASE m_trade[p] = None \/ ~HasItem(p, i)
    BY <1>1, <1>3, <1>9, <2>1 DEF SetCount
  <2>2. CASE m_trade[p] # None /\ HasItem(p, i)
    <3> DEFINE s == CHOOSE s \in Slots : m_trade[p].items[s] = i
    <3>1. s \in Slots
      BY <2>2 DEF HasItem
    <3>2. m_trade' = PutItem(p, q, s, i) /\ UNCHANGED online
      BY <1>9, <2>2 DEF SetCount
    <3> HIDE DEF s
    <3>3. QED
      BY <1>1, <1>2, <1>3, <2>2, <3>1, <3>2, ItemPut
  <2>3. QED
    BY <2>1, <2>2
<1>10. QED
  BY <1>4, <1>5, <1>6, <1>7, <1>8, <1>9 DEF WindowStep

(* HandleInitiateTradeOpcode: neither player has a window yet.             *)
LEMMA InitiateNext ==
    ASSUME WindowsInv, NEW p \in Players, NEW q \in Players, Initiate(p, q)
    PROVE  WindowsInv'
<1>1. ASSUME NEW x \in Players
      PROVE  NewTrade(x) \in TradeDatas /\ NewTrade(x) # None /\ NewTrade(x).trader = x
  <2>1. 0 \in 0..MAX_MONEY_AMOUNT
    BY TradeAssumption
  <2>2. NewTrade(x) \in TradeDatas
    BY <2>1 DEF NewTrade, TradeDatas
  <2>3. QED
    BY <2>2, Fields DEF NewTrade
<1>2. /\ p # q /\ {p, q} \subseteq online /\ UNCHANGED online
      /\ m_trade[p] = None /\ m_trade[q] = None
      /\ m_trade' \in Windows
      /\ m_trade'[p] = NewTrade(q) /\ m_trade'[q] = NewTrade(p)
      /\ \A r \in Players \ {p, q} : m_trade'[r] = m_trade[r]
  BY <1>1 DEF Initiate, WindowsInv, Windows
<1>3. ASSUME NEW r \in Players \ {p, q}, m_trade[r] # None
      PROVE  m_trade[r].trader \in Players \ {p, q}
  BY <1>2, <1>3, Fields DEF WindowsInv, Windows, TradesAreMutual
<1>4. QED
  BY <1>1, <1>2, <1>3 DEF WindowsInv, TradesAreMutual

(* Every step keeps the windows mutual.                                    *)
LEMMA WindowsNext == WindowsInv /\ [Next]_vars => WindowsInv'
<1> SUFFICES ASSUME WindowsInv, [Next]_vars PROVE WindowsInv'
  OBVIOUS
<1>1. ASSUME UNCHANGED m_trade, online \subseteq online' PROVE WindowsInv'
  BY <1>1, PartnersStay DEF WindowsInv, SamePartners
<1>2. CASE UNCHANGED vars
  BY <1>1, <1>2 DEF vars
<1>3. ASSUME NEW p \in Players, CancelTrade(p) \/ LogoutPlayer(p) PROVE WindowsInv'
  <2>1. m_trade' = Closed(p) /\ \A r \in online : r # p => r \in online'
    BY <1>3 DEF CancelTrade, LogoutPlayer
  <2>2. CASE m_trade[p] # None
    BY <2>1, <2>2, BothClose DEF Closed
  <2>3. CASE m_trade[p] = None
    <3>1. m_trade' = m_trade
      BY <2>1, <2>3 DEF Closed
    <3>2. \A r \in Players : m_trade[r] # None => m_trade[r].trader # p /\ r # p
      BY <2>3 DEF WindowsInv, TradesAreMutual
    <3>3. QED
      BY <2>1, <3>1, <3>2 DEF WindowsInv, TradesAreMutual
  <2>4. QED
    BY <2>2, <2>3
<1>4. ASSUME NEW p \in Players, \/ \E i \in Items : DestroyItem(p, i)
                                \/ Spend(p) \/ SaveToDB(p) \/ PlayerLogin(p)
      PROVE  WindowsInv'
  BY <1>1, <1>4 DEF DestroyItem, Spend, SaveToDB, PlayerLogin
<1>5. CASE ExecuteTransaction \/ LoadPlayer
  BY <1>1, <1>5 DEF ExecuteTransaction, LoadPlayer, Enters
<1>6. CASE Crash
  BY <1>6 DEF Crash, WindowsInv, Windows, TradesAreMutual
<1>7. ASSUME NEW p \in Players, NEW q \in Players, Initiate(p, q) PROVE WindowsInv'
  BY <1>7, InitiateNext
<1>8. ASSUME NEW p \in Players, AcceptTrade(p) \/ WindowStep(p) PROVE WindowsInv'
  BY <1>8, AcceptNext, WindowNext
<1>9. QED
  BY <1>2, <1>3, <1>4, <1>5, <1>6, <1>7, <1>8 DEF Next, WindowStep

(* Whatever two players, their partners, the database and a crash do: a    *)
(* window always points to a player in the world whose window points back. *)
THEOREM WindowsAreMutual == Spec => []TradesAreMutual
<1>1. Init => WindowsInv
  BY DEF Init, WindowsInv, Windows, TradesAreMutual
<1>2. WindowsInv => TradesAreMutual
  BY DEF WindowsInv
<1>3. QED
  BY <1>1, <1>2, WindowsNext, PTL DEF Spec

-----------------------------------------------------------------------------
(* What is in the database, and what waits for it.                         *)
Image ==
    [bag: SUBSET Items, count: [Items -> 1..MaxStack], money: 0..MAX_MONEY_AMOUNT,
     spent: Nat, gone: SUBSET Items]

Entry == [load: Players \cup {None}, images: UNION {[S -> Image] : S \in SUBSET Players}]

Database ==
    [owner: [Items -> Players \cup {None}], count: [Items -> 1..MaxStack],
     money: [Players -> 0..MAX_MONEY_AMOUNT], spent: [Players -> Nat]]

After(d, e) == IF e.load = None THEN Written(d, e.images) ELSE d

(* H[k] is database d after the first k entries of queue q.                *)
IsReplay(H, d, q) ==
    /\ H \in [0..Len(q) -> Database]
    /\ H[0] = d
    /\ \A k \in 1..Len(q) : H[k] = After(H[k - 1], q[k])

-----------------------------------------------------------------------------
(* What a transaction with the images of the players of W makes of the     *)
(* rows of d.                                                              *)
RowsWritten(r, d, W, images) ==
    /\ r \in Database
    /\ \A i \in Items :
         \/ \E p \in W : i \in images[p].bag /\ r.owner[i] = p
         \/ /\ \A p \in W : i \notin images[p].bag
            /\ r.owner[i] = None
            /\ \E p \in W : i \in images[p].gone
         \/ /\ \A p \in W : i \notin images[p].bag \cup images[p].gone
            /\ r.owner[i] = d.owner[i]
    /\ \A p \in Players :
         /\ r.money[p] = IF p \in W THEN images[p].money ELSE d.money[p]
         /\ r.spent[p] = IF p \in W THEN images[p].spent ELSE d.spent[p]

(* One transaction of the queue, as Player::SaveToDB and the exchange fill *)
(* it: each of its items has one owner afterwards.                         *)
LEMMA WrittenRows ==
    ASSUME NEW d \in Database, NEW W \in SUBSET Players, NEW images \in [W -> Image]
    PROVE  RowsWritten(Written(d, images), d, W, images)
<1> DEFINE r == Written(d, images)
           D == DOMAIN images
           Holder(i) == CHOOSE p \in D : i \in images[p].bag
           OwnerOf(i) == IF \E p \in D : i \in images[p].bag THEN Holder(i)
                         ELSE IF \E p \in D : i \in images[p].gone THEN None
                         ELSE d.owner[i]
           CountOf(i) == IF \E p \in D : i \in images[p].bag
                         THEN images[Holder(i)].count[i] ELSE d.count[i]
<1>1. r = [owner |-> [i \in Items |-> OwnerOf(i)],
           count |-> [i \in Items |-> CountOf(i)],
           money |-> [p \in Players |-> IF p \in D THEN images[p].money ELSE d.money[p]],
           spent |-> [p \in Players |-> IF p \in D THEN images[p].spent ELSE d.spent[p]]]
  BY Zenon DEF Written
<1>2. D = W
  OBVIOUS
<1> HIDE DEF D
<1>3. \A p \in W : /\ images[p].bag \in SUBSET Items /\ images[p].gone \in SUBSET Items
                   /\ images[p].count \in [Items -> 1..MaxStack]
                   /\ images[p].money \in 0..MAX_MONEY_AMOUNT /\ images[p].spent \in Nat
  BY DEF Image
<1>4. /\ d.owner \in [Items -> Players \cup {None}] /\ d.count \in [Items -> 1..MaxStack]
      /\ d.money \in [Players -> 0..MAX_MONEY_AMOUNT] /\ d.spent \in [Players -> Nat]
  BY DEF Database
<1>5. ASSUME NEW i \in Items, \E p \in W : i \in images[p].bag
      PROVE  Holder(i) \in W /\ i \in images[Holder(i)].bag
  BY <1>2, <1>5
<1>6. ASSUME NEW i \in Items
      PROVE  /\ OwnerOf(i) \in Players \cup {None} /\ CountOf(i) \in 1..MaxStack
             /\ \/ \E p \in W : i \in images[p].bag /\ OwnerOf(i) = p
                \/ /\ \A p \in W : i \notin images[p].bag
                   /\ OwnerOf(i) = None
                   /\ \E p \in W : i \in images[p].gone
                \/ /\ \A p \in W : i \notin images[p].bag \cup images[p].gone
                   /\ OwnerOf(i) = d.owner[i]
  <2>1. CASE \E p \in W : i \in images[p].bag
    <3>1. OwnerOf(i) = Holder(i) /\ CountOf(i) = images[Holder(i)].count[i]
      BY <1>2, <2>1
    <3> HIDE DEF OwnerOf, CountOf, Holder
    <3>2. QED
      BY <1>3, <1>5, <2>1, <3>1
  <2>2. CASE ~\E p \in W : i \in images[p].bag
    <3>1. OwnerOf(i) = IF \E p \in W : i \in images[p].gone THEN None ELSE d.owner[i]
      BY <1>2, <2>2
    <3>2. CountOf(i) = d.count[i]
      BY <1>2, <2>2
    <3> HIDE DEF OwnerOf, CountOf, Holder
    <3>3. QED
      BY <1>4, <2>2, <3>1, <3>2
  <2>3. QED
    BY <2>1, <2>2
<1> HIDE DEF OwnerOf, CountOf, Holder, r
<1>7. r \in Database
  BY <1>1, <1>2, <1>3, <1>4, <1>6 DEF Database
<1>8. /\ \A i \in Items : r.owner[i] = OwnerOf(i)
      /\ \A p \in Players :
            /\ r.money[p] = IF p \in W THEN images[p].money ELSE d.money[p]
            /\ r.spent[p] = IF p \in W THEN images[p].spent ELSE d.spent[p]
  BY <1>1, <1>2
<1>9. QED
  BY <1>6, <1>7, <1>8 DEF RowsWritten, r

(* Whatever entry the worker thread takes, rows remain rows.               *)
LEMMA AfterIsDatabase ==
    ASSUME NEW d \in Database, NEW e \in Entry
    PROVE  After(d, e) \in Database
<1>1. PICK W \in SUBSET Players : e.images \in [W -> Image]
  BY DEF Entry
<1>2. QED
  BY <1>1, WrittenRows DEF After, RowsWritten

(* One entry more at the end of the queue is one database more.            *)
LEMMA ReplayLonger ==
    ASSUME NEW d, NEW q \in Seq(Entry), NEW H, IsReplay(H, d, q), NEW e \in Entry
    PROVE  LET G == [k \in 0..(Len(q) + 1) |-> IF k <= Len(q) THEN H[k] ELSE After(H[Len(q)], e)]
           IN  IsReplay(G, d, Append(q, e))
<1> DEFINE n == Len(q)
           G == [k \in 0..(n + 1) |-> IF k <= n THEN H[k] ELSE After(H[n], e)]
<1>1. n \in Nat /\ Len(Append(q, e)) = n + 1
      /\ \A k \in 1..(n + 1) : Append(q, e)[k] = IF k <= n THEN q[k] ELSE e
  OBVIOUS
<1>2. H \in [0..n -> Database] /\ H[0] = d
  BY DEF IsReplay
<1>3. After(H[n], e) \in Database
  BY <1>1, <1>2, AfterIsDatabase
<1> HIDE DEF n
<1>4. G \in [0..(n + 1) -> Database] /\ G[0] = d
  BY <1>1, <1>2, <1>3
<1>5. ASSUME NEW k \in 1..(n + 1) PROVE G[k] = After(G[k - 1], Append(q, e)[k])
  <2>1. CASE k <= n
    <3>1. G[k] = H[k] /\ G[k - 1] = H[k - 1] /\ k \in 1..n
      BY <1>1, <2>1
    <3>2. H[k] = After(H[k - 1], q[k])
      BY <3>1 DEF IsReplay, n
    <3>3. QED
      BY <1>1, <2>1, <3>1, <3>2
  <2>2. CASE k = n + 1
    BY <1>1, <2>2
  <2>3. QED
    BY <1>1, <2>1, <2>2
<1>6. QED
  BY <1>1, <1>4, <1>5 DEF IsReplay, n

(* The oldest entry taken, the first database goes.                        *)
LEMMA ReplayShorter ==
    ASSUME NEW d, NEW q \in Seq(Entry), q # << >>, NEW H, IsReplay(H, d, q)
    PROVE  LET G == [k \in 0..(Len(q) - 1) |-> H[k + 1]]
           IN  /\ IsReplay(G, After(d, Head(q)), Tail(q))
               /\ H[1] = After(d, Head(q))
<1> DEFINE n == Len(q)
           G == [k \in 0..(n - 1) |-> H[k + 1]]
<1>1. /\ n \in Nat \ {0} /\ Len(Tail(q)) = n - 1 /\ Head(q) = q[1]
      /\ \A k \in 1..(n - 1) : Tail(q)[k] = q[k + 1]
  BY HeadTailProperties, EmptySeq, LenProperties
<1>2. H \in [0..n -> Database] /\ H[0] = d /\ \A k \in 1..n : H[k] = After(H[k - 1], q[k])
  BY DEF IsReplay
<1> HIDE DEF n
<1>3. H[1] = After(d, Head(q))
  BY <1>1, <1>2, 1 \in 1..n, 1 - 1 = 0
<1>4. G \in [0..(n - 1) -> Database] /\ G[0] = After(d, Head(q))
  BY <1>1, <1>2, <1>3
<1>5. ASSUME NEW k \in 1..(n - 1) PROVE G[k] = After(G[k - 1], Tail(q)[k])
  <2>1. k + 1 \in 1..n /\ (k + 1) - 1 = k /\ G[k] = H[k + 1] /\ G[k - 1] = H[k]
    BY <1>1
  <2>2. H[k + 1] = After(H[(k + 1) - 1], q[k + 1])
    BY <1>2, <2>1
  <2>3. QED
    BY <1>1, <2>1, <2>2
<1>6. QED
  BY <1>1, <1>3, <1>4, <1>5 DEF IsReplay, n

-----------------------------------------------------------------------------
(* Nothing but the acceptance may differ.                                  *)
SameOffer(d, e) ==
    d.trader = e.trader /\ d.items = e.items /\ d.money = e.money /\ d.spell = e.spell

(* Windows stay as they are, but for acceptances, or close.                *)
Kept(td) == \A x \in Players : td[x] # None =>
    m_trade[x] # None /\ SameOffer(td[x], m_trade[x])

(* p or q has changed what he offers: neither acceptance stands.           *)
Reoffered(p, q, td) ==
    /\ \A x \in Players \ {p, q} : td[x] = m_trade[x]
    /\ \A x \in {p, q} :
        /\ m_trade[x] # None /\ td[x] # None /\ ~td[x].accepted
        /\ \/ td[x].items = m_trade[x].items
           \/ \E s \in Slots, i \in bag[x] \cup {None} :
                /\ td[x].items = [m_trade[x].items EXCEPT ![s] = i]
                /\ i = None \/ ~HasItem(x, i) \/ m_trade[x].items[s] = i

(* A window is opened.                                                     *)
Opened(p, q, td) ==
    /\ p # q /\ m_trade[p] = None /\ m_trade[q] = None
    /\ \A x \in Players \ {p, q} : td[x] = m_trade[x]
    /\ \A x \in {p, q} : \A s \in Slots : td[x].items[s] = None

(* What Unaccept leaves alone.                                             *)
LEMMA UnacceptEffect ==
    ASSUME NEW td \in Windows, NEW p \in Players, NEW q \in Players, p # q,
           td[p] # None, td[q] # None
    PROVE  LET u == Unaccept(p, q, td) IN
           /\ \A x \in Players \ {p, q} : u[x] = td[x]
           /\ \A x \in {p, q} : u[x] # None /\ ~u[x].accepted /\ SameOffer(u[x], td[x])
<1> DEFINE u == Unaccept(p, q, td)
<1>1. td[p] \in TradeDatas /\ td[q] \in TradeDatas
  BY DEF Windows
<1>2. u = [td EXCEPT ![p] = [td[p] EXCEPT !.accepted = FALSE],
                     ![q] = [td[q] EXCEPT !.accepted = FALSE]]
  BY <1>1 DEF Unaccept, Windows
<1>3. /\ u[p] = [td[p] EXCEPT !.accepted = FALSE] /\ u[q] = [td[q] EXCEPT !.accepted = FALSE]
      /\ \A x \in Players \ {p, q} : u[x] = td[x]
  BY <1>2 DEF Windows
<1> HIDE DEF u
<1>4. u[p] # None /\ u[q] # None
  BY <1>1, <1>3, Fields
<1>5. ASSUME NEW d \in TradeDatas
      PROVE  LET e == [d EXCEPT !.accepted = FALSE] IN ~e.accepted /\ SameOffer(e, d)
  BY DEF TradeDatas, SameOffer
<1>6. ASSUME NEW x \in {p, q} PROVE u[x] # None /\ ~u[x].accepted /\ SameOffer(u[x], td[x])
  <2>1. td[x] \in TradeDatas /\ u[x] = [td[x] EXCEPT !.accepted = FALSE]
    BY <1>1, <1>3
  <2>2. ~u[x].accepted /\ SameOffer(u[x], td[x])
    BY <1>5, <2>1
  <2>3. QED
    BY <1>4, <2>2
<1>7. QED
  BY <1>3, <1>6 DEF u

(* What putting an item into a slot, or taking it out, does.               *)
LEMMA PutItemEffect ==
    ASSUME m_trade \in Windows, NEW p \in Players, NEW q \in Players, p # q,
           m_trade[p] # None, m_trade[q] # None, NEW s \in Slots,
           NEW i \in bag[p] \cup {None}, bag[p] \subseteq Items,
           i = None \/ ~HasItem(p, i) \/ m_trade[p].items[s] = i
    PROVE  Reoffered(p, q, PutItem(p, q, s, i))
<1> DEFINE t == [m_trade[p].items EXCEPT ![s] = i]
           dp == [[m_trade[p] EXCEPT !.items = t] EXCEPT !.spell = FALSE]
           dq == [m_trade[q] EXCEPT !.spell = m_trade[q].spell /\ s # NonTraded]
           td == [m_trade EXCEPT ![p].items[s] = i, ![p].spell = FALSE,
                                 ![q].spell = @ /\ s # NonTraded]
<1>1. m_trade[p] \in TradeDatas /\ m_trade[q] \in TradeDatas
  BY DEF Windows
<1>2. t \in [Slots -> Items \cup {None}] /\ (m_trade[q].spell /\ s # NonTraded) \in BOOLEAN
  BY <1>1, Fields
<1>3. td[p] = dp /\ td[q] = dq /\ (\A x \in Players \ {p, q} : td[x] = m_trade[x])
      /\ DOMAIN td = Players
  <2>1. [m_trade EXCEPT ![p].items[s] = i] = [m_trade EXCEPT ![p] = [m_trade[p] EXCEPT !.items = t]]
    BY <1>1 DEF Windows
  <2>2. [m_trade EXCEPT ![p].items[s] = i, ![p].spell = FALSE] = [m_trade EXCEPT ![p] = dp]
    BY <1>1, <2>1 DEF Windows
  <2>3. td = [[m_trade EXCEPT ![p] = dp] EXCEPT ![q] = dq]
    BY <1>1, <2>2 DEF Windows
  <2>4. QED
    BY <2>3 DEF Windows
<1>4. dp \in TradeDatas /\ dq \in TradeDatas
  <2>1. [m_trade[p] EXCEPT !.items = t] \in TradeDatas
    BY <1>1, <1>2, Fields
  <2>2. QED
    BY <1>1, <1>2, <2>1, Fields
<1>5. dp.items = t /\ dq.items = m_trade[q].items
  BY <1>1, <1>2 DEF TradeDatas
<1>6. PutItem(p, q, s, i) = Unaccept(p, q, td)
  BY DEF PutItem
<1> HIDE DEF td, dp, dq
<1>7. td \in Windows /\ td[p] # None /\ td[q] # None
  <2>1. td \in [Players -> TradeDatas \cup {None}]
    <3>1. \A x \in Players : td[x] \in TradeDatas \cup {None}
      BY <1>3, <1>4 DEF Windows
    <3>2. td = [x \in Players |-> td[x]]
      BY <1>3 DEF td, Windows
    <3>3. QED
      BY <3>1, <3>2
  <2>2. QED
    BY <1>3, <1>4, <2>1, Fields DEF Windows
<1> DEFINE u == Unaccept(p, q, td)
<1>8. /\ \A x \in Players \ {p, q} : u[x] = m_trade[x]
      /\ \A x \in {p, q} : u[x] # None /\ ~u[x].accepted
      /\ u[p].items = t /\ u[q].items = m_trade[q].items
  BY <1>3, <1>5, <1>7, UnacceptEffect DEF SameOffer
<1> HIDE DEF u, t
<1>9. QED
  BY <1>6, <1>8 DEF Reoffered, u, t

-----------------------------------------------------------------------------
(* What the handlers of one window do to the offers.                       *)
LEMMA WindowEffect ==
    ASSUME WindowsInv, bag \in [Players -> SUBSET Items], NEW p \in Players, WindowStep(p)
    PROVE  Kept(m_trade') \/ Reoffered(p, m_trade[p].trader, m_trade')
<1> DEFINE q == m_trade[p].trader
<1>1. m_trade \in Windows /\ bag[p] \subseteq Items
  BY DEF WindowsInv
<1>2. m_trade[p] # None => /\ q \in Players /\ p # q /\ m_trade[q] # None
                           /\ m_trade[p] \in TradeDatas
  BY Fields DEF WindowsInv, Windows, TradesAreMutual
<1>3. ASSUME NEW s \in Slots, ClearTradeItem(p, s) PROVE Reoffered(p, q, m_trade')
  BY <1>1, <1>2, <1>3, PutItemEffect DEF ClearTradeItem, Trading
<1>4. ASSUME NEW s \in Slots, NEW i \in Items, SetTradeItem(p, s, i)
      PROVE  Reoffered(p, q, m_trade')
  BY <1>1, <1>2, <1>4, PutItemEffect DEF SetTradeItem, Trading
<1>5. ASSUME NEW d \in TradeDatas, m_trade[p] # None, d.items = m_trade[p].items,
             m_trade' = Unaccept(p, q, [m_trade EXCEPT ![p] = d])
      PROVE  Reoffered(p, q, m_trade')
  <2> DEFINE td == [m_trade EXCEPT ![p] = d]
  <2>1. td \in Windows /\ td[p] = d /\ \A x \in Players \ {p} : td[x] = m_trade[x]
    BY <1>1 DEF Windows
  <2>2. d # None /\ q \in Players /\ p # q /\ m_trade[q] # None
    BY <1>2, <1>5, Fields
  <2>3. m_trade' = Unaccept(p, q, td)
    BY <1>5
  <2> HIDE DEF td
  <2>4. /\ \A x \in Players \ {p, q} : m_trade'[x] = td[x]
        /\ \A x \in {p, q} : m_trade'[x] # None /\ ~m_trade'[x].accepted
                             /\ SameOffer(m_trade'[x], td[x])
    BY <1>5, <2>1, <2>2, <2>3, UnacceptEffect
  <2>5. /\ td[p].items = m_trade[p].items /\ td[q].items = m_trade[q].items
        /\ \A x \in Players \ {p, q} : td[x] = m_trade[x]
    BY <1>5, <2>1, <2>2
  <2>6. \A x \in {p, q} : m_trade'[x].items = m_trade[x].items /\ m_trade[x] # None
    BY <1>5, <2>2, <2>4, <2>5 DEF SameOffer
  <2>7. QED
    BY <2>4, <2>5, <2>6 DEF Reoffered
<1>6. ASSUME NEW gold \in 0..MAX_MONEY_AMOUNT, SetTradeGold(p, gold)
      PROVE  Reoffered(p, q, m_trade')
  <2>1. /\ m_trade[p] # None
        /\ m_trade' = Unaccept(p, q, [m_trade EXCEPT ![p] = [m_trade[p] EXCEPT !.money = gold]])
    BY <1>6 DEF SetTradeGold, Trading
  <2>2. [m_trade[p] EXCEPT !.money = gold] \in TradeDatas
        /\ [m_trade[p] EXCEPT !.money = gold].items = m_trade[p].items
    BY <1>2, <2>1, Fields DEF TradeDatas
  <2>3. QED
    BY <1>5, <2>1, <2>2
<1>7. CASE SetTradeSpell(p)
  <2>1. /\ m_trade[p] # None
        /\ m_trade' = Unaccept(p, q, [m_trade EXCEPT ![p] = [m_trade[p] EXCEPT !.spell = TRUE]])
    BY <1>7 DEF SetTradeSpell, Trading
  <2>2. [m_trade[p] EXCEPT !.spell = TRUE] \in TradeDatas
        /\ [m_trade[p] EXCEPT !.spell = TRUE].items = m_trade[p].items
    BY <1>2, <2>1, Fields DEF TradeDatas
  <2>3. QED
    BY <1>5, <2>1, <2>2
<1>8. CASE UnacceptTrade(p)
  <2>1. /\ m_trade[p] # None
        /\ m_trade' = [m_trade EXCEPT ![p] = [m_trade[p] EXCEPT !.accepted = FALSE]]
    BY <1>8 DEF UnacceptTrade, Trading
  <2>2. SameOffer(m_trade'[p], m_trade[p]) /\ \A x \in Players \ {p} : m_trade'[x] = m_trade[x]
    BY <1>1, <1>2, <2>1 DEF SameOffer, TradeDatas, Windows
  <2>3. QED
    BY <2>1, <2>2 DEF Kept, SameOffer
<1>9. ASSUME NEW i \in Items, SetCount(p, i)
      PROVE  Kept(m_trade') \/ Reoffered(p, q, m_trade')
  <2>1. CASE m_trade[p] = None \/ ~HasItem(p, i)
    BY <1>9, <2>1 DEF SetCount, Kept, SameOffer
  <2>2. CASE m_trade[p] # None /\ HasItem(p, i)
    <3> DEFINE s == CHOOSE s \in Slots : m_trade[p].items[s] = i
    <3>1. s \in Slots /\ m_trade[p].items[s] = i
      BY <2>2 DEF HasItem
    <3>2. m_trade' = PutItem(p, q, s, i) /\ i \in bag[p]
      BY <1>9, <2>2 DEF SetCount
    <3> HIDE DEF s
    <3>3. QED
      BY <1>1, <1>2, <2>2, <3>1, <3>2, PutItemEffect
  <2>3. QED
    BY <2>1, <2>2
<1>10. QED
  BY <1>3, <1>4, <1>6, <1>7, <1>8, <1>9 DEF WindowStep

-----------------------------------------------------------------------------
(* The acceptance p gives may be withdrawn at once, or the offers are      *)
(* asked again, or the windows close.                                      *)
LEMMA AcceptEffect ==
    ASSUME WindowsInv, NEW p \in Players, AcceptTrade(p)
    PROVE  Kept(m_trade') \/ Reoffered(p, m_trade[p].trader, m_trade')
<1> DEFINE q == m_trade[p].trader
<1>1. /\ m_trade \in Windows /\ m_trade[p] # None /\ m_trade[q] # None
      /\ q \in Players /\ p # q
  BY Fields DEF AcceptTrade, Trading, WindowsInv, Windows, TradesAreMutual
<1>2. ASSUME NEW r, m_trade' = Pressed(p, r) PROVE Kept(m_trade')
  <2>1. ASSUME NEW x \in Players, m_trade'[x] # None
        PROVE  m_trade[x] # None /\ SameOffer(m_trade'[x], m_trade[x])
    <3>1. m_trade[x] # None /\ m_trade'[x] = [m_trade[x] EXCEPT !.accepted = (@ \/ x = p) /\ x # r]
      BY <1>2, <2>1 DEF Pressed
    <3>2. m_trade[x] \in TradeDatas
      BY <1>1, <3>1 DEF Windows
    <3>3. QED
      BY <3>1, <3>2 DEF SameOffer, TradeDatas
  <2>2. QED
    BY <2>1 DEF Kept
<1>3. CASE AcceptRefused(p, q) \/ AcceptWaits(p, q)
  BY <1>2, <1>3 DEF AcceptRefused, AcceptWaits
<1>4. CASE SpellFails(p, q)
  <2>1. PICK c \in {p, q} : m_trade' = Unaccept(p, q, [m_trade EXCEPT ![c].spell = FALSE])
    BY <1>4 DEF SpellFails
  <2> DEFINE td == [m_trade EXCEPT ![c] = [m_trade[c] EXCEPT !.spell = FALSE]]
  <2>2. c \in Players /\ m_trade[c] \in TradeDatas
    BY <1>1, <2>1 DEF Windows
  <2>3. /\ [m_trade[c] EXCEPT !.spell = FALSE] \in TradeDatas
        /\ [m_trade[c] EXCEPT !.spell = FALSE] # None
        /\ [m_trade[c] EXCEPT !.spell = FALSE].items = m_trade[c].items
    <3> DEFINE d == m_trade[c]
    <3>1. d \in TradeDatas
      BY <2>2
    <3> HIDE DEF d
    <3>2. [d EXCEPT !.spell = FALSE] \in TradeDatas
      BY <3>1, Fields
    <3>3. [d EXCEPT !.spell = FALSE] # None
      BY <3>2, NullAssumption
    <3>4. [d EXCEPT !.spell = FALSE].items = d.items
      BY <3>1 DEF TradeDatas
    <3>5. QED
      BY <3>2, <3>3, <3>4 DEF d
  <2>4. /\ td \in Windows /\ td[p] # None /\ td[q] # None
        /\ td[p].items = m_trade[p].items /\ td[q].items = m_trade[q].items
        /\ \A x \in Players \ {p, q} : td[x] = m_trade[x]
    BY <1>1, <2>2, <2>3 DEF Windows
  <2>5. m_trade' = Unaccept(p, q, td)
    BY <2>1
  <2> HIDE DEF td
  <2>6. /\ \A x \in Players \ {p, q} : m_trade'[x] = td[x]
        /\ \A x \in {p, q} : m_trade'[x] # None /\ ~m_trade'[x].accepted
                             /\ SameOffer(m_trade'[x], td[x])
    BY <1>1, <2>4, <2>5, UnacceptEffect
  <2>7. \A x \in {p, q} : m_trade'[x].items = m_trade[x].items /\ m_trade[x] # None
    BY <1>1, <2>4, <2>6 DEF SameOffer
  <2>8. QED
    BY <2>4, <2>6, <2>7 DEF Reoffered
<1>5. CASE ItemsDoNotFit(p, q)
  <2>1. /\ \A x \in Players \ {p, q} : m_trade'[x] = m_trade[x]
        /\ \A x \in {p, q} : m_trade'[x] # None /\ ~m_trade'[x].accepted
                             /\ SameOffer(m_trade'[x], m_trade[x])
    BY <1>1, <1>5, UnacceptEffect DEF ItemsDoNotFit
  <2>2. QED
    BY <1>1, <2>1 DEF Reoffered, SameOffer
<1>6. CASE Exchange(p, q)
  BY <1>1, <1>6 DEF Exchange, Kept, SameOffer, Windows
<1>7. QED
  BY <1>3, <1>4, <1>5, <1>6 DEF AcceptTrade

(* Player::TradeCancel closes windows and leaves the others as they are.   *)
LEMMA ClosedIsKept ==
    ASSUME m_trade \in Windows, NEW p \in Players, m_trade' = Closed(p)
    PROVE  Kept(m_trade')
BY DEF Closed, Kept, SameOffer, Windows

-----------------------------------------------------------------------------
(* Whatever a step does to the windows, it is one of these.                *)
LEMMA WindowsChange ==
    ASSUME WindowsInv, bag \in [Players -> SUBSET Items], [Next]_vars
    PROVE  \/ Kept(m_trade')
           \/ \E p \in Players : /\ m_trade[p] # None
                                 /\ Reoffered(p, m_trade[p].trader, m_trade')
           \/ \E p, q \in Players : Opened(p, q, m_trade')
<1>1. m_trade \in Windows
  BY DEF WindowsInv
<1>2. ASSUME UNCHANGED m_trade PROVE Kept(m_trade')
  BY <1>2 DEF Kept, SameOffer
<1>3. ASSUME NEW p \in Players, Reoffered(p, m_trade[p].trader, m_trade')
      PROVE  m_trade[p] # None
  BY <1>3 DEF Reoffered
<1>4. ASSUME NEW p \in Players, NEW q \in Players, Initiate(p, q)
      PROVE  Opened(p, q, m_trade')
  <2>1. /\ \A x \in Players \ {p, q} : m_trade'[x] = m_trade[x]
        /\ p # q /\ m_trade[p] = None /\ m_trade[q] = None
        /\ m_trade'[p] = NewTrade(q) /\ m_trade'[q] = NewTrade(p)
    BY <1>1, <1>4 DEF Initiate, Windows
  <2>2. QED
    BY <2>1 DEF Opened, NewTrade
<1>5. ASSUME NEW p \in Players, AcceptTrade(p) \/ WindowStep(p)
      PROVE  Kept(m_trade') \/ Reoffered(p, m_trade[p].trader, m_trade')
  BY <1>5, AcceptEffect, WindowEffect
<1>6. ASSUME NEW p \in Players, CancelTrade(p) \/ LogoutPlayer(p) PROVE Kept(m_trade')
  BY <1>1, <1>6, ClosedIsKept DEF CancelTrade, LogoutPlayer
<1>7. ASSUME NEW p \in Players, \/ \E i \in Items : DestroyItem(p, i)
                                \/ Spend(p) \/ SaveToDB(p) \/ PlayerLogin(p)
      PROVE  Kept(m_trade')
  BY <1>2, <1>7 DEF DestroyItem, Spend, SaveToDB, PlayerLogin
<1>8. CASE ExecuteTransaction \/ LoadPlayer \/ UNCHANGED vars
  BY <1>2, <1>8 DEF ExecuteTransaction, LoadPlayer, vars
<1>9. CASE Crash
  BY <1>9 DEF Crash, Kept
<1>10. QED
  BY <1>3, <1>4, <1>5, <1>6, <1>7, <1>8, <1>9 DEF Next, WindowStep

-----------------------------------------------------------------------------
(* SetTradeItem refuses an item that is in the window already (HasItem).   *)
SlotsDiffer == \A p \in Players : m_trade[p] # None =>
    \A s, t \in Slots : m_trade[p].items[s] = m_trade[p].items[t]
                          => s = t \/ m_trade[p].items[s] = None

(* No item is put into two slots.                                          *)
LEMMA SlotsDifferNext ==
    ASSUME WindowsInv, bag \in [Players -> SUBSET Items], SlotsDiffer, [Next]_vars
    PROVE  SlotsDiffer'
<1>1. CASE Kept(m_trade')
  BY <1>1 DEF Kept, SameOffer, SlotsDiffer
<1>2. ASSUME NEW p \in Players, m_trade[p] # None, Reoffered(p, m_trade[p].trader, m_trade')
      PROVE  SlotsDiffer'
  <2> DEFINE q == m_trade[p].trader
  <2>1. q \in Players
    BY <1>2, Fields DEF WindowsInv, Windows
  <2>2. ASSUME NEW x \in {p, q}, NEW s \in Slots, NEW t \in Slots,
               m_trade'[x].items[s] = m_trade'[x].items[t]
        PROVE  s = t \/ m_trade'[x].items[s] = None
    <3>1. m_trade[x] # None /\ m_trade[x].items \in [Slots -> Items \cup {None}]
      BY <1>2, <2>1, Fields DEF Reoffered, WindowsInv, Windows
    <3>2. CASE m_trade'[x].items = m_trade[x].items
      BY <2>1, <2>2, <3>1, <3>2 DEF SlotsDiffer
    <3>3. ASSUME NEW u \in Slots, NEW i, m_trade'[x].items = [m_trade[x].items EXCEPT ![u] = i],
                 i = None \/ ~HasItem(x, i) \/ m_trade[x].items[u] = i
          PROVE  s = t \/ m_trade'[x].items[s] = None
      <4>1. /\ m_trade'[x].items[s] = IF s = u THEN i ELSE m_trade[x].items[s]
            /\ m_trade'[x].items[t] = IF t = u THEN i ELSE m_trade[x].items[t]
        BY <3>1, <3>3
      <4>2. \A v \in Slots : m_trade[x].items[v] = i => i = None \/ v = u
        BY <2>1, <3>1, <3>3 DEF HasItem, SlotsDiffer
      <4>3. m_trade[x].items[s] = m_trade[x].items[t] => s = t \/ m_trade[x].items[s] = None
        BY <2>1, <3>1 DEF SlotsDiffer
      <4>4. CASE s = u /\ t = u
        BY <4>4
      <4>5. CASE s = u /\ t # u
        <5>1. m_trade[x].items[t] = i /\ m_trade'[x].items[s] = i
          BY <2>2, <4>1, <4>5
        <5>2. QED
          BY <4>2, <4>5, <5>1
      <4>6. CASE s # u /\ t = u
        <5>1. m_trade[x].items[s] = i /\ m_trade'[x].items[s] = i
          BY <2>2, <4>1, <4>6
        <5>2. QED
          BY <4>2, <4>6, <5>1
      <4>7. CASE s # u /\ t # u
        BY <2>2, <4>1, <4>3, <4>7
      <4>8. QED
        BY <4>4, <4>5, <4>6, <4>7
    <3>4. \/ m_trade'[x].items = m_trade[x].items
          \/ \E u \in Slots, i \in bag[x] \cup {None} :
                /\ m_trade'[x].items = [m_trade[x].items EXCEPT ![u] = i]
                /\ i = None \/ ~HasItem(x, i) \/ m_trade[x].items[u] = i
      BY <1>2 DEF Reoffered
    <3>5. QED
      BY <3>2, <3>3, <3>4
  <2>3. ASSUME NEW x \in Players, m_trade'[x] # None, NEW s \in Slots, NEW t \in Slots,
               m_trade'[x].items[s] = m_trade'[x].items[t]
        PROVE  s = t \/ m_trade'[x].items[s] = None
    <3>1. CASE x \in {p, q}
      BY <2>2, <2>3, <3>1
    <3>2. CASE x \notin {p, q}
      <4>1. m_trade'[x] = m_trade[x]
        BY <1>2, <3>2 DEF Reoffered
      <4>2. QED
        BY <2>3, <4>1 DEF SlotsDiffer
    <3>3. QED
      BY <3>1, <3>2
  <2>4. QED
    BY <2>3 DEF SlotsDiffer
<1>3. ASSUME NEW p \in Players, NEW q \in Players, Opened(p, q, m_trade') PROVE SlotsDiffer'
  <2>1. ASSUME NEW x \in Players, m_trade'[x] # None, NEW s \in Slots, NEW r \in Slots,
               m_trade'[x].items[s] = m_trade'[x].items[r]
        PROVE  s = r \/ m_trade'[x].items[s] = None
    <3>1. CASE x \in {p, q}
      BY <1>3, <3>1 DEF Opened
    <3>2. CASE x \notin {p, q}
      <4>1. m_trade'[x] = m_trade[x]
        BY <1>3, <3>2 DEF Opened
      <4>2. QED
        BY <2>1, <4>1 DEF SlotsDiffer
    <3>3. QED
      BY <3>1, <3>2
  <2>2. QED
    BY <2>1 DEF SlotsDiffer
<1>4. QED
  BY <1>1, <1>2, <1>3, WindowsChange

-----------------------------------------------------------------------------
(* The items given are p's own.                                            *)
LEMMA GivenOwn ==
    ASSUME NEW p \in Players
    PROVE  Given(p) \subseteq bag[p]
BY DEF Given, GetItem

(* The gold of both is as the checks want it.                              *)
LEMMA NobodyRefused ==
    ASSUME NEW p \in Players, NEW q \in Players, RefusedFor(p, q) = None
    PROVE  /\ HasEnoughMoney(p) /\ HasEnoughMoney(q)
           /\ ~TooMuchGold(p, q) /\ ~TooMuchGold(q, p)
<1> DEFINE asked == <<p, q, p, q>>
           failed == <<~HasEnoughMoney(p), ~HasEnoughMoney(q),
                       TooMuchGold(p, q), TooMuchGold(q, p)>>
           n == {k \in 1..4: failed[k] /\ \A j \in 1..(k - 1): ~failed[j]}
<1>1. RefusedFor(p, q) = IF n = {} THEN None ELSE asked[CHOOSE k \in n: TRUE]
  BY DEF RefusedFor
<1>2. \A k \in 1..4 : asked[k] # None
  BY TradeAssumption
<1>3. n = {}
  <2>1. n # {} => (CHOOSE k \in n : TRUE) \in 1..4
    <3>1. n \subseteq 1..4
      OBVIOUS
    <3> HIDE DEF n
    <3>2. QED
      BY <3>1
  <2> HIDE DEF n, asked
  <2>2. QED
    BY <1>1, <1>2, <2>1
<1>4. ~failed[1] /\ ~failed[2] /\ ~failed[3] /\ ~failed[4]
  <2>1. \A k \in 1..4 : ~(failed[k] /\ \A j \in 1..(k - 1): ~failed[j])
    BY <1>3
  <2> HIDE DEF failed
  <2>2. ~failed[1]
    BY <2>1, 1 \in 1..4, 1..(1 - 1) = {}
  <2>3. ~failed[2]
    BY <2>1, <2>2, 2 \in 1..4, 1..(2 - 1) = {1}
  <2>4. ~failed[3]
    BY <2>1, <2>2, <2>3, 3 \in 1..4, 1..(3 - 1) = {1, 2}
  <2>5. ~failed[4]
    BY <2>1, <2>2, <2>3, <2>4, 4 \in 1..4, 1..(4 - 1) = {1, 2, 3}
  <2>6. QED
    BY <2>2, <2>3, <2>4, <2>5
<1>5. QED
  BY <1>4

(* So both pay and are paid in full.                                       *)
LEMMA PaidInFull ==
    ASSUME NEW m \in 0..MAX_MONEY_AMOUNT, NEW x \in 0..MAX_MONEY_AMOUNT,
           NEW y \in 0..MAX_MONEY_AMOUNT, m >= x, ~(m >= MAX_MONEY_AMOUNT - y)
    PROVE  /\ Credit(Debit(m, x), y) = m - x + y
           /\ m - x + y \in 0..MAX_MONEY_AMOUNT
BY TradeAssumption DEF Credit, Debit

(* moveItems moves all of both offers when they fit: the fallbacks of its  *)
(* loop are never taken.                                                   *)
LEMMA MovesAll ==
    ASSUME bag \in [Players -> SUBSET Items], NEW p \in Players, NEW q \in Players, p # q,
           EverythingFits(p, q)
    PROVE  MoveItems(p, q) = [mine |-> (bag[p] \ Given(p)) \cup Given(q),
                              his |-> (bag[q] \ Given(q)) \cup Given(p)]
<1> DEFINE Upto(r, n) == {GetItem(r, s) : s \in 1..n} \ {None}
           Step(g, s) ==
              IF s = 0
              THEN [mine |-> bag[p] \ Given(p), his |-> bag[q] \ Given(q)]
              ELSE LET b == g[s - 1]
                       my == GivenIn(p, s)
                       hi == GivenIn(q, s)
                       Stored(r, old, new) ==
                          IF Fits(r, old \cup new) THEN old \cup new ELSE old
                   IN  IF Fits(q, b.his \cup my) /\ Fits(p, b.mine \cup hi)
                       THEN [mine |-> b.mine \cup hi, his |-> b.his \cup my]
                       ELSE [mine |-> Stored(p, b.mine, my), his |-> Stored(q, b.his, hi)]
           Body(g) == [s \in 0..TradedSlots |-> Step(g, s)]
           it == CHOOSE g : g = Body(g)
           E == [s \in 0..TradedSlots |-> [mine |-> (bag[p] \ Given(p)) \cup Upto(q, s),
                                           his |-> (bag[q] \ Given(q)) \cup Upto(p, s)]]
<1>1. MoveItems(p, q) = it[TradedSlots]
  BY DEF MoveItems
<1>2. ASSUME NEW r \in {p, q}, NEW A,
             A \subseteq (bag[r] \ Given(r)) \cup Given(IF r = p THEN q ELSE p)
      PROVE  Fits(r, A)
  <2> DEFINE all == (bag[r] \ Given(r)) \cup Given(IF r = p THEN q ELSE p)
  <2>1. IsFiniteSet(all)
    <3>1. all \subseteq Items
      BY GivenOwn
    <3> HIDE DEF all
    <3>2. QED
      BY <3>1, FS_Subset, TradeAssumption
  <2>2. Cardinality(all) <= Capacity[r]
    BY <1>2 DEF EverythingFits, CanStoreItems, Fits
  <2>3. Cardinality(A) <= Cardinality(all) /\ Cardinality(A) \in Nat /\ Cardinality(all) \in Nat
    BY <1>2, <2>1, FS_Subset, FS_CardinalityType
  <2>4. Capacity[r] \in Nat
    BY TradeAssumption
  <2> HIDE DEF all
  <2>5. QED
    BY <2>2, <2>3, <2>4 DEF Fits
<1>3. \A r \in Players, n \in 0..TradedSlots : Upto(r, n) \subseteq Given(r)
  BY TradeAssumption DEF Given
<1>4. ASSUME NEW s \in 0..TradedSlots, s # 0
      PROVE  /\ s - 1 \in 0..TradedSlots
             /\ \A r \in Players : Upto(r, s - 1) \cup GivenIn(r, s) = Upto(r, s)
  <2>1. s - 1 \in 0..TradedSlots /\ 1..s = (1..(s - 1)) \cup {s}
    BY <1>4, TradeAssumption
  <2>2. QED
    BY <2>1 DEF GivenIn
<1>5. ASSUME NEW s \in 0..TradedSlots, s # 0, NEW b, b = E[s - 1]
      PROVE  /\ E[s] = [mine |-> b.mine \cup GivenIn(q, s), his |-> b.his \cup GivenIn(p, s)]
             /\ Fits(q, b.his \cup GivenIn(p, s)) /\ Fits(p, b.mine \cup GivenIn(q, s))
  <2>1. /\ b.mine = (bag[p] \ Given(p)) \cup Upto(q, s - 1)
        /\ b.his = (bag[q] \ Given(q)) \cup Upto(p, s - 1)
    BY <1>4, <1>5
  <2>2. /\ b.mine \cup GivenIn(q, s) = (bag[p] \ Given(p)) \cup Upto(q, s)
        /\ b.his \cup GivenIn(p, s) = (bag[q] \ Given(q)) \cup Upto(p, s)
    <3> HIDE DEF Upto, E
    <3>1. QED
      BY <1>4, <1>5, <2>1
  <2>3. E[s] = [mine |-> b.mine \cup GivenIn(q, s), his |-> b.his \cup GivenIn(p, s)]
    <3>1. E[s] = [mine |-> (bag[p] \ Given(p)) \cup Upto(q, s),
                  his |-> (bag[q] \ Given(q)) \cup Upto(p, s)]
      OBVIOUS
    <3> HIDE DEF Upto, E
    <3>2. QED
      BY <2>2, <3>1
  <2>4. /\ b.mine \cup GivenIn(q, s) \subseteq (bag[p] \ Given(p)) \cup Given(q)
        /\ b.his \cup GivenIn(p, s) \subseteq (bag[q] \ Given(q)) \cup Given(p)
    <3> HIDE DEF Upto, E
    <3>1. QED
      BY <1>3, <2>2
  <2>5. QED
    BY <1>2, <2>3, <2>4
<1>6. E = Body(E)
  <2>1. ASSUME NEW s \in 0..TradedSlots PROVE E[s] = Body(E)[s]
    <3>1. CASE s = 0
      <4>1. Upto(p, 0) = {} /\ Upto(q, 0) = {}
        OBVIOUS
      <4>2. Body(E)[s] = [mine |-> bag[p] \ Given(p), his |-> bag[q] \ Given(q)]
        BY <3>1
      <4>3. E[s] = [mine |-> (bag[p] \ Given(p)) \cup Upto(q, 0),
                    his |-> (bag[q] \ Given(q)) \cup Upto(p, 0)]
        BY <3>1
      <4> HIDE DEF Upto, E, Body
      <4>4. QED
        BY <4>1, <4>2, <4>3
    <3>2. CASE s # 0
      <4> DEFINE b == E[s - 1]
                 fits == Fits(q, b.his \cup GivenIn(p, s)) /\ Fits(p, b.mine \cup GivenIn(q, s))
                 both == [mine |-> b.mine \cup GivenIn(q, s), his |-> b.his \cup GivenIn(p, s)]
      <4>1. fits => Step(E, s) = both
        BY <3>2, Zenon
      <4>2. Body(E)[s] = Step(E, s)
        OBVIOUS
      <4> HIDE DEF E, Body, Step
      <4>3. E[s] = both /\ fits
        BY <1>5, <3>2
      <4> HIDE DEF fits, both
      <4>4. QED
        BY <4>1, <4>2, <4>3
    <3>3. QED
      BY <3>1, <3>2
  <2>2. QED
    BY <2>1
<1>7. it = Body(it)
  BY <1>6, Zenon
<1> DEFINE N == {n \in Nat : n \in 0..TradedSlots => it[n] = E[n]}
<1>8. 0 \in N
  <2>1. it[0] = Body(it)[0] /\ E[0] = Body(E)[0]
    BY <1>6, <1>7, Zenon
  <2>2. 0 \in 0..TradedSlots
    BY TradeAssumption
  <2>3. Body(it)[0] = Body(E)[0]
    <3> DEFINE base == [mine |-> bag[p] \ Given(p), his |-> bag[q] \ Given(q)]
    <3>1. ASSUME NEW h PROVE Step(h, 0) = base
      BY Zenon
    <3> HIDE DEF Step, base
    <3>2. ASSUME NEW h PROVE Body(h)[0] = Step(h, 0)
      BY <2>2, Zenon
    <3>3. Step(it, 0) = base /\ Step(E, 0) = base
      BY <3>1
    <3>4. Body(it)[0] = Step(it, 0)
      BY <3>2
    <3>5. Body(E)[0] = Step(E, 0)
      BY <3>2
    <3> HIDE DEF Body, it, E
    <3>6. QED
      BY <3>3, <3>4, <3>5
  <2> HIDE DEF it, E, Body
  <2>4. QED
    BY <2>1, <2>3
<1>9. ASSUME NEW n \in Nat, n \in N PROVE n + 1 \in N
  <2> SUFFICES ASSUME n + 1 \in 0..TradedSlots PROVE it[n + 1] = E[n + 1]
    <3> HIDE DEF it, E
    <3>1. QED
      OBVIOUS
  <2>1. it[n] = E[n] /\ (n + 1) - 1 = n /\ n + 1 # 0
    <3> HIDE DEF it, E
    <3>1. QED
      BY <1>9, TradeAssumption
  <2>2. it[n + 1] = Body(it)[n + 1] /\ E[n + 1] = Body(E)[n + 1]
    BY <1>6, <1>7, Zenon
  <2> HIDE DEF it, E
  <2>3. Body(it)[n + 1] = Body(E)[n + 1]
    BY <2>1, Zenon
  <2> HIDE DEF Body
  <2>4. QED
    BY <2>2, <2>3
<1> HIDE DEF N
<1>10. TradedSlots \in N
  BY <1>8, <1>9, NatSetInduction, TradeAssumption
<1>11. it[TradedSlots] = E[TradedSlots] /\ TradedSlots \in 0..TradedSlots
  BY <1>10, TradeAssumption DEF N
<1>12. Upto(p, TradedSlots) = Given(p) /\ Upto(q, TradedSlots) = Given(q)
  BY DEF Given
<1>13. MoveItems(p, q) = it[TradedSlots]
  BY DEF MoveItems
<1> HIDE DEF it, Upto
<1>14. QED
  BY <1>11, <1>12, <1>13

-----------------------------------------------------------------------------
(* Types, of the queue and of all rows too.                                *)
TypeInv ==
    /\ TypeOK
    /\ db \in Database
    /\ pending \in Seq(Entry)

(* What Saving puts into the queue.                                        *)
LEMMA SavingEntry ==
    ASSUME TypeInv, NEW W \in SUBSET Players, NEW b \in [Players -> SUBSET Items],
           NEW m \in [Players -> 0..MAX_MONEY_AMOUNT]
    PROVE  LET e == Saving(W, b, m) IN
           /\ e \in Entry /\ e.load = None
           /\ e.images \in [W -> Image]
           /\ \A p \in W : /\ e.images[p].bag = b[p] /\ e.images[p].gone = gone[p]
                           /\ e.images[p].money = m[p] /\ e.images[p].spent = spent[p]
<1> DEFINE e == Saving(W, b, m)
<1>1. /\ e.load = None
      /\ e.images = [p \in W |-> [bag |-> b[p], count |-> count, money |-> m[p],
                                  spent |-> spent[p], gone |-> gone[p]]]
      /\ e = [load |-> e.load, images |-> e.images]
  BY DEF Saving
<1>2. ASSUME NEW p \in W
      PROVE  [bag |-> b[p], count |-> count, money |-> m[p],
              spent |-> spent[p], gone |-> gone[p]] \in Image
  BY DEF Image, TypeInv, TypeOK
<1> HIDE DEF e
<1>3. e.images \in [W -> Image]
  BY <1>1, <1>2
<1>4. e \in Entry
  BY <1>1, <1>3 DEF Entry
<1>5. QED
  BY <1>1, <1>3, <1>4 DEF e

(* What HandlePlayerLoginOpcode puts into the queue.                       *)
LEMMA LoadingEntry ==
    ASSUME NEW p \in Players
    PROVE  Loading(p) \in Entry /\ Loading(p).load = p
<1>1. <<>> \in [{} -> Image]
  OBVIOUS
<1>2. QED
  BY <1>1 DEF Loading, Entry

-----------------------------------------------------------------------------
(* What an exchange does: both give and take all of their offers, in one   *)
(* transaction.                                                            *)
Swapped(p, q, b, m) ==
    /\ b \in [Players -> SUBSET Items] /\ m \in [Players -> 0..MAX_MONEY_AMOUNT]
    /\ b[p] = (bag[p] \ Given(p)) \cup Given(q)
    /\ b[q] = (bag[q] \ Given(q)) \cup Given(p)
    /\ m[p] = money[p] - m_trade[p].money + m_trade[q].money
    /\ m[q] = money[q] - m_trade[q].money + m_trade[p].money
    /\ \A x \in Players \ {p, q} : b[x] = bag[x] /\ m[x] = money[x]

(* The end of HandleAcceptTradeOpcode is such an exchange.                 *)
LEMMA ExchangeEffect ==
    ASSUME TypeInv, WindowsInv, NEW p \in Players, m_trade[p] # None,
           Exchange(p, m_trade[p].trader)
    PROVE  LET q == m_trade[p].trader IN
           /\ Swapped(p, q, bag', money')
           /\ pending' = Append(pending, Saving({p, q}, bag', money'))
<1> DEFINE q == m_trade[p].trader
<1>1. /\ q \in Players /\ p # q /\ m_trade[q] # None /\ m_trade[q].trader = p
      /\ m_trade[p] \in TradeDatas /\ m_trade[q] \in TradeDatas
  BY Fields DEF WindowsInv, Windows, TradesAreMutual
<1> HIDE DEF q
<1> DEFINE mp == m_trade[p].money
           mq == m_trade[q].money
           moved == MoveItems(p, q)
           b == [bag EXCEPT ![p] = moved.mine, ![q] = moved.his]
           m == [money EXCEPT ![p] = Credit(Debit(money[p], mp), mq),
                              ![q] = Credit(Debit(money[q], mq), mp)]
<1>2. /\ bag' = b /\ money' = m
      /\ pending' = pending \o SaveExchange(p, q, b, m)
      /\ RefusedFor(p, q) = None /\ EverythingFits(p, q)
  BY DEF Exchange, BothAccept, q
<1>3. mp \in 0..MAX_MONEY_AMOUNT /\ mq \in 0..MAX_MONEY_AMOUNT
  BY <1>1, Fields
<1>4. /\ bag \in [Players -> SUBSET Items] /\ money \in [Players -> 0..MAX_MONEY_AMOUNT]
  BY DEF TypeInv, TypeOK
<1>5. /\ moved.mine = (bag[p] \ Given(p)) \cup Given(q)
      /\ moved.his = (bag[q] \ Given(q)) \cup Given(p)
  BY <1>1, <1>2, <1>4, MovesAll
<1>6. /\ Credit(Debit(money[p], mp), mq) = money[p] - mp + mq
      /\ Credit(Debit(money[q], mq), mp) = money[q] - mq + mp
      /\ money[p] - mp + mq \in 0..MAX_MONEY_AMOUNT
      /\ money[q] - mq + mp \in 0..MAX_MONEY_AMOUNT
  <2>1. /\ money[p] >= mp /\ money[q] >= mq
        /\ ~(money[p] >= MAX_MONEY_AMOUNT - mq) /\ ~(money[q] >= MAX_MONEY_AMOUNT - mp)
    BY <1>1, <1>2, NobodyRefused DEF HasEnoughMoney, TooMuchGold
  <2>2. money[p] \in 0..MAX_MONEY_AMOUNT /\ money[q] \in 0..MAX_MONEY_AMOUNT
    BY <1>1, <1>4
  <2> HIDE DEF mp, mq
  <2>3. QED
    BY <1>3, <2>1, <2>2, PaidInFull
<1>7. Given(p) \subseteq bag[p] /\ Given(q) \subseteq bag[q]
  BY <1>1, GivenOwn
<1>8. moved.mine \subseteq Items /\ moved.his \subseteq Items
  BY <1>1, <1>4, <1>5, <1>7
<1> HIDE DEF moved
<1>9. /\ b \in [Players -> SUBSET Items] /\ b[p] = moved.mine /\ b[q] = moved.his
      /\ \A x \in Players \ {p, q} : b[x] = bag[x]
  BY <1>1, <1>4, <1>8
<1>10. /\ m \in [Players -> 0..MAX_MONEY_AMOUNT]
       /\ m[p] = money[p] - mp + mq /\ m[q] = money[q] - mq + mp
       /\ \A x \in Players \ {p, q} : m[x] = money[x]
  <2> HIDE DEF mp, mq
  <2>1. QED
    BY <1>1, <1>4, <1>6
<1>11. pending' = Append(pending, Saving({p, q}, b, m))
  <2> HIDE DEF b, m
  <2>1. pending' = pending \o <<Saving({p, q}, b, m)>>
    BY <1>2 DEF SaveExchange
  <2>2. pending \in Seq(Entry)
    BY DEF TypeInv
  <2>3. QED
    BY <2>1, <2>2
<1> HIDE DEF b, m
<1>12. Swapped(p, q, bag', money')
  BY <1>2, <1>5, <1>9, <1>10 DEF Swapped
<1>13. QED
  BY <1>2, <1>11, <1>12 DEF q

-----------------------------------------------------------------------------
(* Everything but the windows.                                             *)
RestTyped ==
    /\ online \subseteq Players
    /\ bag \in [Players -> SUBSET Items]
    /\ gone \in [Players -> SUBSET Items]
    /\ count \in [Items -> 1..MaxStack]
    /\ money \in [Players -> 0..MAX_MONEY_AMOUNT]
    /\ spent \in [Players -> Nat]
    /\ db \in Database
    /\ pending \in Seq(Entry)
    /\ trades \in 0..MaxTrades /\ mishaps \in 0..MaxMishaps

(* The types of the windows apart from those of the rest.                  *)
LEMMA TypeParts == TypeInv <=> RestTyped /\ m_trade \in Windows /\ SlotsDiffer
<1>1. db \in Database => db.owner \in [Items -> Players \cup {None}]
  BY DEF Database
<1>2. QED
  BY <1>1, Zenon DEF TypeInv, TypeOK, RestTyped, Windows, SlotsDiffer

(* Handlers that touch nothing but the windows.                            *)
LEMMA WindowTypes ==
    ASSUME RestTyped, UNCHANGED <<online, inventory, db, pending, bounds>>
    PROVE  RestTyped'
BY DEF RestTyped, inventory, bounds

(* HandleAcceptTradeOpcode keeps the types: no gold is paid that is not    *)
(* there, and none beyond the limit.                                       *)
LEMMA AcceptTypes ==
    ASSUME TypeInv, WindowsInv, NEW p \in Players, AcceptTrade(p)
    PROVE  RestTyped'
<1> DEFINE q == m_trade[p].trader
<1>1. RestTyped
  BY TypeParts, Zenon
<1>2. CASE Exchange(p, q)
  <2>1. m_trade[p] # None /\ q \in Players
    BY Fields DEF AcceptTrade, Trading, WindowsInv, Windows
  <2>2. Swapped(p, q, bag', money') /\ pending' = Append(pending, Saving({p, q}, bag', money'))
    BY <1>2, <2>1, ExchangeEffect
  <2>3. bag' \in [Players -> SUBSET Items] /\ money' \in [Players -> 0..MAX_MONEY_AMOUNT]
    BY <2>2 DEF Swapped
  <2>4. Saving({p, q}, bag', money') \in Entry
    BY <2>1, <2>3, SavingEntry
  <2>5. pending' \in Seq(Entry)
    BY <1>1, <2>2, <2>4 DEF RestTyped
  <2>6. gone' \in [Players -> SUBSET Items]
    BY <1>1, <1>2 DEF Exchange, Cleaned, RestTyped
  <2>7. QED
    BY <1>1, <1>2, <2>3, <2>5, <2>6 DEF Exchange, RestTyped, bounds
<1>3. CASE AcceptRefused(p, q) \/ AcceptWaits(p, q) \/ SpellFails(p, q) \/ ItemsDoNotFit(p, q)
  BY <1>1, <1>3, WindowTypes DEF AcceptRefused, AcceptWaits, SpellFails, ItemsDoNotFit
<1>4. QED
  BY <1>2, <1>3 DEF AcceptTrade

(* So do the saves.                                                        *)
LEMMA SaveTypes ==
    ASSUME TypeInv, NEW p \in Players, SaveToDB(p) \/ LogoutPlayer(p)
    PROVE  RestTyped'
<1>1. RestTyped /\ Saving({p}, bag, money) \in Entry
  BY SavingEntry, TypeParts DEF RestTyped
<1>2. /\ pending' = Append(pending, Saving({p}, bag, money)) /\ gone' = Cleaned({p})
      /\ bag' = bag \/ bag' = [bag EXCEPT ![p] = {}]
      /\ online' = online \/ online' = online \ {p}
      /\ trades' = trades
      /\ mishaps' = mishaps \/ (mishaps < MaxMishaps /\ mishaps' = mishaps + 1)
  BY DEF SaveToDB, LogoutPlayer, Behind, bounds
<1>3. pending' \in Seq(Entry) /\ gone' \in [Players -> SUBSET Items]
  BY <1>1, <1>2 DEF RestTyped, Cleaned
<1>4. UNCHANGED <<count, money, spent, db>>
  BY DEF SaveToDB, LogoutPlayer
<1>5. bag' \in [Players -> SUBSET Items] /\ mishaps' \in 0..MaxMishaps
  <2>1. mishaps \in 0..MaxMishaps /\ MaxMishaps \in Nat
    BY <1>1, TradeAssumption DEF RestTyped
  <2>2. mishaps' \in 0..MaxMishaps
    BY <1>2, <2>1
  <2>3. QED
    BY <1>1, <1>2, <2>2 DEF RestTyped
<1>6. QED
  BY <1>1, <1>2, <1>3, <1>4, <1>5 DEF RestTyped

(* So do the worker thread, a login and a crash.                           *)
LEMMA DatabaseTypes ==
    ASSUME TypeInv, \/ ExecuteTransaction \/ LoadPlayer \/ Crash
                    \/ \E p \in Players : PlayerLogin(p)
    PROVE  RestTyped'
<1>1. RestTyped
  BY TypeParts
<1>2. pending # <<>> => Head(pending) \in Entry /\ Tail(pending) \in Seq(Entry)
  BY <1>1 DEF RestTyped
<1>3. CASE ExecuteTransaction
  <2>1. db' = After(db, Head(pending)) /\ pending' = Tail(pending)
        /\ UNCHANGED <<online, bag, gone, count, money, spent, trades, mishaps>>
        /\ pending # <<>>
    BY <1>3 DEF ExecuteTransaction, After, inventory, bounds
  <2>2. db' \in Database
    BY <1>1, <1>2, <2>1, AfterIsDatabase DEF RestTyped
  <2>3. QED
    BY <1>1, <1>2, <2>1, <2>2 DEF RestTyped
<1>4. CASE LoadPlayer
  <2> DEFINE p == Head(pending).load
  <2>1. p \in Players
    BY <1>2, <1>4 DEF LoadPlayer, Entry
  <2>2. /\ online' = online \cup {p}
        /\ bag' = [bag EXCEPT ![p] = {i \in Items : db.owner[i] = p}]
        /\ count' = [i \in Items |-> IF db.owner[i] = p THEN db.count[i] ELSE count[i]]
        /\ money' = [money EXCEPT ![p] = db.money[p]]
        /\ spent' = [spent EXCEPT ![p] = db.spent[p]]
        /\ pending' = Tail(pending) /\ pending # <<>>
        /\ UNCHANGED <<gone, db, trades, mishaps>>
    BY <1>4 DEF LoadPlayer, Enters, bounds
  <2> HIDE DEF p
  <2>3. db.count \in [Items -> 1..MaxStack] /\ db.money \in [Players -> 0..MAX_MONEY_AMOUNT]
        /\ db.spent \in [Players -> Nat]
    BY <1>1 DEF RestTyped, Database
  <2>4. bag' \in [Players -> SUBSET Items] /\ count' \in [Items -> 1..MaxStack]
        /\ money' \in [Players -> 0..MAX_MONEY_AMOUNT] /\ spent' \in [Players -> Nat]
    BY <1>1, <2>1, <2>2, <2>3 DEF RestTyped
  <2>5. QED
    BY <1>1, <1>2, <2>1, <2>2, <2>4 DEF RestTyped
<1>5. CASE Crash
  BY <1>1, <1>5, TradeAssumption DEF Crash, RestTyped
<1>6. ASSUME NEW p \in Players, PlayerLogin(p) PROVE RestTyped'
  <2>1. pending' = Append(pending, Loading(p)) /\ Loading(p) \in Entry
    BY <1>6, LoadingEntry DEF PlayerLogin, Behind
  <2>2. pending' \in Seq(Entry)
    BY <1>1, <2>1 DEF RestTyped
  <2>3. QED
    BY <1>1, <1>6, <2>2 DEF PlayerLogin, RestTyped, inventory, bounds
<1>7. QED
  BY <1>3, <1>4, <1>5, <1>6

(* Every step keeps all types.                                             *)
LEMMA TypesNext ==
    ASSUME TypeInv, WindowsInv, [Next]_vars
    PROVE  TypeInv'
<1>1. m_trade' \in Windows
  BY WindowsNext DEF WindowsInv
<1>2. SlotsDiffer'
  BY TypeParts, SlotsDifferNext DEF RestTyped
<1>3. RestTyped
  BY TypeParts
<1>4. RestTyped'
  <2>1. CASE UNCHANGED vars
    BY <1>3, <2>1, WindowTypes DEF vars
  <2>2. ASSUME NEW p \in Players, NEW q \in Players, Initiate(p, q) PROVE RestTyped'
    BY <1>3, <2>2, TradeAssumption DEF Initiate, RestTyped, inventory
  <2>3. ASSUME NEW p \in Players,
               \/ \E s \in Slots : ClearTradeItem(p, s) \/ \E i \in Items : SetTradeItem(p, s, i)
               \/ \E gold \in 0..MAX_MONEY_AMOUNT : SetTradeGold(p, gold)
               \/ SetTradeSpell(p) \/ UnacceptTrade(p) \/ CancelTrade(p)
        PROVE  RestTyped'
    BY <1>3, <2>3, WindowTypes
       DEF ClearTradeItem, SetTradeItem, SetTradeGold, SetTradeSpell, UnacceptTrade, CancelTrade
  <2>4. ASSUME NEW p \in Players, NEW i \in Items, DestroyItem(p, i) PROVE RestTyped'
    BY <1>3, <2>4, TradeAssumption DEF DestroyItem, RestTyped
  <2>5. ASSUME NEW p \in Players, NEW i \in Items, SetCount(p, i) PROVE RestTyped'
    <3>1. /\ count' = [count EXCEPT ![i] = @ - 1] /\ count[i] > 1
          /\ mishaps < MaxMishaps /\ mishaps' = mishaps + 1
          /\ UNCHANGED <<online, bag, money, spent, gone, db, pending, trades>>
      BY <2>5 DEF SetCount
    <3>2. count' \in [Items -> 1..MaxStack] /\ mishaps' \in 0..MaxMishaps
      BY <1>3, <3>1, TradeAssumption DEF RestTyped
    <3>3. QED
      BY <1>3, <3>1, <3>2 DEF RestTyped
  <2>6. ASSUME NEW p \in Players, Spend(p) PROVE RestTyped'
    BY <1>3, <2>6, TradeAssumption DEF Spend, RestTyped
  <2>7. QED
    BY <2>1, <2>2, <2>3, <2>4, <2>5, <2>6, AcceptTypes, SaveTypes, DatabaseTypes DEF Next
<1>5. QED
  BY <1>1, <1>2, <1>4 DEF TypeInv, TypeOK, RestTyped, Windows, SlotsDiffer, Database

-----------------------------------------------------------------------------
(* The rows of p's items.                                                  *)
Owned(d, p) == {i \in Items : d.owner[i] = p}

(* The database as it will be when the queue is empty.                     *)
LastOf(H) == H[Len(pending)]

(* What a player in the world holds is what the database will give him.    *)
HoldingsMatch(H) ==
    \A p \in Players : bag[p] \cup gone[p] \subseteq Owned(LastOf(H), p)

(* A player who waits to be loaded is not in the world, will be loaded     *)
(* once, and nothing before his turn or after it changes what is his.      *)
SameHoldings(d, e, p) ==
    /\ Owned(d, p) \subseteq Owned(e, p)
    /\ d.money[p] = e.money[p]
    /\ d.spent[p] = e.spent[p]

OnlyLogin(n, p) == \A k \in 1..Len(pending) : pending[k].load = p => k = n

LoginsWait(H) ==
    \A n \in 1..Len(pending) : \A p \in Players : pending[n].load = p =>
        p \notin online /\ SameHoldings(H[n - 1], LastOf(H), p) /\ OnlyLogin(n, p)

(* A row that is gone does not come back.                                  *)
RowsStayAway(H) ==
    \A k \in 0..Len(pending) : \A j \in 0..k : \A i \in Items :
        H[k].owner[i] # None => H[j].owner[i] # None

(* An item that has been offered is its owner's for as long as it is in a  *)
(* window, or nobody's.                                                    *)
OffersAreOwned(H) ==
    \A p \in Players : m_trade[p] # None =>
        \A s \in Slots : m_trade[p].items[s] # None =>
            LastOf(H).owner[m_trade[p].items[s]] \in {p, None}

(* Each database of the queue holds all the gold there is.                 *)
AllGold(d) == Total(d.money) + Total(d.spent)

GoldStays(H) ==
    /\ \A k \in 0..Len(pending) : AllGold(H[k]) = Total(InitialMoney)
    /\ \A p \in online : money[p] + spent[p] = LastOf(H).money[p] + LastOf(H).spent[p]

Agrees(H) ==
    /\ IsReplay(H, db, pending)
    /\ HoldingsMatch(H)
    /\ LoginsWait(H)
    /\ RowsStayAway(H)
    /\ OffersAreOwned(H)
    /\ GoldStays(H)

-----------------------------------------------------------------------------
(* Whatever a step does to the windows, what is offered after it was       *)
(* offered or in the bag before it.                                        *)
LEMMA OffersStem ==
    ASSUME TypeInv, WindowsInv, [Next]_vars,
           NEW p \in Players, m_trade'[p] # None,
           NEW s \in Slots, m_trade'[p].items[s] # None
    PROVE  \/ m_trade'[p].items[s] \in bag[p]
           \/ m_trade[p] # None /\ \E t \in Slots : m_trade'[p].items[s] = m_trade[p].items[t]
<1>1. bag \in [Players -> SUBSET Items]
  BY DEF TypeInv, TypeOK
<1>2. CASE Kept(m_trade')
  BY <1>2 DEF Kept, SameOffer
<1>3. ASSUME NEW x \in Players, m_trade[x] # None, Reoffered(x, m_trade[x].trader, m_trade')
      PROVE  \/ m_trade'[p].items[s] \in bag[p]
             \/ m_trade[p] # None /\ \E t \in Slots : m_trade'[p].items[s] = m_trade[p].items[t]
  <2>1. CASE m_trade'[p].items = m_trade[p].items /\ m_trade[p] # None
    BY <2>1
  <2>2. CASE \E t \in Slots, i \in bag[p] \cup {None} :
                m_trade[p] # None /\ m_trade'[p].items = [m_trade[p].items EXCEPT ![t] = i]
    <3>1. PICK t \in Slots, i \in bag[p] \cup {None} :
                m_trade[p] # None /\ m_trade'[p].items = [m_trade[p].items EXCEPT ![t] = i]
      BY <2>2
    <3>2. m_trade[p].items \in [Slots -> Items \cup {None}]
      BY <3>1, Fields DEF WindowsInv, Windows
    <3>3. QED
      BY <3>1, <3>2
  <2>3. CASE m_trade'[p] = m_trade[p]
    BY <2>3
  <2>4. CASE p \in {x, m_trade[x].trader}
    <3>1. /\ m_trade[p] # None
          /\ \/ m_trade'[p].items = m_trade[p].items
             \/ \E t \in Slots, i \in bag[p] \cup {None} :
                    m_trade'[p].items = [m_trade[p].items EXCEPT ![t] = i]
      <4>1. /\ m_trade[p] # None
            /\ \/ m_trade'[p].items = m_trade[p].items
               \/ \E t \in Slots, i \in bag[p] \cup {None} :
                    /\ m_trade'[p].items = [m_trade[p].items EXCEPT ![t] = i]
                    /\ i = None \/ ~HasItem(p, i) \/ m_trade[p].items[t] = i
        BY <1>3, <2>4 DEF Reoffered
      <4>2. QED
        BY <4>1
    <3>2. QED
      BY <2>1, <2>2, <3>1
  <2>5. QED
    BY <1>3, <2>3, <2>4 DEF Reoffered
<1>4. ASSUME NEW x \in Players, NEW y \in Players, Opened(x, y, m_trade')
      PROVE  m_trade[p] # None /\ \E t \in Slots : m_trade'[p].items[s] = m_trade[p].items[t]
  BY <1>4 DEF Opened
<1>5. QED
  BY <1>1, <1>2, <1>3, <1>4, WindowsChange

(* So an item of a window was its owner's, or nobody's, before the step.   *)
LEMMA OfferedOwned ==
    ASSUME TypeInv, WindowsInv, [Next]_vars, NEW H, Agrees(H),
           NEW p \in Players, m_trade'[p] # None,
           NEW s \in Slots, m_trade'[p].items[s] # None
    PROVE  /\ m_trade'[p].items[s] \in Items
           /\ LastOf(H).owner[m_trade'[p].items[s]] \in {p, None}
<1> DEFINE i == m_trade'[p].items[s]
<1>1. i \in Items
  <2>1. m_trade' \in Windows
    BY WindowsNext DEF WindowsInv
  <2>2. m_trade'[p].items \in [Slots -> Items \cup {None}]
    BY <2>1, Fields DEF Windows
  <2>3. QED
    BY <2>2
<1>2. \/ i \in bag[p]
      \/ m_trade[p] # None /\ \E t \in Slots : i = m_trade[p].items[t]
  BY OffersStem
<1>3. i # None
  OBVIOUS
<1> HIDE DEF i
<1>4. i \in bag[p] => LastOf(H).owner[i] = p
  BY <1>1 DEF Agrees, HoldingsMatch, Owned
<1>5. m_trade[p] # None /\ (\E t \in Slots : i = m_trade[p].items[t])
      => LastOf(H).owner[i] \in {p, None}
  BY <1>3 DEF Agrees, OffersAreOwned
<1>6. i \in Items /\ LastOf(H).owner[i] \in {p, None}
  BY <1>1, <1>2, <1>4, <1>5
<1>7. QED
  BY <1>6 DEF i

-----------------------------------------------------------------------------
(* The gold of a database, spent or not, player by player.                 *)
GoldOf(d) == [x \in Players |-> d.money[x] + d.spent[x]]

(* All the gold of a database is the sum over the players of theirs.       *)
LEMMA GoldIsSum ==
    ASSUME NEW d \in Database
    PROVE  /\ AllGold(d) = SumOver(GoldOf(d), Players)
           /\ \A x \in Players : GoldOf(d)[x] \in Int
<1>1. /\ d.money \in [Players -> 0..MAX_MONEY_AMOUNT] /\ d.spent \in [Players -> Nat]
      /\ IsFiniteSet(Players)
  BY TradeAssumption DEF Database
<1>2. Total(d.money) = SumOver(d.money, Players) /\ Total(d.spent) = SumOver(d.spent, Players)
  BY <1>1 DEF Total, FoldFunction, SumOver
<1>3. \A x \in Players : /\ d.money[x] \in Int /\ d.spent[x] \in Int
                         /\ GoldOf(d)[x] = d.money[x] + d.spent[x]
  BY <1>1 DEF GoldOf
<1>4. SumOver(d.money, Players) + SumOver(d.spent, Players) = SumOver(GoldOf(d), Players)
  BY <1>1, <1>3, SumOfBoth
<1>5. QED
  BY <1>2, <1>3, <1>4 DEF AllGold

(* It is the same when nobody's has changed, or two have exchanged some.   *)
LEMMA GoldKept ==
    ASSUME NEW d \in Database, NEW r \in Database, NEW p \in Players, NEW q \in Players,
           \A x \in Players \ {p, q} : GoldOf(r)[x] = GoldOf(d)[x],
           \/ GoldOf(r)[p] = GoldOf(d)[p] /\ GoldOf(r)[q] = GoldOf(d)[q]
           \/ p # q /\ GoldOf(r)[p] + GoldOf(r)[q] = GoldOf(d)[p] + GoldOf(d)[q]
    PROVE  AllGold(r) = AllGold(d)
<1>1. IsFiniteSet(Players)
  BY TradeAssumption
<1>2. /\ \A x \in Players : GoldOf(d)[x] \in Int
      /\ \A x \in Players : GoldOf(r)[x] \in Int
      /\ AllGold(d) = SumOver(GoldOf(d), Players)
      /\ AllGold(r) = SumOver(GoldOf(r), Players)
  BY GoldIsSum
<1> DEFINE f == GoldOf(d)
           g == GoldOf(r)
<1> HIDE DEF f, g
<1>3. /\ \A x \in Players : f[x] \in Int /\ g[x] \in Int
      /\ \A x \in Players \ {p, q} : f[x] = g[x]
      /\ \/ g[p] = f[p] /\ g[q] = f[q]
         \/ p # q /\ f[p] + f[q] = g[p] + g[q]
  BY <1>2 DEF f, g
<1>4. SumOver(f, Players) = SumOver(g, Players)
  <2>1. CASE g[p] = f[p] /\ g[q] = f[q]
    <3>1. \A x \in Players : f[x] \in Int /\ g[x] = f[x]
      BY <1>3, <2>1
    <3>2. QED
      BY <1>1, <3>1, SumCongruence
  <2>2. CASE p # q /\ f[p] + f[q] = g[p] + g[q]
    BY <1>1, <1>3, <2>2, SumConserved
  <2>3. QED
    BY <1>3, <2>1, <2>2
<1>5. QED
  BY <1>2, <1>4 DEF f, g

-----------------------------------------------------------------------------
(* Nothing is queued or executed.                                          *)
LEMMA QuietStep ==
    ASSUME TypeInv, WindowsInv, [Next]_vars, NEW H, Agrees(H), UNCHANGED <<online, db, pending>>,
           \A p \in Players : bag'[p] \cup gone'[p] \subseteq bag[p] \cup gone[p],
           \A p \in online : money'[p] + spent'[p] = money[p] + spent[p]
    PROVE  Agrees(H)'
<1>1. LastOf(H)' = LastOf(H)
  BY DEF LastOf
<1>2. OffersAreOwned(H)'
  BY <1>1, OfferedOwned DEF OffersAreOwned
<1>3. HoldingsMatch(H)'
  BY <1>1 DEF Agrees, HoldingsMatch
<1>4. LoginsWait(H)' /\ RowsStayAway(H)'
  <2>1. \A n, p : OnlyLogin(n, p)' <=> OnlyLogin(n, p)
    BY DEF OnlyLogin
  <2>2. LoginsWait(H)'
    BY <1>1, <2>1 DEF Agrees, LoginsWait
  <2>3. QED
    BY <2>2 DEF Agrees, RowsStayAway
<1>5. GoldStays(H)'
  BY <1>1 DEF Agrees, GoldStays
<1>6. QED
  BY <1>2, <1>3, <1>4, <1>5 DEF Agrees

-----------------------------------------------------------------------------
(* The queue and its databases with one entry more.                        *)
LongerReplay(H, e) ==
    [k \in 0..(Len(pending) + 1) |-> IF k <= Len(pending) THEN H[k] ELSE After(LastOf(H), e)]

(* The replay of the longer queue ends with what the new entry makes of    *)
(* the last database.                                                      *)
LEMMA QueueLonger ==
    ASSUME TypeInv, NEW H, Agrees(H), NEW e \in Entry, pending' = Append(pending, e), db' = db,
           NEW G, G = LongerReplay(H, e)
    PROVE  /\ IsReplay(G, db, pending)'
           /\ Len(pending) \in Nat /\ Len(pending') = Len(pending) + 1
           /\ \A k \in 0..Len(pending) : G[k] = H[k] /\ H[k] \in Database
           /\ G[Len(pending) + 1] = After(LastOf(H), e)
           /\ LastOf(H) \in Database /\ LastOf(G)' = After(LastOf(H), e)
           /\ \A n \in 1..Len(pending) : pending'[n] = pending[n]
           /\ pending'[Len(pending) + 1] = e
<1>1. pending \in Seq(Entry) /\ IsReplay(H, db, pending)
  BY DEF TypeInv, Agrees
<1>2. IsReplay(G, db, Append(pending, e))
  BY <1>1, ReplayLonger DEF LongerReplay, LastOf
<1>3. Len(pending) \in Nat /\ Len(pending') = Len(pending) + 1
      /\ (\A n \in 1..Len(pending) : pending'[n] = pending[n])
      /\ pending'[Len(pending) + 1] = e
  BY <1>1
<1>4. H \in [0..Len(pending) -> Database]
  BY <1>1 DEF IsReplay
<1>5. /\ \A k \in 0..Len(pending) : G[k] = H[k] /\ H[k] \in Database
      /\ G[Len(pending) + 1] = After(LastOf(H), e)
      /\ LastOf(H) \in Database
  <2> DEFINE n == Len(pending)
  <2>1. n \in Nat /\ n \in 0..n /\ n + 1 \in 0..n + 1 /\ ~(n + 1 <= n)
        /\ \A k \in 0..n : k \in 0..n + 1 /\ k <= n
    BY <1>3
  <2>2. G = [k \in 0..n + 1 |-> IF k <= n THEN H[k] ELSE After(LastOf(H), e)]
    BY DEF LongerReplay
  <2>3. LastOf(H) = H[n]
    BY DEF LastOf
  <2> HIDE DEF n
  <2>4. G[n + 1] = After(LastOf(H), e)
    BY <2>1, <2>2
  <2>5. \A k \in 0..n : G[k] = H[k]
    BY <2>1, <2>2
  <2>6. QED
    BY <1>4, <2>1, <2>3, <2>4, <2>5 DEF n
<1>6. LastOf(G)' = After(LastOf(H), e)
  BY <1>3, <1>5 DEF LastOf
<1>7. IsReplay(G, db, pending)'
  BY <1>2
<1>8. QED
  BY <1>3, <1>5, <1>6, <1>7

-----------------------------------------------------------------------------
(* The players of W are saved with bags b and gold m in one transaction,   *)
(* and nobody comes.                                                       *)
SavedTogether(W, b, m) ==
    /\ pending' = Append(pending, Saving(W, b, m))
    /\ gone' = Cleaned(W)
    /\ online' \subseteq online
    /\ UNCHANGED <<db, spent>>
    /\ \A x \in Players : bag'[x] \subseteq IF x \in W THEN b[x] ELSE bag[x]
    /\ \A x \in Players : money'[x] = IF x \in W THEN m[x] ELSE money[x]

(* What they hold they held before, each of them something else, and their *)
(* gold.                                                                   *)
Redistributed(W, b, m) ==
    /\ b \in [Players -> SUBSET Items] /\ m \in [Players -> 0..MAX_MONEY_AMOUNT]
    /\ \A x, y \in W : x # y => b[x] \cap b[y] = {}
    /\ \A x \in W : \A i \in b[x] : \E y \in W : i \in bag[y]
    /\ \A x \in W : m_trade'[x] # None => W = {x}
    /\ \E p, q \in W : /\ W = {p, q}
                       /\ \/ m[p] = money[p] /\ m[q] = money[q]
                          \/ p # q /\ m[p] + m[q] = money[p] + money[q]

(* r is database d with that transaction.                                  *)
RowsOf(W, b, m, d, r) ==
    /\ r \in Database
    /\ \A x \in W : b[x] \subseteq Owned(r, x)
    /\ \A x \in Players \ W : Owned(d, x) \subseteq Owned(r, x)
    /\ \A i \in Items : r.owner[i] \notin W => r.owner[i] \in {d.owner[i], None}
    /\ \A i \in Items : r.owner[i] \in W => d.owner[i] \in W
    /\ \A x \in Players : /\ r.money[x] = IF x \in W THEN m[x] ELSE d.money[x]
                          /\ r.spent[x] = IF x \in W THEN spent[x] ELSE d.spent[x]

(* A transaction changes the rows of its players only, and gives none of   *)
(* them what somebody else owns.                                           *)
LEMMA SavedRows ==
    ASSUME TypeInv, NEW H, Agrees(H), NEW W \in SUBSET online, NEW b, NEW m,
           Redistributed(W, b, m), NEW d \in Database, d = LastOf(H)
    PROVE  RowsOf(W, b, m, d, After(d, Saving(W, b, m)))
<1> DEFINE e == Saving(W, b, m)
           r == After(d, e)
<1>1. W \subseteq Players /\ None \notin Players
  BY TradeAssumption DEF TypeInv, TypeOK
<1>2. b \in [Players -> SUBSET Items] /\ m \in [Players -> 0..MAX_MONEY_AMOUNT]
  BY DEF Redistributed
<1>3. /\ e \in Entry /\ e.load = None /\ e.images \in [W -> Image]
      /\ \A p \in W : /\ e.images[p].bag = b[p] /\ e.images[p].gone = gone[p]
                      /\ e.images[p].money = m[p] /\ e.images[p].spent = spent[p]
  BY <1>1, <1>2, SavingEntry
<1> HIDE DEF e
<1>4. r = Written(d, e.images)
  BY <1>3 DEF After
<1> HIDE DEF r
<1> DEFINE im == e.images
<1>5. r = Written(d, im) /\ im \in [W -> Image] /\ W \in SUBSET Players
  BY <1>1, <1>3, <1>4
<1>6. \A p \in W : /\ im[p].bag = b[p] /\ im[p].gone = gone[p]
                    /\ im[p].money = m[p] /\ im[p].spent = spent[p]
  BY <1>3
<1> HIDE DEF im
<1>7. /\ r \in Database
      /\ \A i \in Items :
           \/ \E p \in W : i \in im[p].bag /\ r.owner[i] = p
           \/ /\ \A p \in W : i \notin im[p].bag
              /\ r.owner[i] = None
              /\ \E p \in W : i \in im[p].gone
           \/ /\ \A p \in W : i \notin im[p].bag \cup im[p].gone
              /\ r.owner[i] = d.owner[i]
      /\ \A p \in Players :
           /\ r.money[p] = IF p \in W THEN im[p].money ELSE d.money[p]
           /\ r.spent[p] = IF p \in W THEN im[p].spent ELSE d.spent[p]
  <2>1. RowsWritten(r, d, W, im)
    BY <1>5, WrittenRows
  <2>2. QED
    BY <2>1 DEF RowsWritten
<1>8. /\ r \in Database
      /\ \A i \in Items :
           \/ \E p \in W : i \in b[p] /\ r.owner[i] = p
           \/ /\ \A p \in W : i \notin b[p]
              /\ r.owner[i] = None
              /\ \E p \in W : i \in gone[p]
           \/ /\ \A p \in W : i \notin b[p] \cup gone[p]
              /\ r.owner[i] = d.owner[i]
      /\ \A p \in Players :
           /\ r.money[p] = IF p \in W THEN m[p] ELSE d.money[p]
           /\ r.spent[p] = IF p \in W THEN spent[p] ELSE d.spent[p]
  <2>1. ASSUME NEW i \in Items
        PROVE  \/ \E p \in W : i \in b[p] /\ r.owner[i] = p
               \/ /\ \A p \in W : i \notin b[p]
                  /\ r.owner[i] = None
                  /\ \E p \in W : i \in gone[p]
               \/ /\ \A p \in W : i \notin b[p] \cup gone[p]
                  /\ r.owner[i] = d.owner[i]
    BY <1>6, <1>7
  <2>2. ASSUME NEW p \in Players
        PROVE  /\ r.money[p] = IF p \in W THEN m[p] ELSE d.money[p]
               /\ r.spent[p] = IF p \in W THEN spent[p] ELSE d.spent[p]
    <3>1. CASE p \in W
      BY <1>6, <1>7, <3>1
    <3>2. CASE p \notin W
      BY <1>7, <3>2
    <3>3. QED
      BY <3>1, <3>2
  <2>3. QED
    BY <1>7, <2>1, <2>2
<1>9. \A x \in Players : \A i \in bag[x] \cup gone[x] : i \in Items /\ d.owner[i] = x
  BY DEF Agrees, HoldingsMatch, Owned
<1>10. \A x \in W : \A i \in b[x] : i \in Items /\ d.owner[i] \in W
  BY <1>1, <1>9 DEF Redistributed
<1>11. ASSUME NEW x \in W, NEW i \in b[x] PROVE i \in Items /\ r.owner[i] = x
  <2>1. \A y \in W : i \in b[y] => y = x
    BY <1>11 DEF Redistributed
  <2>2. QED
    BY <1>8, <1>10, <1>11, <2>1
<1>12. ASSUME NEW x \in Players \ W, NEW i \in Items, d.owner[i] = x PROVE r.owner[i] = x
  BY <1>1, <1>8, <1>9, <1>10, <1>12
<1>13. \A i \in Items : r.owner[i] \notin W => r.owner[i] \in {d.owner[i], None}
  BY <1>8
<1>14. ASSUME NEW i \in Items, r.owner[i] \in W PROVE d.owner[i] \in W
  BY <1>1, <1>8, <1>10, <1>14
<1>15. QED
  BY <1>8, <1>11, <1>12, <1>13, <1>14 DEF Owned, RowsOf, r, e

(* Whoever is saved, together or alone, the queue and the world agree.     *)
LEMMA SavingStep ==
    ASSUME TypeInv, WindowsInv, [Next]_vars, NEW H, Agrees(H),
           NEW W \in SUBSET online, NEW b, NEW m, Redistributed(W, b, m), SavedTogether(W, b, m)
    PROVE  \E G : Agrees(G)'
<1> DEFINE e == Saving(W, b, m)
           N == Len(pending)
<1>1. W \subseteq Players /\ online \subseteq Players /\ None \notin Players
  BY TradeAssumption DEF TypeInv, TypeOK
<1>2. e \in Entry /\ e.load = None
  <2>1. b \in [Players -> SUBSET Items] /\ m \in [Players -> 0..MAX_MONEY_AMOUNT]
    BY DEF Redistributed
  <2>2. W \in SUBSET Players
    BY <1>1
  <2>3. QED
    BY <2>1, <2>2, SavingEntry
<1> HIDE DEF e
<1>3. PICK G : G = LongerReplay(H, e)
  OBVIOUS
<1>4. PICK d \in Database : d = LastOf(H)
  BY <1>2, <1>3, QueueLonger DEF SavedTogether, e
<1>5. PICK r : r = After(d, e)
  OBVIOUS
<1>6. /\ IsReplay(G, db, pending)'
      /\ N \in Nat /\ Len(pending') = N + 1
      /\ \A k \in 0..N : G[k] = H[k] /\ H[k] \in Database
      /\ G[N + 1] = r /\ LastOf(G)' = r
      /\ \A n \in 1..N : pending'[n] = pending[n]
      /\ pending'[N + 1] = e
  BY <1>2, <1>3, <1>4, <1>5, QueueLonger DEF SavedTogether, e
<1> HIDE DEF N
<1>7. /\ r \in Database
      /\ \A x \in W : b[x] \subseteq Owned(r, x)
      /\ \A x \in Players \ W : Owned(d, x) \subseteq Owned(r, x)
      /\ \A i \in Items : r.owner[i] \notin W => r.owner[i] \in {d.owner[i], None}
      /\ \A i \in Items : r.owner[i] \in W => d.owner[i] \in W
      /\ \A x \in Players : /\ r.money[x] = IF x \in W THEN m[x] ELSE d.money[x]
                            /\ r.spent[x] = IF x \in W THEN spent[x] ELSE d.spent[x]
  <2>1. RowsOf(W, b, m, d, r)
    BY <1>4, <1>5, SavedRows DEF e
  <2>2. QED
    BY <2>1 DEF RowsOf
<1>8. HoldingsMatch(G)'
  <2>1. ASSUME NEW x \in Players PROVE bag'[x] \cup gone'[x] \subseteq Owned(r, x)
    <3>1. CASE x \in W
      <4>1. bag'[x] \subseteq b[x] /\ gone'[x] = {}
        BY <3>1 DEF SavedTogether, Cleaned
      <4>2. QED
        BY <1>7, <3>1, <4>1
    <3>2. CASE x \notin W
      <4>1. bag'[x] \subseteq bag[x] /\ gone'[x] = gone[x]
        BY <3>2 DEF SavedTogether, Cleaned
      <4>2. bag[x] \cup gone[x] \subseteq Owned(d, x)
        BY <1>4 DEF Agrees, HoldingsMatch
      <4>3. QED
        BY <1>7, <3>2, <4>1, <4>2
    <3>3. QED
      BY <3>1, <3>2
  <2>2. QED
    BY <1>6, <2>1 DEF HoldingsMatch
<1>9. LoginsWait(G)'
  <2>1. ASSUME NEW n \in 1..(N + 1), NEW p \in Players, pending'[n].load = p
        PROVE  p \notin online' /\ SameHoldings(G[n - 1], r, p) /\ OnlyLogin(n, p)'
    <3>1. n \in 1..N /\ \A k \in 1..(N + 1) : pending'[k].load = p => k \in 1..N
      BY <1>1, <1>2, <1>6, <2>1
    <3>2. p \notin online /\ SameHoldings(H[n - 1], d, p) /\ OnlyLogin(n, p)
      <4>1. LoginsWait(H) /\ pending[n].load = p
        BY <1>6, <2>1, <3>1 DEF Agrees
      <4>2. QED
        BY <1>4, <3>1, <4>1 DEF LoginsWait, N
    <3>3. p \notin W /\ p \notin online' /\ G[n - 1] = H[n - 1]
      BY <1>6, <3>1, <3>2 DEF SavedTogether
    <3>4. OnlyLogin(n, p)'
      BY <1>6, <3>1, <3>2 DEF OnlyLogin, N
    <3>5. SameHoldings(G[n - 1], r, p)
      BY <1>7, <3>2, <3>3 DEF SameHoldings
    <3>6. QED
      BY <3>3, <3>4, <3>5
  <2>2. QED
    BY <1>6, <2>1 DEF LoginsWait
<1>10. RowsStayAway(G)'
  <2>1. ASSUME NEW k \in 0..(N + 1), NEW j \in 0..k, NEW i \in Items, G[k].owner[i] # None
        PROVE  G[j].owner[i] # None
    <3>1. CASE k <= N
      BY <1>6, <2>1, <3>1 DEF Agrees, RowsStayAway, N
    <3>2. CASE k = N + 1 /\ j <= N
      <4>1. d.owner[i] # None
        BY <1>1, <1>6, <1>7, <2>1, <3>2
      <4>2. N \in 0..N /\ j \in 0..N /\ d = H[N]
        BY <1>4, <1>6, <3>2 DEF LastOf, N
      <4>3. H[j].owner[i] # None
        BY <4>1, <4>2 DEF Agrees, RowsStayAway, N
      <4>4. QED
        BY <1>6, <4>2, <4>3
    <3>3. CASE k = N + 1 /\ j = N + 1
      BY <2>1, <3>3
    <3>4. QED
      BY <1>6, <3>1, <3>2, <3>3
  <2>2. QED
    BY <1>6, <2>1 DEF RowsStayAway
<1>11. OffersAreOwned(G)'
  <2>1. ASSUME NEW p \in Players, m_trade'[p] # None, NEW s \in Slots, NEW i,
               i = m_trade'[p].items[s], i # None
        PROVE  r.owner[i] \in {p, None}
    <3>1. i \in Items /\ d.owner[i] \in {p, None}
      BY <1>4, <2>1, OfferedOwned
    <3>2. p \in W => W = {p}
      BY <2>1 DEF Redistributed
    <3>3. QED
      BY <1>1, <1>7, <3>1, <3>2
  <2>2. QED
    BY <1>6, <2>1 DEF OffersAreOwned
<1>12. GoldStays(G)'
  <2>1. \A x \in online : d.money[x] + d.spent[x] = money[x] + spent[x]
    BY <1>4 DEF Agrees, GoldStays
  <2>2. AllGold(r) = AllGold(d)
    <3>1. PICK p \in W, q \in W :
                 /\ W = {p, q}
                 /\ \/ m[p] = money[p] /\ m[q] = money[q]
                    \/ p # q /\ m[p] + m[q] = money[p] + money[q]
      BY DEF Redistributed
    <3>2. /\ \A x \in Players \ {p, q} : GoldOf(r)[x] = GoldOf(d)[x]
          /\ GoldOf(r)[p] = m[p] + spent[p] /\ GoldOf(r)[q] = m[q] + spent[q]
          /\ GoldOf(d)[p] = money[p] + spent[p] /\ GoldOf(d)[q] = money[q] + spent[q]
      BY <1>1, <1>7, <2>1, <3>1 DEF GoldOf
    <3>3. \/ GoldOf(r)[p] = GoldOf(d)[p] /\ GoldOf(r)[q] = GoldOf(d)[q]
          \/ p # q /\ GoldOf(r)[p] + GoldOf(r)[q] = GoldOf(d)[p] + GoldOf(d)[q]
      <4>1. /\ m[p] \in Int /\ m[q] \in Int /\ money[p] \in Int /\ money[q] \in Int
            /\ spent[p] \in Int /\ spent[q] \in Int
        BY <1>1 DEF Redistributed, TypeInv, TypeOK
      <4>2. CASE m[p] = money[p] /\ m[q] = money[q]
        BY <3>2, <4>2
      <4>3. CASE p # q /\ m[p] + m[q] = money[p] + money[q]
        <5>1. (m[p] + spent[p]) + (m[q] + spent[q])
              = (money[p] + spent[p]) + (money[q] + spent[q])
          BY <4>1, <4>3
        <5>2. QED
          BY <3>2, <4>3, <5>1
      <4>4. QED
        BY <3>1, <4>2, <4>3
    <3>4. QED
      BY <1>1, <1>4, <1>7, <3>2, <3>3, GoldKept
  <2>3. ASSUME NEW k \in 0..(N + 1) PROVE AllGold(G[k]) = Total(InitialMoney)
    <3>1. \A l \in 0..N : AllGold(H[l]) = Total(InitialMoney)
      BY DEF Agrees, GoldStays, N
    <3>2. d = H[N]
      BY <1>4 DEF LastOf, N
    <3>3. QED
      BY <1>6, <2>2, <3>1, <3>2
  <2>4. ASSUME NEW x \in online' PROVE money'[x] + spent'[x] = r.money[x] + r.spent[x]
    <3>1. x \in online /\ x \in Players /\ spent'[x] = spent[x]
          /\ money'[x] = IF x \in W THEN m[x] ELSE money[x]
      BY <1>1 DEF SavedTogether
    <3>2. QED
      BY <1>7, <2>1, <3>1
  <2>5. QED
    BY <1>6, <2>3, <2>4 DEF GoldStays
<1>13. QED
  BY <1>6, <1>8, <1>9, <1>10, <1>11, <1>12 DEF Agrees

-----------------------------------------------------------------------------
(* HandlePlayerLoginOpcode: the login queries come last.                   *)
LEMMA LoginStep ==
    ASSUME TypeInv, WindowsInv, [Next]_vars, NEW H, Agrees(H),
           NEW p \in Players, PlayerLogin(p)
    PROVE  \E G : Agrees(G)'
<1> DEFINE e == Loading(p)
           N == Len(pending)
<1>1. /\ p \notin online /\ \A n \in 1..N : pending[n].load # p
      /\ pending' = Append(pending, e)
      /\ UNCHANGED <<online, bag, gone, money, spent, m_trade, db>>
  BY DEF PlayerLogin, Behind, inventory, TypeInv
<1>2. e \in Entry /\ e.load = p /\ p # None
  BY LoadingEntry, TradeAssumption
<1> HIDE DEF e
<1>3. PICK G : G = LongerReplay(H, e)
  OBVIOUS
<1>4. PICK d \in Database : d = LastOf(H)
  BY <1>1, <1>2, <1>3, QueueLonger
<1>5. After(d, e) = d
  BY <1>2 DEF After
<1>6. /\ IsReplay(G, db, pending)'
      /\ N \in Nat /\ Len(pending') = N + 1
      /\ \A k \in 0..N : G[k] = H[k] /\ H[k] \in Database
      /\ G[N + 1] = d /\ LastOf(G)' = d /\ d = H[N]
      /\ \A n \in 1..N : pending'[n] = pending[n]
      /\ pending'[N + 1] = e
  BY <1>1, <1>2, <1>3, <1>4, <1>5, QueueLonger DEF LastOf
<1> HIDE DEF N
<1>7. HoldingsMatch(G)'
  BY <1>1, <1>4, <1>6 DEF Agrees, HoldingsMatch
<1>8. LoginsWait(G)'
  <2>1. ASSUME NEW n \in 1..(N + 1), NEW r \in Players, pending'[n].load = r
        PROVE  r \notin online' /\ SameHoldings(G[n - 1], d, r) /\ OnlyLogin(n, r)'
    <3>1. CASE n = N + 1
      <4>1. r = p /\ G[n - 1] = d
        BY <1>2, <1>6, <2>1, <3>1
      <4>2. OnlyLogin(n, r)'
        BY <1>1, <1>6, <3>1, <4>1 DEF OnlyLogin
      <4>3. QED
        BY <1>1, <4>1, <4>2 DEF SameHoldings
    <3>2. CASE n \in 1..N
      <4>1. r \notin online /\ SameHoldings(H[n - 1], d, r) /\ OnlyLogin(n, r)
        <5>1. pending[n].load = r
          BY <1>6, <2>1, <3>2
        <5>2. LoginsWait(H)
          BY DEF Agrees
        <5>3. QED
          BY <1>4, <3>2, <5>1, <5>2 DEF LoginsWait, N
      <4>2. r # p
        BY <1>1, <1>6, <2>1, <3>2
      <4>3. OnlyLogin(n, r)'
        BY <1>2, <1>6, <4>1, <4>2 DEF OnlyLogin, N
      <4>4. G[n - 1] = H[n - 1]
        BY <1>6, <3>2
      <4>5. QED
        BY <1>1, <4>1, <4>3, <4>4
    <3>3. QED
      BY <1>6, <3>1, <3>2
  <2>2. QED
    BY <1>6, <2>1 DEF LoginsWait
<1>9. RowsStayAway(G)'
  <2>1. ASSUME NEW k \in 0..(N + 1), NEW j \in 0..k, NEW i \in Items, G[k].owner[i] # None
        PROVE  G[j].owner[i] # None
    <3>1. \A l \in 0..N : \A o \in 0..l : H[l].owner[i] # None => H[o].owner[i] # None
      BY DEF Agrees, RowsStayAway, N
    <3>2. CASE k <= N
      BY <1>6, <2>1, <3>1, <3>2
    <3>3. CASE k = N + 1 /\ j <= N
      <4>1. N \in 0..N /\ j \in 0..N /\ H[N].owner[i] # None
        BY <1>6, <2>1, <3>3
      <4>2. QED
        BY <1>6, <3>1, <4>1
    <3>4. CASE k = N + 1 /\ j = N + 1
      BY <2>1, <3>4
    <3>5. QED
      BY <1>6, <3>2, <3>3, <3>4
  <2>2. QED
    BY <1>6, <2>1 DEF RowsStayAway
<1>10. OffersAreOwned(G)'
  BY <1>1, <1>4, <1>6 DEF Agrees, OffersAreOwned
<1>11. GoldStays(G)'
  <2>1. ASSUME NEW k \in 0..(N + 1) PROVE AllGold(G[k]) = Total(InitialMoney)
    <3>1. \A l \in 0..N : AllGold(H[l]) = Total(InitialMoney)
      BY DEF Agrees, GoldStays, N
    <3>2. QED
      BY <1>6, <3>1
  <2>2. \A x \in online' : money'[x] + spent'[x] = d.money[x] + d.spent[x]
    BY <1>1, <1>4 DEF Agrees, GoldStays
  <2>3. QED
    BY <1>6, <2>1, <2>2 DEF GoldStays
<1>12. QED
  BY <1>6, <1>7, <1>8, <1>9, <1>10, <1>11 DEF Agrees

-----------------------------------------------------------------------------
(* The worker thread takes the oldest entry: a transaction, or the queries *)
(* of a player who comes.                                                  *)
ShorterReplay(H) == [k \in 0..(Len(pending) - 1) |-> H[k + 1]]

(* The replay of the rest of the queue starts one database later.          *)
LEMMA QueueShorter ==
    ASSUME TypeInv, NEW H, Agrees(H), pending # <<>>, pending' = Tail(pending),
           db' = After(db, Head(pending)), NEW G, G = ShorterReplay(H)
    PROVE  /\ IsReplay(G, db, pending)'
           /\ Len(pending) \in Nat \ {0} /\ Len(pending') = Len(pending) - 1
           /\ \A k \in 0..(Len(pending) - 1) : G[k] = H[k + 1]
           /\ LastOf(G)' = LastOf(H) /\ H[0] = db /\ H[1] = db'
           /\ \A n \in 1..(Len(pending) - 1) : pending'[n] = pending[n + 1]
           /\ Head(pending) = pending[1] /\ Head(pending) \in Entry
<1>1. pending \in Seq(Entry) /\ IsReplay(H, db, pending)
  BY DEF TypeInv, Agrees
<1>2. IsReplay(G, After(db, Head(pending)), Tail(pending)) /\ H[1] = After(db, Head(pending))
  BY <1>1, ReplayShorter DEF ShorterReplay
<1>3. /\ Len(pending) \in Nat \ {0} /\ Len(pending') = Len(pending) - 1
      /\ \A n \in 1..(Len(pending) - 1) : pending'[n] = pending[n + 1]
      /\ Head(pending) = pending[1] /\ Head(pending) \in Entry
  BY <1>1, HeadTailProperties, EmptySeq, LenProperties
<1>4. \A k \in 0..(Len(pending) - 1) : G[k] = H[k + 1]
  BY <1>3 DEF ShorterReplay
<1>5. LastOf(G)' = LastOf(H)
  BY <1>3, <1>4 DEF LastOf
<1>6. H[0] = db
  BY <1>1 DEF IsReplay
<1>7. IsReplay(G, db, pending)'
  BY <1>2
<1>8. QED
  BY <1>2, <1>3, <1>4, <1>5, <1>6, <1>7

(* Player p comes as the rows describe him.                                *)
Arrives(p) ==
    /\ p \in Players /\ db' = db
    /\ online' = online \cup {p}
    /\ bag' = [bag EXCEPT ![p] = Owned(db, p)]
    /\ money' = [money EXCEPT ![p] = db.money[p]]
    /\ spent' = [spent EXCEPT ![p] = db.spent[p]]

(* Taking the oldest entry leaves queue and world in agreement, also when  *)
(* it lets a player in: all that was his waited for him.                   *)
LEMMA TakenStep ==
    ASSUME TypeInv, WindowsInv, [Next]_vars, NEW H, Agrees(H), pending # <<>>,
           pending' = Tail(pending), db' = After(db, Head(pending)),
           UNCHANGED <<gone, m_trade>>,
           Arrives(Head(pending).load) \/ UNCHANGED <<online, bag, money, spent>>
    PROVE  \E G : Agrees(G)'
<1> DEFINE N == Len(pending)
           p == Head(pending).load
<1>1. PICK G : G = ShorterReplay(H)
  OBVIOUS
<1>2. PICK d : d = LastOf(H)
  OBVIOUS
<1>3. /\ IsReplay(G, db, pending)'
      /\ N \in Nat \ {0} /\ Len(pending') = N - 1
      /\ \A k \in 0..(N - 1) : G[k] = H[k + 1]
      /\ LastOf(G)' = d /\ H[0] = db /\ H[1] = db'
      /\ \A n \in 1..(N - 1) : pending'[n] = pending[n + 1]
      /\ pending[1].load = p
  BY <1>1, <1>2, QueueShorter
<1>4. Arrives(p) \/ UNCHANGED <<online, bag, money, spent>>
  OBVIOUS
<1>5. /\ online \subseteq Players /\ bag \in [Players -> SUBSET Items]
      /\ money \in [Players -> 0..MAX_MONEY_AMOUNT] /\ spent \in [Players -> Nat]
  BY DEF TypeInv, TypeOK
<1> HIDE DEF N, p
<1>6. Arrives(p) => /\ p \notin online
               /\ Owned(db, p) \subseteq Owned(d, p)
               /\ db.money[p] = d.money[p] /\ db.spent[p] = d.spent[p]
               /\ OnlyLogin(1, p)
  <2>1. 1 \in 1..N /\ 1 - 1 = 0
    BY <1>3
  <2>2. LoginsWait(H)
    BY DEF Agrees
  <2>3. \A r \in Players : pending[1].load = r =>
            r \notin online /\ SameHoldings(H[1 - 1], d, r) /\ OnlyLogin(1, r)
    BY <1>2, <2>1, <2>2 DEF LoginsWait, N
  <2>4. QED
    BY <1>3, <2>1, <2>3 DEF Arrives, SameHoldings
<1>7. HoldingsMatch(G)'
  <2>1. \A x \in Players : bag[x] \cup gone[x] \subseteq Owned(d, x)
    BY <1>2 DEF Agrees, HoldingsMatch
  <2>2. ASSUME NEW x \in Players PROVE bag'[x] \cup gone'[x] \subseteq Owned(d, x)
    <3>1. CASE bag'[x] = bag[x]
      BY <2>1, <3>1
    <3>2. CASE Arrives(p) /\ x = p
      BY <1>5, <1>6, <2>1, <3>2 DEF Arrives
    <3>3. QED
      BY <1>4, <1>5, <3>1, <3>2 DEF Arrives
  <2>3. QED
    BY <1>3, <2>2 DEF HoldingsMatch
<1>8. LoginsWait(G)'
  <2>1. ASSUME NEW n \in 1..(N - 1), NEW r \in Players, pending'[n].load = r
        PROVE  r \notin online' /\ SameHoldings(G[n - 1], d, r) /\ OnlyLogin(n, r)'
    <3>1. n + 1 \in 1..N /\ (n + 1) - 1 = n /\ n # 0
          /\ n - 1 \in 0..(N - 1) /\ (n - 1) + 1 = n
      BY <1>3
    <3>2. pending[n + 1].load = r /\ G[n - 1] = H[n]
      BY <1>3, <2>1, <3>1
    <3>3. r \notin online /\ SameHoldings(H[n], d, r) /\ OnlyLogin(n + 1, r)
      <4>1. LoginsWait(H)
        BY DEF Agrees
      <4>2. PICK m \in 1..N : m = n + 1 /\ m - 1 = n /\ pending[m].load = r
        BY <3>1, <3>2
      <4>3. r \notin online /\ SameHoldings(H[m - 1], d, r) /\ OnlyLogin(m, r)
        BY <1>2, <4>1, <4>2 DEF LoginsWait, N
      <4>4. QED
        BY <4>2, <4>3
    <3>4. r \notin online'
      <4>1. Arrives(p) => r # p
        BY <1>3, <1>6, <3>1, <3>2 DEF OnlyLogin, N
      <4>2. QED
        BY <1>4, <3>3, <4>1 DEF Arrives
    <3>5. OnlyLogin(n, r)'
      BY <1>3, <3>3 DEF OnlyLogin, N
    <3>6. QED
      BY <3>1, <3>2, <3>3, <3>4, <3>5
  <2>2. 1..Len(pending') = 1..(N - 1) /\ LastOf(G)' = d
    BY <1>3
  <2>3. QED
    BY <2>1, <2>2 DEF LoginsWait
<1>9. RowsStayAway(G)'
  <2>1. ASSUME NEW k \in 0..(N - 1), NEW j \in 0..k, NEW i \in Items, G[k].owner[i] # None
        PROVE  G[j].owner[i] # None
    <3>1. \A l \in 0..N : \A o \in 0..l : H[l].owner[i] # None => H[o].owner[i] # None
      BY DEF Agrees, RowsStayAway, N
    <3>2. k + 1 \in 0..N /\ j + 1 \in 0..(k + 1) /\ G[k] = H[k + 1] /\ G[j] = H[j + 1]
      BY <1>3
    <3>3. QED
      BY <2>1, <3>1, <3>2
  <2>2. Len(pending') = N - 1
    BY <1>3
  <2>3. QED
    BY <2>1, <2>2 DEF RowsStayAway
<1>10. OffersAreOwned(G)'
  BY <1>2, <1>3 DEF Agrees, OffersAreOwned
<1>11. GoldStays(G)'
  <2>1. ASSUME NEW k \in 0..(N - 1) PROVE AllGold(G[k]) = Total(InitialMoney)
    <3>1. \A l \in 0..N : AllGold(H[l]) = Total(InitialMoney)
      BY DEF Agrees, GoldStays, N
    <3>2. k + 1 \in 0..N /\ G[k] = H[k + 1]
      BY <1>3
    <3>3. QED
      BY <3>1, <3>2
  <2>2. ASSUME NEW x \in online' PROVE money'[x] + spent'[x] = d.money[x] + d.spent[x]
    <3>1. \A y \in online : money[y] + spent[y] = d.money[y] + d.spent[y]
      BY <1>2 DEF Agrees, GoldStays
    <3>2. CASE Arrives(p) /\ x = p
      BY <1>5, <1>6, <3>2 DEF Arrives
    <3>3. CASE Arrives(p) /\ x # p
      BY <1>5, <2>2, <3>1, <3>3 DEF Arrives
    <3>4. CASE UNCHANGED <<online, bag, money, spent>>
      BY <2>2, <3>1, <3>4
    <3>5. QED
      BY <1>4, <3>2, <3>3, <3>4
  <2>3. QED
    BY <1>3, <2>1, <2>2 DEF GoldStays
<1>12. QED
  BY <1>3, <1>7, <1>8, <1>9, <1>10, <1>11 DEF Agrees

-----------------------------------------------------------------------------
(* Only the rows remain.                                                   *)
LEMMA CrashStep ==
    ASSUME TypeInv, NEW H, Agrees(H), Crash
    PROVE  \E G : Agrees(G)'
<1>1. PICK G : G = [k \in 0..0 |-> db]
  OBVIOUS
<1>2. /\ online' = {} /\ bag' = [p \in Players |-> {}] /\ gone' = [p \in Players |-> {}]
      /\ m_trade' = [p \in Players |-> None] /\ pending' = <<>> /\ db' = db
  BY DEF Crash
<1>3. Len(pending') = 0 /\ 0..0 = {0} /\ 1..0 = {} /\ LastOf(G)' = db
  BY <1>1, <1>2 DEF LastOf
<1>4. AllGold(db) = Total(InitialMoney)
  <2>1. pending \in Seq(Entry) /\ H[0] = db
    BY DEF TypeInv, Agrees, IsReplay
  <2>2. 0 \in 0..Len(pending)
    BY <2>1
  <2>3. QED
    BY <2>1, <2>2 DEF Agrees, GoldStays
<1>5. IsReplay(G, db, pending)'
  BY <1>1, <1>2, <1>3 DEF TypeInv, IsReplay
<1>6. HoldingsMatch(G)' /\ LoginsWait(G)' /\ RowsStayAway(G)' /\ OffersAreOwned(G)'
  BY <1>1, <1>2, <1>3 DEF HoldingsMatch, LoginsWait, RowsStayAway, OffersAreOwned
<1>7. GoldStays(G)'
  BY <1>1, <1>2, <1>3, <1>4 DEF GoldStays
<1>8. QED
  BY <1>5, <1>6, <1>7 DEF Agrees

(* The game starts with an empty queue and every player as his rows say.   *)
LEMMA InitAgrees ==
    ASSUME Init
    PROVE  TypeInv /\ WindowsInv /\ \E G : Agrees(G)
<1>1. WindowsInv
  BY DEF Init, WindowsInv, Windows, TradesAreMutual
<1> DEFINE Owner(i) == IF \E p \in Players: i \in InitialItems[p]
                       THEN CHOOSE p \in Players: i \in InitialItems[p] ELSE None
<1>2. /\ online = Players /\ bag = InitialItems /\ money = InitialMoney
      /\ count = [i \in Items |-> MaxStack]
      /\ spent = [p \in Players |-> 0] /\ gone = [p \in Players |-> {}]
      /\ m_trade = [p \in Players |-> None] /\ pending = <<>>
      /\ db = [owner |-> [i \in Items |-> Owner(i)], count |-> count,
               money |-> money, spent |-> spent]
      /\ trades = 0 /\ mishaps = 0
  BY DEF Init
<1>3. ASSUME NEW i \in Items
      PROVE  /\ Owner(i) \in Players \cup {None}
             /\ \A p \in Players : i \in InitialItems[p] => Owner(i) = p
  <2>1. \A p, q \in Players : i \in InitialItems[p] /\ i \in InitialItems[q] => p = q
    BY TradeAssumption
  <2>2. QED
    BY <2>1
<1> HIDE DEF Owner
<1>4. count \in [Items -> 1..MaxStack] /\ db \in Database
  BY <1>2, <1>3, TradeAssumption DEF Database
<1>5. TypeInv
  <2>1. RestTyped
    BY <1>2, <1>4, TradeAssumption DEF RestTyped
  <2>2. SlotsDiffer
    BY <1>2 DEF SlotsDiffer
  <2>3. QED
    BY <1>1, <2>1, <2>2, TypeParts DEF WindowsInv
<1>6. PICK G : G = [k \in 0..0 |-> db]
  OBVIOUS
<1>7. Len(pending) = 0 /\ 0..0 = {0} /\ 1..0 = {} /\ LastOf(G) = db
  BY <1>2, <1>6 DEF LastOf
<1>8. IsReplay(G, db, pending)
  BY <1>2, <1>4, <1>6, <1>7 DEF IsReplay
<1>9. HoldingsMatch(G)
  BY <1>2, <1>3, <1>7, TradeAssumption DEF HoldingsMatch, Owned
<1>10. LoginsWait(G) /\ RowsStayAway(G) /\ OffersAreOwned(G)
  BY <1>2, <1>6, <1>7 DEF LoginsWait, RowsStayAway, OffersAreOwned
<1>11. AllGold(db) = Total(InitialMoney)
  <2>1. db.money = InitialMoney /\ \A x \in Players : db.spent[x] = 0
    BY <1>2
  <2>2. IsFiniteSet(Players) /\ InitialMoney \in [Players -> 0..MAX_MONEY_AMOUNT]
    BY TradeAssumption
  <2>3. /\ IsFiniteSet(Players) /\ \A x \in Players : InitialMoney[x] \in Int
        /\ Total(InitialMoney) = SumOver(InitialMoney, Players)
    <3>1. DOMAIN InitialMoney = Players
      BY <2>2
    <3>2. Total(InitialMoney) = SumOver(InitialMoney, DOMAIN InitialMoney)
      BY DEF Total, FoldFunction, SumOver
    <3>3. QED
      BY <2>2, <3>1, <3>2
  <2>4. \A x \in Players : GoldOf(db)[x] = InitialMoney[x]
    BY <2>1, <2>3 DEF GoldOf
  <2>5. SumOver(InitialMoney, Players) = SumOver(GoldOf(db), Players)
    BY <2>3, <2>4, SumCongruence
  <2>6. QED
    BY <1>4, <2>3, <2>5, GoldIsSum
<1>12. GoldStays(G)
  BY <1>2, <1>6, <1>7, <1>11 DEF GoldStays
<1>13. QED
  BY <1>1, <1>5, <1>8, <1>9, <1>10, <1>12 DEF Agrees

-----------------------------------------------------------------------------
(* The inductive invariant: types, windows, and a replay of the queue that *)
(* agrees with the world.                                                  *)
Inv == TypeInv /\ WindowsInv /\ \E H : Agrees(H)

(* The exchange keeps everything, but with the other player.               *)
LEMMA ExchangeStep ==
    ASSUME TypeInv, WindowsInv, [Next]_vars, NEW H, Agrees(H),
           NEW p \in Players, m_trade[p] # None, p \in online, Exchange(p, m_trade[p].trader)
    PROVE  \E G : Agrees(G)'
<1> DEFINE q == m_trade[p].trader
           W == {p, q}
<1>1. q \in Players /\ q \in online /\ p # q
  BY Fields DEF WindowsInv, Windows, TradesAreMutual
<1>2. /\ Swapped(p, q, bag', money')
      /\ pending' = Append(pending, Saving(W, bag', money'))
  BY ExchangeEffect
<1>3. /\ gone' = Cleaned(W) /\ UNCHANGED <<online, spent, db>>
      /\ m_trade' = [m_trade EXCEPT ![p] = None, ![q] = None]
  BY DEF Exchange
<1> HIDE DEF q
<1>4. PICK b, m : b = bag' /\ m = money'
  OBVIOUS
<1>5. \A x, y \in Players : x # y => bag[x] \cap bag[y] = {}
  BY DEF Agrees, HoldingsMatch, Owned
<1>6. Given(p) \subseteq bag[p] /\ Given(q) \subseteq bag[q]
  BY <1>1, GivenOwn
<1>7. b[p] \cap b[q] = {}
  <2>1. bag[p] \cap bag[q] = {}
    BY <1>1, <1>5
  <2>2. b[p] = (bag[p] \ Given(p)) \cup Given(q) /\ b[q] = (bag[q] \ Given(q)) \cup Given(p)
    BY <1>2, <1>4 DEF Swapped
  <2>3. QED
    BY <1>6, <2>1, <2>2
<1>8. b[p] \cup b[q] \subseteq bag[p] \cup bag[q]
  BY <1>2, <1>4, <1>6 DEF Swapped
<1>9. m_trade'[p] = None /\ m_trade'[q] = None
  BY <1>1, <1>3 DEF WindowsInv, Windows
<1>10. m[p] + m[q] = money[p] + money[q]
  <2>1. m_trade[p] \in TradeDatas /\ m_trade[q] \in TradeDatas
    BY <1>1 DEF WindowsInv, Windows, TradesAreMutual, q
  <2>2. /\ m_trade[p].money \in Int /\ m_trade[q].money \in Int
        /\ money[p] \in Int /\ money[q] \in Int
    <3>1. m_trade[p].money \in 0..MAX_MONEY_AMOUNT /\ m_trade[q].money \in 0..MAX_MONEY_AMOUNT
      BY <2>1, Fields
    <3>2. money[p] \in 0..MAX_MONEY_AMOUNT /\ money[q] \in 0..MAX_MONEY_AMOUNT
      BY <1>1 DEF TypeInv, TypeOK
    <3>3. QED
      BY <3>1, <3>2
  <2>3. /\ m[p] = money[p] - m_trade[p].money + m_trade[q].money
        /\ m[q] = money[q] - m_trade[q].money + m_trade[p].money
    BY <1>2, <1>4 DEF Swapped
  <2>4. QED
    BY <2>2, <2>3
<1>11. Redistributed(W, b, m)
  BY <1>1, <1>2, <1>4, <1>7, <1>8, <1>9, <1>10 DEF Redistributed, Swapped
<1>12. SavedTogether(W, b, m)
  BY <1>2, <1>3, <1>4 DEF SavedTogether, Swapped
<1>13. QED
  BY <1>1, <1>11, <1>12, SavingStep

(* SaveToDB, from the timer or at logout.                                  *)
LEMMA SaveStep ==
    ASSUME TypeInv, WindowsInv, [Next]_vars, NEW H, Agrees(H),
           NEW p \in Players, SaveToDB(p) \/ LogoutPlayer(p)
    PROVE  \E G : Agrees(G)'
<1>1. PICK b, m : b = bag /\ m = money
  OBVIOUS
<1>2. bag \in [Players -> SUBSET Items] /\ money \in [Players -> 0..MAX_MONEY_AMOUNT]
  BY DEF TypeInv, TypeOK
<1>3. /\ p \in online /\ pending' = Append(pending, Saving({p}, bag, money))
      /\ gone' = Cleaned({p}) /\ UNCHANGED <<db, spent, money>>
      /\ online' \subseteq online
      /\ bag' = bag \/ bag' = [bag EXCEPT ![p] = {}]
  BY DEF SaveToDB, LogoutPlayer, Behind
<1>4. \A x \in Players : bag'[x] \subseteq bag[x]
  BY <1>2, <1>3
<1>5. SavedTogether({p}, b, m)
  BY <1>1, <1>3, <1>4 DEF SavedTogether
<1>6. Redistributed({p}, b, m)
  BY <1>1, <1>2 DEF Redistributed
<1>7. QED
  BY <1>3, <1>5, <1>6, SavingStep

(* The worker thread.                                                      *)
LEMMA WorkerStep ==
    ASSUME TypeInv, WindowsInv, [Next]_vars, NEW H, Agrees(H), ExecuteTransaction \/ LoadPlayer
    PROVE  \E G : Agrees(G)'
<1>1. CASE ExecuteTransaction
  BY <1>1, TakenStep DEF ExecuteTransaction, After, inventory
<1>2. CASE LoadPlayer
  <2> DEFINE p == Head(pending).load
  <2>1. pending # <<>> /\ p # None /\ pending' = Tail(pending) /\ UNCHANGED <<gone, m_trade, db>>
    BY <1>2 DEF LoadPlayer
  <2>2. Head(pending) \in Entry
    BY <2>1 DEF TypeInv
  <2>3. p \in Players
    BY <2>1, <2>2 DEF Entry
  <2>4. Arrives(p)
    BY <1>2, <2>1, <2>3 DEF Arrives, LoadPlayer, Enters, Owned
  <2>5. db' = After(db, Head(pending))
    BY <2>1 DEF After
  <2>6. QED
    BY <2>1, <2>4, <2>5, TakenStep
<1>3. QED
  BY <1>1, <1>2

(* What a step does that neither queues nor executes anything.             *)
Quiet ==
    \/ UNCHANGED vars
    \/ \E p, q \in Players : Initiate(p, q)
    \/ \E p \in Players :
        \/ WindowStep(p) \/ CancelTrade(p) \/ Spend(p)
        \/ \E i \in Items : DestroyItem(p, i)
        \/ LET q == m_trade[p].trader IN
           AcceptRefused(p, q) \/ AcceptWaits(p, q) \/ SpellFails(p, q) \/ ItemsDoNotFit(p, q)

(* The handlers of the window but for the exchange, and what takes items   *)
(* and gold out of the bags, change nothing the queue or the rows tell.    *)
LEMMA QuietNext ==
    ASSUME TypeInv, WindowsInv, [Next]_vars, NEW H, Agrees(H), Quiet
    PROVE  Agrees(H)'
<1>1. bag \in [Players -> SUBSET Items] /\ gone \in [Players -> SUBSET Items]
      /\ money \in [Players -> 0..MAX_MONEY_AMOUNT] /\ spent \in [Players -> Nat]
      /\ online \subseteq Players
  BY DEF TypeInv, TypeOK
<1>2. ASSUME UNCHANGED <<online, inventory, db, pending>> PROVE Agrees(H)'
  BY <1>2, QuietStep DEF inventory
<1>3. CASE UNCHANGED vars
  BY <1>2, <1>3 DEF vars
<1>4. ASSUME NEW p \in Players, NEW q \in Players, Initiate(p, q) PROVE Agrees(H)'
  BY <1>2, <1>4 DEF Initiate
<1>5. ASSUME NEW p \in Players, WindowStep(p) PROVE Agrees(H)'
  <2>1. UNCHANGED <<online, bag, gone, money, spent, db, pending>>
    BY <1>5 DEF WindowStep, ClearTradeItem, SetTradeItem, SetTradeGold, SetTradeSpell,
                UnacceptTrade, SetCount, inventory
  <2>2. QED
    BY <2>1, QuietStep
<1>6. ASSUME NEW p \in Players, CancelTrade(p) PROVE Agrees(H)'
  BY <1>2, <1>6 DEF CancelTrade
<1>7. ASSUME NEW p \in Players, Spend(p) PROVE Agrees(H)'
  <2>1. UNCHANGED <<online, bag, gone, db, pending>>
    BY <1>7 DEF Spend
  <2>2. \A x \in Players : money'[x] + spent'[x] = money[x] + spent[x]
    BY <1>1, <1>7 DEF Spend
  <2>3. QED
    BY <1>1, <2>1, <2>2, QuietStep
<1>8. ASSUME NEW p \in Players, NEW i \in Items, DestroyItem(p, i) PROVE Agrees(H)'
  <2>1. UNCHANGED <<online, money, spent, db, pending>>
    BY <1>8 DEF DestroyItem
  <2>2. \A x \in Players : bag'[x] \cup gone'[x] \subseteq bag[x] \cup gone[x]
    BY <1>1, <1>8 DEF DestroyItem
  <2>3. QED
    BY <2>1, <2>2, QuietStep
<1>9. ASSUME NEW p, NEW q,
             AcceptRefused(p, q) \/ AcceptWaits(p, q) \/ SpellFails(p, q) \/ ItemsDoNotFit(p, q)
      PROVE  Agrees(H)'
  BY <1>2, <1>9 DEF AcceptRefused, AcceptWaits, SpellFails, ItemsDoNotFit
<1>10. QED
  BY <1>3, <1>4, <1>5, <1>6, <1>7, <1>8, <1>9 DEF Quiet

(* The invariant is inductive.                                             *)
LEMMA InvNext == Inv /\ [Next]_vars => Inv'
<1> SUFFICES ASSUME Inv, [Next]_vars PROVE Inv'
  OBVIOUS
<1>1. TypeInv /\ WindowsInv
  BY DEF Inv
<1>2. TypeInv' /\ WindowsInv'
  BY <1>1, TypesNext, WindowsNext
<1>3. PICK H : Agrees(H)
  BY DEF Inv
<1>4. \E G : Agrees(G)'
  <2>1. CASE Quiet
    BY <1>1, <1>3, <2>1, QuietNext
  <2>2. ASSUME NEW p \in Players, AcceptTrade(p), Exchange(p, m_trade[p].trader)
        PROVE  \E G : Agrees(G)'
    BY <1>1, <1>3, <2>2, ExchangeStep DEF AcceptTrade, Trading
  <2>3. ASSUME NEW p \in Players, SaveToDB(p) \/ LogoutPlayer(p) PROVE \E G : Agrees(G)'
    BY <1>1, <1>3, <2>3, SaveStep
  <2>4. ASSUME NEW p \in Players, PlayerLogin(p) PROVE \E G : Agrees(G)'
    BY <1>1, <1>3, <2>4, LoginStep
  <2>5. CASE ExecuteTransaction \/ LoadPlayer
    BY <1>1, <1>3, <2>5, WorkerStep
  <2>6. CASE Crash
    BY <1>1, <1>3, <2>6, CrashStep
  <2>7. ASSUME NEW p \in Players, AcceptTrade(p)
        PROVE  Quiet \/ Exchange(p, m_trade[p].trader)
    BY <2>7 DEF AcceptTrade, Quiet
  <2>8. QED
    BY <2>1, <2>2, <2>3, <2>4, <2>5, <2>6, <2>7 DEF Next, Quiet, WindowStep
<1>5. QED
  BY <1>2, <1>4 DEF Inv

(* It holds at all times.                                                  *)
LEMMA Invariance == Spec => []Inv
<1>1. Init => Inv
  BY InitAgrees DEF Inv
<1>2. QED
  BY <1>1, InvNext, PTL DEF Spec

(* Every variable keeps to its type whatever is traded, saved and lost; in *)
(* particular no gold is negative or beyond MAX_MONEY_AMOUNT, and          *)
(* HandleSetTradeItemOpcode never leaves an item in two slots of a window. *)
THEOREM TypesAreKept == Spec => []TypeOK
<1>1. Inv => TypeOK
  BY DEF Inv, TypeInv
<1>2. QED
  BY <1>1, Invariance, PTL

(* No item is in two bags, whenever players trade, log out and come back   *)
(* while their saves wait in the queue of the database (no duplicates).    *)
THEOREM ItemsHaveOneHolder == Spec => []OneHolder
<1>1. Inv => OneHolder
  BY DEF Inv, Agrees, HoldingsMatch, Owned, OneHolder
<1>2. QED
  BY <1>1, Invariance, PTL

(* At any moment a crash could make final, the rows hold all the gold      *)
(* there is and a row for every item in a bag: no transaction is half an   *)
(* exchange.                                                               *)
THEOREM RowsAreWhole == Spec => []TradesAreSavedWhole
<1>1. ASSUME Inv PROVE TradesAreSavedWhole
  <2>1. PICK H : Agrees(H)
    BY <1>1 DEF Inv
  <2>2. /\ H[0] = db /\ 0 \in 0..Len(pending) /\ Len(pending) \in 0..Len(pending)
        /\ 0 \in 0..Len(pending)
    BY <1>1, <2>1 DEF Inv, TypeInv, Agrees, IsReplay
  <2>3. AllGold(db) = Total(InitialMoney)
    BY <2>1, <2>2 DEF Agrees, GoldStays
  <2>4. ASSUME NEW p \in online, NEW i \in bag[p] PROVE db.owner[i] # None
    <3>1. p \in Players /\ p # None
      BY <1>1, TradeAssumption DEF Inv, TypeInv, TypeOK
    <3>2. i \in Items /\ LastOf(H).owner[i] = p
      BY <2>1, <3>1 DEF Agrees, HoldingsMatch, Owned
    <3>3. QED
      BY <2>1, <2>2, <3>1, <3>2 DEF Agrees, RowsStayAway, LastOf
  <2>5. QED
    BY <2>3, <2>4 DEF TradesAreSavedWhole, AllGold
<1>2. QED
  BY <1>1, Invariance, PTL

-----------------------------------------------------------------------------
(* Two windows are left alone by whoever acts on two others.               *)
LEMMA OthersStay ==
    ASSUME WindowsInv, NEW x \in Players, NEW p \in Players, m_trade[x] # None, m_trade[p] # None,
           p \notin {x, m_trade[x].trader}
    PROVE  m_trade[p].trader \notin {x, m_trade[x].trader} /\ m_trade[p].trader \in Players
BY Fields DEF WindowsInv, Windows, TradesAreMutual

(* What stands in two windows stays there for as long as an acceptance     *)
(* does.                                                                   *)
LEMMA OffersStand ==
    ASSUME Inv, [Next]_vars, NEW p \in Players,
           m_trade[p] # None, m_trade'[p] # None, m_trade'[p].accepted,
           NEW y \in {p, m_trade[p].trader}
    PROVE  /\ y \in Players /\ m_trade[y] # None /\ m_trade'[y] # None
           /\ SameOffer(m_trade'[y], m_trade[y])
<1> DEFINE q == m_trade[p].trader
<1>1. WindowsInv /\ WindowsInv' /\ bag \in [Players -> SUBSET Items]
  BY WindowsNext DEF Inv, TypeInv, TypeOK
<1>2. /\ q \in Players /\ p # q /\ m_trade[q] # None /\ m_trade[q].trader = p
      /\ q \in online /\ p \in online
  BY <1>1, Fields DEF WindowsInv, Windows, TradesAreMutual
<1>3. CASE Kept(m_trade')
  <2>1. SameOffer(m_trade'[p], m_trade[p]) /\ m_trade'[p].trader = q
    BY <1>3 DEF Kept, SameOffer
  <2>2. m_trade'[q] # None
    BY <1>1, <2>1 DEF WindowsInv, TradesAreMutual
  <2>3. SameOffer(m_trade'[q], m_trade[q])
    BY <1>2, <1>3, <2>2 DEF Kept
  <2>4. QED
    BY <1>2, <2>1, <2>2, <2>3
<1>4. ASSUME NEW x \in Players, m_trade[x] # None, Reoffered(x, m_trade[x].trader, m_trade')
      PROVE  m_trade'[p] = m_trade[p] /\ m_trade'[q] = m_trade[q]
  <2>1. p \notin {x, m_trade[x].trader}
    BY <1>4 DEF Reoffered
  <2>2. QED
    BY <1>1, <1>4, <2>1, OthersStay DEF Reoffered
<1>5. ASSUME NEW x \in Players, NEW z \in Players, Opened(x, z, m_trade')
      PROVE  m_trade'[p] = m_trade[p] /\ m_trade'[q] = m_trade[q]
  BY <1>2, <1>5 DEF Opened
<1>6. ASSUME m_trade'[p] = m_trade[p] /\ m_trade'[q] = m_trade[q]
      PROVE  /\ y \in Players /\ m_trade[y] # None /\ m_trade'[y] # None
             /\ SameOffer(m_trade'[y], m_trade[y])
  BY <1>2, <1>6 DEF SameOffer
<1>7. QED
  BY <1>1, <1>3, <1>4, <1>5, <1>6, WindowsChange

(* Neither does the count of an item in them change.                       *)
LEMMA CountsStand ==
    ASSUME Inv, [Next]_vars, NEW p \in Players,
           m_trade[p] # None, m_trade'[p] # None, m_trade'[p].accepted,
           NEW y \in {p, m_trade[p].trader}, NEW s \in Slots, m_trade[y].items[s] # None
    PROVE  count'[m_trade[y].items[s]] = count[m_trade[y].items[s]]
<1> DEFINE i == m_trade[y].items[s]
<1>1. /\ y \in Players /\ m_trade[y] # None /\ y \in online
      /\ m_trade \in Windows /\ TradesAreMutual
  BY OffersStand DEF Inv, WindowsInv, TradesAreMutual
<1>2. i \in Items
  <2>1. m_trade[y].items \in [Slots -> Items \cup {None}]
    BY <1>1, Fields DEF Windows
  <2>2. QED
    BY <2>1
<1>3. PICK H : Agrees(H)
  BY DEF Inv
<1>4. LastOf(H).owner[i] \in {y, None}
  BY <1>1, <1>3 DEF Agrees, OffersAreOwned
<1>5. \A x \in Players : i \in bag[x] => x = y
  BY <1>3, <1>4, TradeAssumption DEF Agrees, HoldingsMatch, Owned
<1>6. count \in [Items -> 1..MaxStack]
  BY DEF Inv, TypeInv, TypeOK
<1>7. ASSUME NEW x \in Players, NEW j \in Items, SetCount(x, j), j = i PROVE FALSE
  <2>1. x = y /\ HasItem(x, j)
    BY <1>1, <1>5, <1>7 DEF SetCount, HasItem
  <2> DEFINE z == m_trade[y].trader
             t == CHOOSE u \in Slots : m_trade[y].items[u] = i
  <2>2. m_trade' = PutItem(y, z, t, i) /\ i \in bag[y]
    BY <1>1, <1>7, <2>1 DEF SetCount
  <2>3. t \in Slots /\ m_trade[y].items[t] = i
    BY <2>1, <1>7 DEF HasItem
  <2>4. z \in Players /\ z # y /\ m_trade[z] # None /\ p \in {y, z}
    BY <1>1, Fields DEF Windows, TradesAreMutual
  <2>5. bag[y] \subseteq Items
    BY <1>1 DEF Inv, TypeInv, TypeOK
  <2> HIDE DEF t, z
  <2>6. Reoffered(y, z, PutItem(y, z, t, i))
    BY <1>1, <2>2, <2>3, <2>4, <2>5, PutItemEffect
  <2>7. ~m_trade'[p].accepted
    BY <2>2, <2>4, <2>6 DEF Reoffered
  <2>8. QED
    BY <2>7
<1>8. CASE LoadPlayer
  <2> DEFINE r == Head(pending).load
  <2>1. /\ pending # <<>> /\ r # None
        /\ count' = [k \in Items |-> IF db.owner[k] = r THEN db.count[k] ELSE count[k]]
    BY <1>8 DEF LoadPlayer, Enters
  <2>2. /\ pending \in Seq(Entry) /\ Head(pending) \in Entry /\ Head(pending) = pending[1]
        /\ 1 \in 1..Len(pending) /\ 1 - 1 = 0
    BY <2>1 DEF Inv, TypeInv
  <2>3. r \in Players
    BY <2>1, <2>2 DEF Entry
  <2>4. r \notin online /\ Owned(H[1 - 1], r) \subseteq Owned(LastOf(H), r)
    BY <1>3, <2>2, <2>3 DEF Agrees, LoginsWait, SameHoldings
  <2>5. H[0] = db
    BY <1>3 DEF Agrees, IsReplay
  <2>6. db.owner[i] # r
    <3>1. db.owner[i] = r => LastOf(H).owner[i] = r
      BY <1>2, <2>2, <2>4, <2>5 DEF Owned
    <3>2. QED
      BY <1>1, <1>4, <2>1, <2>4, <3>1
  <2> HIDE DEF r, i
  <2>7. count'[i] = count[i]
    BY <1>2, <2>1, <2>6
  <2>8. QED
    BY <2>7 DEF i
<1>9. ASSUME NEW x \in Players, NEW j \in Items, SetCount(x, j) PROVE count'[i] = count[i]
  BY <1>2, <1>6, <1>7, <1>9 DEF SetCount
<1>10. ASSUME NEW x \in Players, AcceptTrade(x) PROVE UNCHANGED count
  BY <1>10 DEF AcceptTrade, AcceptRefused, AcceptWaits, SpellFails, ItemsDoNotFit, Exchange,
               inventory
<1>11. ASSUME NEW x \in Players,
              \/ \E t \in Slots : ClearTradeItem(x, t) \/ \E j \in Items : SetTradeItem(x, t, j)
              \/ \E gold \in 0..MAX_MONEY_AMOUNT : SetTradeGold(x, gold)
              \/ SetTradeSpell(x) \/ UnacceptTrade(x) \/ CancelTrade(x)
              \/ \E j \in Items : DestroyItem(x, j)
              \/ Spend(x) \/ SaveToDB(x) \/ LogoutPlayer(x) \/ PlayerLogin(x)
              \/ \E z \in Players : Initiate(x, z)
       PROVE  UNCHANGED count
  BY <1>11 DEF ClearTradeItem, SetTradeItem, SetTradeGold, SetTradeSpell, UnacceptTrade,
               CancelTrade, DestroyItem, Spend, SaveToDB, LogoutPlayer, PlayerLogin, Initiate,
               inventory
<1>12. CASE ExecuteTransaction \/ Crash \/ UNCHANGED vars
  BY <1>12 DEF ExecuteTransaction, Crash, vars, inventory
<1>13. QED
  BY <1>8, <1>9, <1>10, <1>11, <1>12 DEF Next

(* And no item that had left the bag of its owner comes back into it.      *)
LEMMA LostStayLost ==
    ASSUME Inv, [Next]_vars, NEW p \in Players,
           m_trade[p] # None, m_trade'[p] # None, m_trade'[p].accepted,
           NEW y \in {p, m_trade[p].trader}
    PROVE  bag'[y] \subseteq bag[y]
<1>1. /\ y \in Players /\ m_trade[y] # None /\ m_trade'[y] # None /\ y \in online
      /\ m_trade \in Windows /\ TradesAreMutual /\ bag \in [Players -> SUBSET Items]
  BY OffersStand DEF Inv, WindowsInv, TradesAreMutual, TypeInv, TypeOK
<1>2. ASSUME NEW x \in Players, AcceptTrade(x), Exchange(x, m_trade[x].trader)
      PROVE  bag'[y] \subseteq bag[y]
  <2> DEFINE z == m_trade[x].trader
             b == MoveItems(x, z)
  <2>1. m_trade[x] # None /\ z \in Players
    <3>1. m_trade[x] # None
      BY <1>2, Zenon DEF AcceptTrade, Trading
    <3>2. QED
      BY <1>1, <3>1, Fields DEF Windows
  <2>2. /\ m_trade' = [m_trade EXCEPT ![x] = None, ![z] = None]
        /\ bag' = [bag EXCEPT ![x] = b.mine, ![z] = b.his]
    BY <1>2 DEF Exchange
  <2> HIDE DEF z, b
  <2>3. y \notin {x, z}
    BY <1>1, <2>1, <2>2 DEF Windows
  <2>4. QED
    BY <1>1, <2>2, <2>3
<1>3. ASSUME NEW x \in Players, AcceptTrade(x), ~Exchange(x, m_trade[x].trader) PROVE UNCHANGED bag
  BY <1>3 DEF AcceptTrade, AcceptRefused, AcceptWaits, SpellFails, ItemsDoNotFit, inventory
<1>4. ASSUME NEW x \in Players,
             \/ \E t \in Slots : ClearTradeItem(x, t) \/ \E j \in Items : SetTradeItem(x, t, j)
             \/ \E gold \in 0..MAX_MONEY_AMOUNT : SetTradeGold(x, gold)
             \/ SetTradeSpell(x) \/ UnacceptTrade(x) \/ CancelTrade(x)
             \/ \E j \in Items : SetCount(x, j)
             \/ Spend(x) \/ SaveToDB(x) \/ PlayerLogin(x)
             \/ \E z \in Players : Initiate(x, z)
      PROVE  UNCHANGED bag
  BY <1>4 DEF ClearTradeItem, SetTradeItem, SetTradeGold, SetTradeSpell, UnacceptTrade,
              CancelTrade, SetCount, Spend, SaveToDB, PlayerLogin, Initiate, inventory
<1>5. CASE ExecuteTransaction \/ UNCHANGED vars
  BY <1>5 DEF ExecuteTransaction, vars, inventory
<1>6. ASSUME NEW x \in Players, LogoutPlayer(x) \/ \E j \in Items : DestroyItem(x, j)
      PROVE  bag'[y] \subseteq bag[y]
  <2>1. CASE LogoutPlayer(x)
    <3>1. bag' = [bag EXCEPT ![x] = {}]
      BY <2>1, Zenon DEF LogoutPlayer
    <3>2. QED
      BY <1>1, <3>1
  <2>2. ASSUME NEW j \in Items, DestroyItem(x, j) PROVE bag'[y] \subseteq bag[y]
    <3>1. bag' = [bag EXCEPT ![x] = bag[x] \ {j}]
      BY <2>2 DEF DestroyItem
    <3>2. QED
      BY <1>1, <3>1
  <2>3. QED
    BY <1>6, <2>1, <2>2, Zenon
<1>7. CASE LoadPlayer
  <2> DEFINE r == Head(pending).load
             B == {i \in Items : db.owner[i] = r}
  <2>1. pending # <<>> /\ r # None /\ bag' = [bag EXCEPT ![r] = B]
    BY <1>7 DEF LoadPlayer, Enters
  <2>2. /\ Head(pending) \in Entry /\ Head(pending) = pending[1] /\ 1 \in 1..Len(pending)
    BY <2>1 DEF Inv, TypeInv
  <2>3. r \in Players
    BY <2>1, <2>2 DEF Entry
  <2>4. r \notin online
    BY <2>2, <2>3 DEF Inv, Agrees, LoginsWait
  <2> HIDE DEF r, B
  <2>5. QED
    BY <1>1, <2>1, <2>4
<1>8. CASE Crash
  BY <1>1, <1>8 DEF Crash
<1>9. QED
  BY <1>2, <1>3, <1>4, <1>5, <1>6, <1>7, <1>8 DEF Next

(* HandleAcceptTradeOpcode, Item::SetCount and the handlers that change an *)
(* offer: an acceptance that stands is for the windows it was given for,   *)
(* of which nothing but a lost item may be missing.                        *)
THEOREM AcceptancesStand == Spec => AcceptancesStandForTheOffers
<1>1. ASSUME Inv, [Next]_vars, NEW p \in Players PROVE StandsForTheOffers(p)
  <2> SUFFICES ASSUME m_trade[p] # None, m_trade'[p] # None, m_trade'[p].accepted,
                      NEW y \in {p, m_trade[p].trader}
               PROVE  /\ Window(y)' = Window(y)
                      /\ \A s \in Slots : GetItem(y, s)' \in {GetItem(y, s), None}
    BY DEF StandsForTheOffers
  <2>1. SameOffer(m_trade'[y], m_trade[y])
    BY <1>1, OffersStand
  <2>2. \A s \in Slots : m_trade[y].items[s] # None =>
              count'[m_trade[y].items[s]] = count[m_trade[y].items[s]]
    BY <1>1, CountsStand
  <2>3. Window(y)' = Window(y)
    BY <2>1, <2>2 DEF Window, SameOffer
  <2>4. bag'[y] \subseteq bag[y]
    BY <1>1, LostStayLost
  <2>5. ASSUME NEW s \in Slots PROVE GetItem(y, s)' \in {GetItem(y, s), None}
    BY <2>1, <2>4 DEF GetItem, SameOffer
  <2>6. QED
    BY <2>3, <2>5
<1>2. Inv /\ [Next]_vars => [\A p \in Players : StandsForTheOffers(p)]_vars
  BY <1>1
<1>3. QED
  BY <1>2, Invariance, PTL DEF Spec, AcceptancesStandForTheOffers

-----------------------------------------------------------------------------
(* A window that closes while both stay in the world has changed nothing,  *)
(* or moved both offers as they were, all of them, to players who had      *)
(* agreed.                                                                 *)
THEOREM TradesAreFair == Spec => TradesEndFairly
<1>1. ASSUME Inv, [Next]_vars, NEW p \in Players, NEW q \in Players,
             m_trade[p] # None, m_trade[p].trader = q,
             m_trade'[p] = None, {p, q} \subseteq online'
      PROVE  \/ UNCHANGED <<bag, money>>
             \/ /\ m_trade[p].accepted \/ m_trade[q].accepted
                /\ bag'[p] = (bag[p] \ Given(p)) \cup Given(q)
                /\ money'[p] = money[p] - m_trade[p].money + m_trade[q].money
  <2>1. TypeInv /\ WindowsInv /\ m_trade \in Windows /\ m_trade[q].trader = p /\ p # q
    BY <1>1 DEF Inv, WindowsInv, TradesAreMutual
  <2>2. ASSUME NEW x \in Players, AcceptTrade(x), Exchange(x, m_trade[x].trader)
        PROVE  /\ m_trade[p].accepted \/ m_trade[q].accepted
               /\ bag'[p] = (bag[p] \ Given(p)) \cup Given(q)
               /\ money'[p] = money[p] - m_trade[p].money + m_trade[q].money
    <3> DEFINE z == m_trade[x].trader
    <3>1. m_trade[x] # None /\ z \in Players
      <4>1. m_trade[x] # None
        BY <2>2, Zenon DEF AcceptTrade, Trading
      <4>2. QED
        BY <2>1, <4>1, Fields DEF Windows
    <3>2. Swapped(x, z, bag', money') /\ m_trade[z].accepted
          /\ m_trade' = [m_trade EXCEPT ![x] = None, ![z] = None]
      BY <2>1, <2>2, <3>1, ExchangeEffect DEF Exchange, BothAccept
    <3>3. m_trade[z].trader = x
      BY <2>1, <3>1 DEF WindowsInv, TradesAreMutual
    <3> HIDE DEF z
    <3>4. p \in {x, z}
      BY <1>1, <2>1, <3>1, <3>2 DEF Windows
    <3>5. (p = x /\ q = z) \/ (p = z /\ q = x)
      BY <1>1, <3>3, <3>4 DEF z
    <3>6. QED
      BY <3>2, <3>5 DEF Swapped
  <2>3. ASSUME NEW x \in Players, AcceptTrade(x), ~Exchange(x, m_trade[x].trader)
        PROVE  UNCHANGED <<bag, money>>
    BY <2>3 DEF AcceptTrade, AcceptRefused, AcceptWaits, SpellFails, ItemsDoNotFit, inventory
  <2>4. ASSUME NEW x \in Players,
               \/ \E t \in Slots : ClearTradeItem(x, t) \/ \E j \in Items : SetTradeItem(x, t, j)
               \/ \E gold \in 0..MAX_MONEY_AMOUNT : SetTradeGold(x, gold)
               \/ SetTradeSpell(x) \/ UnacceptTrade(x) \/ CancelTrade(x)
               \/ \E j \in Items : SetCount(x, j)
               \/ SaveToDB(x) \/ PlayerLogin(x)
               \/ \E z \in Players : Initiate(x, z)
        PROVE  UNCHANGED <<bag, money>>
    BY <2>4 DEF ClearTradeItem, SetTradeItem, SetTradeGold, SetTradeSpell, UnacceptTrade,
                CancelTrade, SetCount, SaveToDB, PlayerLogin, Initiate, inventory
  <2>5. CASE ExecuteTransaction \/ UNCHANGED vars
    BY <2>5 DEF ExecuteTransaction, vars, inventory
  <2>6. ASSUME LoadPlayer \/ \E x \in Players : Spend(x) \/ \E j \in Items : DestroyItem(x, j)
        PROVE  FALSE
    BY <1>1, <2>6 DEF LoadPlayer, Spend, DestroyItem
  <2>7. ASSUME NEW x \in Players, LogoutPlayer(x) PROVE FALSE
    <3>1. m_trade' = Closed(x) /\ x \notin online'
      BY <2>7 DEF LogoutPlayer
    <3>2. CASE m_trade[x] = None
      BY <1>1, <3>1, <3>2 DEF Closed
    <3>3. CASE m_trade[x] # None
      <4>1. m_trade' = [m_trade EXCEPT ![x] = None, ![m_trade[x].trader] = None]
        BY <3>1, <3>3 DEF Closed
      <4>2. p \in {x, m_trade[x].trader}
        BY <1>1, <2>1, <4>1 DEF Windows
      <4>3. m_trade[m_trade[x].trader].trader = x
        BY <2>1, <3>3 DEF WindowsInv, TradesAreMutual
      <4>4. x \in {p, q}
        BY <1>1, <4>2, <4>3
      <4>5. QED
        BY <1>1, <3>1, <4>4
    <3>4. QED
      BY <3>2, <3>3
  <2>8. CASE Crash
    BY <1>1, <2>8 DEF Crash
  <2>9. QED
    BY <1>1, <2>2, <2>3, <2>4, <2>5, <2>6, <2>7, <2>8 DEF Next
<1>2. ASSUME Inv, [Next]_vars, NEW p \in Players, NEW q \in Players PROVE EndsFairly(p, q)
  BY <1>1, <1>2 DEF EndsFairly
<1>3. Inv /\ [Next]_vars => [\A p, q \in Players : EndsFairly(p, q)]_vars
  BY <1>2
<1>4. QED
  BY <1>3, Invariance, PTL DEF Spec, TradesEndFairly

=============================================================================
