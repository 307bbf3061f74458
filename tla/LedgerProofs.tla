---------------------------- MODULE LedgerProofs ----------------------------
(***************************************************************************)
(* What the ledger promises for every number of customers, orders, codes   *)
(* and overlapping notifications.                                          *)
(*                                                                         *)
(* Two orders that are open at the same time are in `together' (OpenInv);  *)
(* all the limits rest on that.  For the points: an order that is priced   *)
(* with credit fits into what the buyer has left, and goes on fitting      *)
(* until another one that was open beside it consumes some (FitInv).       *)
(*                                                                         *)
(* That nothing is consumed twice rests on the row locks (LockInv): what   *)
(* the lookups of an activation found missing is missing until it commits. *)
(***************************************************************************)
EXTENDS Ledger, FiniteSetTheorems, TLAPS

Fields == {"status", "amount", "credit", "code"}

WorkType == [order : Orders \cup {None}, spend : BOOLEAN, reward : BOOLEAN,
             job : {"none", "activate", "status", "reward", "commit"}]

\* Orders are records; one in hand exists; a grant carries no code.
Shape ==
    /\ DOMAIN order = Orders
    /\ \A o \in Orders : /\ DOMAIN order[o] = Fields
                         /\ order[o].status \in {"none", "pending", "paid"}
                         /\ order[o].code \in Codes \cup {None}
                         /\ o \in Manual => order[o].code = None
    /\ work \in [Workers -> WorkType]
    /\ \A w \in Workers : work[w].job # "none" =>
            /\ work[w].order \in Orders
            /\ order[work[w].order].status # "none"

Counts ==
    /\ spends \in [Orders -> {0, 1}]
    /\ rewards \in [Orders -> {0, 1}]

\* One activation at a time is past its flush, of the orders of a buyer, and what
\* it looked up still holds.
LockInv ==
    /\ \A v, w \in Workers : v # w /\ Holds(v) /\ Holds(w) => Buyer[work[v].order] # Buyer[work[w].order]
    /\ \A w \in Workers : Holds(w) => (work[w].spend <=> ToSpend(work[w].order))
    /\ \A w \in Workers : work[w].job = "commit" => (work[w].reward <=> ToReward(work[w].order))

\* A paid order that earns a reward has brought it.
RewardInv == \A o \in Orders : Paid(o) /\ Earns(o) => rewards[o] = 1

\* A friend's code on an order, paid or not.
WithFriend(o) ==
    /\ order[o].status # "none"
    /\ order[o].code # None
    /\ Owner[order[o].code] # None

\* FriendsCodeOnce, for orders that may still be paid as well.
FriendInv ==
    \A o, q \in Orders : o # q /\ Buyer[o] = Buyer[q] /\ WithFriend(o) /\ WithFriend(q)
                         => {o, q} \in together

\* Orders that carry the code c, none of which was open beside another.
OneByOne(S, c) ==
    /\ \A o \in S : order[o].status # "none" /\ order[o].code = c
    /\ \A o, q \in S : {o, q} \notin together

\* Such orders, paid or not, keep to the cap.
CapInv ==
    \A c \in Codes, S \in SUBSET Orders :
        MaxUses[c] # 0 /\ OneByOne(S, c) => Cardinality(S) <= MaxUses[c]

\* The parts of an order's price: the discounted price, at most half of it in
\* points.
PriceInv ==
    \A o \in Orders :
        /\ order[o].amount \in Nat /\ order[o].credit \in Nat
        /\ o \in Manual \/ order[o].status = "none" => order[o].credit = 0
        /\ o \notin Manual /\ order[o].status # "none" =>
             /\ order[o].amount + order[o].credit = DiscountedPrice(order[o].code)
             /\ order[o].amount >= order[o].credit
             /\ order[o].amount > 0

\* Orders open at the same time were so noted.
OpenInv ==
    \A o, q \in Orders : o # q /\ Open(o) /\ Open(q) => {o, q} \in together

\* An order whose points have been consumed.
Consumed(o) == spends[o] > 0 /\ order[o].credit > 0

\* The points of an order fit into what its buyer has left ...
Fits(o) == spent[Buyer[o]] + order[o].credit <= Points[Buyer[o]]

\* ... or another one that was open beside it has consumed some.
Beside(o) == \E q \in OfUser(Buyer[o]) : {o, q} \in together /\ Consumed(q)

\* Two orders of a customer that were open together have both consumed points.
BothConsumed(u) == \E o, q \in OfUser(u) : {o, q} \in together /\ Consumed(o) /\ Consumed(q)

\* A paid order has consumed its points.  One that has not fits into the rest,
\* unless it was open beside one that has.  Beyond the points there is a pair.
FitInv ==
    /\ spent \in [Users -> Nat] /\ now \in Nat
    /\ \A o \in Orders : spends[o] > 0 => order[o].status # "none"
    /\ \A o \in Orders : Paid(o) /\ order[o].credit > 0 => spends[o] > 0
    /\ \A o \in Orders : order[o].credit > 0 /\ spends[o] = 0 => Fits(o) \/ Beside(o)
    /\ \A u \in Users : spent[u] > Points[u] => BothConsumed(u)

-----------------------------------------------------------------------------
LEMMA InitShape == Init => Shape /\ Counts /\ LockInv /\ RewardInv /\ FriendInv
  BY LedgerAssumption DEF Init, Shape, WorkType, Counts, LockInv, Holds, RewardInv, Paid, FriendInv, WithFriend, NoOrder, NoWork, Fields

\* Whatever code an order gets, typed or from the link, was resolved for its
\* buyer.
LEMMA CodeResolved ==
  ASSUME NEW u \in Users, NEW typed \in Codes \cup {None},
         typed # None => Usable(typed, u)
  PROVE  /\ CodeFor(u, typed) \in Codes \cup {None}
         /\ CodeFor(u, typed) # None => Usable(CodeFor(u, typed), u)
  BY LedgerAssumption DEF CodeFor

LEMMA ShapeStep == ASSUME Shape, [Next]_vars PROVE Shape'
<1> USE LedgerAssumption
<1>1. ASSUME NEW o \in Orders, Grant(o) PROVE Shape'
  BY <1>1 DEF Grant, Shape, NoOrder, Fields
<1>2. ASSUME NEW o \in Orders, NEW typed \in Codes \cup {None}, NEW use \in Asked,
             OpenOrder(o, typed, use)
      PROVE  Shape'
  <2> DEFINE c == CodeFor(Buyer[o], typed)
             d == DiscountedPrice(c)
             k == CreditFor(Buyer[o], use, d)
             row == [status |-> "pending", amount |-> d - k, credit |-> k, code |-> c]
  <2>1. c \in Codes \cup {None}
    BY <1>2, CodeResolved DEF OpenOrder
  <2>2. order' = [order EXCEPT ![o] = row] /\ o \notin Manual
        /\ order[o].status = "none" /\ work' = work
    BY <1>2 DEF OpenOrder
  <2>3. DOMAIN row = Fields /\ row.status = "pending" /\ row.code = c
    BY DEF Fields
  <2> HIDE DEF row, c
  <2> QED  BY <2>1, <2>2, <2>3 DEF Shape
<1>3. ASSUME NEW w \in Workers, NEW o \in Orders, NEW job \in {"activate", "status"},
             Notified(w, o, job)
      PROVE  Shape'
  BY <1>3 DEF Notified, Shape, WorkType, Open, NoWork
<1>4. ASSUME NEW w \in Workers, Activated(w) PROVE Shape'
  BY <1>4 DEF Activated, Shape, WorkType, NoWork, Fields
<1>5. ASSUME NEW w \in Workers, StatusWritten(w) PROVE Shape'
  BY <1>5 DEF StatusWritten, Shape, WorkType, NoWork, Fields
<1>6. ASSUME NEW w \in Workers, Abandoned(w) PROVE Shape'
  BY <1>6 DEF Abandoned, Shape, WorkType, NoWork
<1>10. ASSUME NEW w \in Workers, SpendLookedUp(w) PROVE Shape'
  <2>1. ToSpend(work[w].order) \in BOOLEAN
    BY DEF ToSpend
  <2>2. PICK b \in BOOLEAN : work' = [work EXCEPT ![w].job = "reward", ![w].spend = b]
    BY <1>10, <2>1 DEF SpendLookedUp
  <2>3. work[w] \in WorkType /\ work[w].job # "none"
    BY <1>10 DEF SpendLookedUp, Shape
  <2> DEFINE x == [work[w] EXCEPT !.job = "reward", !.spend = b]
  <2>4. x \in WorkType /\ x.order = work[w].order
    BY <2>2, <2>3 DEF WorkType
  <2>5. work' = [work EXCEPT ![w] = x]
    BY <2>2
  <2> HIDE DEF x
  <2>6. work' \in [Workers -> WorkType]
    BY <2>4, <2>5 DEF Shape
  <2>7. \A v \in Workers : work'[v].order = work[v].order /\ (work'[v].job # "none" => work[v].job # "none")
    BY <2>3, <2>4, <2>5 DEF Shape
  <2>8. order' = order
    BY <1>10 DEF SpendLookedUp
  <2> QED  BY <2>6, <2>7, <2>8 DEF Shape
<1>11. ASSUME NEW w \in Workers, RewardLookedUp(w) PROVE Shape'
  <2>1. ToReward(work[w].order) \in BOOLEAN
    BY DEF ToReward, Earns
  <2>2. PICK b \in BOOLEAN : work' = [work EXCEPT ![w].job = "commit", ![w].reward = b]
    BY <1>11, <2>1 DEF RewardLookedUp
  <2>3. work[w] \in WorkType /\ work[w].job # "none"
    BY <1>11 DEF RewardLookedUp, Shape
  <2> DEFINE x == [work[w] EXCEPT !.job = "commit", !.reward = b]
  <2>4. x \in WorkType /\ x.order = work[w].order
    BY <2>2, <2>3 DEF WorkType
  <2>5. work' = [work EXCEPT ![w] = x]
    BY <2>2
  <2> HIDE DEF x
  <2>6. work' \in [Workers -> WorkType]
    BY <2>4, <2>5 DEF Shape
  <2>7. \A v \in Workers : work'[v].order = work[v].order /\ (work'[v].job # "none" => work[v].job # "none")
    BY <2>3, <2>4, <2>5 DEF Shape
  <2>8. order' = order
    BY <1>11 DEF RewardLookedUp
  <2> QED  BY <2>6, <2>7, <2>8 DEF Shape
<1>7. CASE Tick
  BY <1>7 DEF Tick, Shape
<1>8. ASSUME NEW c \in Codes, CreatePromo(c) \/ IssueCode(c) \/ Deactivate(c) PROVE Shape'
  BY <1>8 DEF CreatePromo, IssueCode, Deactivate, Shape
<1>9. CASE UNCHANGED vars
  BY <1>9 DEF vars, Shape
<1> QED  BY <1>1, <1>2, <1>3, <1>4, <1>5, <1>6, <1>7, <1>8, <1>9, <1>10, <1>11 DEF Next, vars

\* A commit writes what is missing at that moment, not only when it was looked up.
LEMMA CommitWritesMissing ==
  ASSUME Shape, Counts, LockInv, NEW w \in Workers, Activated(w)
  PROVE  \E o \in Orders :
             /\ o = work[w].order
             /\ o \in Orders /\ order[o].status # "none"
             /\ order' = [order EXCEPT ![o] = [order[o] EXCEPT !.status = "paid"]]
             /\ spends' = IF ToSpend(o) THEN [spends EXCEPT ![o] = @ + 1] ELSE spends
             /\ spent' = IF ToSpend(o) THEN [spent EXCEPT ![Buyer[o]] = @ + order[o].credit] ELSE spent
             /\ rewards' = IF ToReward(o) THEN [rewards EXCEPT ![o] = 1] ELSE rewards
             /\ work' = [work EXCEPT ![w] = NoWork]
             /\ UNCHANGED <<now, together>>
<1>1. work[w].job = "commit" /\ work[w].order \in Orders /\ order[work[w].order].status # "none"
  BY DEF Activated, Shape
<1>2. (work[w].spend <=> ToSpend(work[w].order)) /\ (work[w].reward <=> ToReward(work[w].order))
  BY <1>1 DEF LockInv, Holds
<1>3. ToReward(work[w].order) => rewards[work[w].order] = 0
  BY DEF ToReward
<1> QED  BY <1>1, <1>2, <1>3, Zenon DEF Activated

LEMMA CountsStep == ASSUME Shape, Counts, LockInv, [Next]_vars PROVE Counts'
<1>1. ASSUME NEW w \in Workers, Activated(w) PROVE Counts'
  BY <1>1, CommitWritesMissing DEF Counts, ToSpend, ToReward
<1>2. CASE UNCHANGED <<spends, rewards>>
  BY <1>2 DEF Counts
<1> QED
  BY <1>1, <1>2 DEF Next, vars, Tick, CreatePromo, IssueCode, Deactivate, Grant, OpenOrder, Notified,
                    SpendLookedUp, RewardLookedUp, StatusWritten, Abandoned

\* Only checkout creates an order with a friend's code, and it asks that no
\* order of the buyer be paid: every other one is open beside it.
LEMMA FriendStep == ASSUME Shape, FriendInv, [Next]_vars PROVE FriendInv'
<1> USE LedgerAssumption
<1>1. ASSUME NEW o \in Orders, NEW typed \in Codes \cup {None}, NEW use \in Asked,
             OpenOrder(o, typed, use)
      PROVE  FriendInv'
  <2> DEFINE c == CodeFor(Buyer[o], typed)
             d == DiscountedPrice(c)
             k == CreditFor(Buyer[o], use, d)
             row == [status |-> "pending", amount |-> d - k, credit |-> k, code |-> c]
  <2>1. /\ order' = [order EXCEPT ![o] = row]
        /\ together' = together \cup OpenedBeside(o)
        /\ order[o].status = "none"
    BY <1>1 DEF OpenOrder
  <2>2. row.status = "pending" /\ row.code = c
    OBVIOUS
  <2>3. c \in Codes \cup {None} /\ (c # None => Usable(c, Buyer[o]))
    BY <1>1, CodeResolved DEF OpenOrder
  <2>4. ASSUME NEW q \in Orders, q # o, Buyer[q] = Buyer[o],
               c # None, Owner[c] # None, WithFriend(q)
        PROVE  {o, q} \in together'
    <3>1. FirstPurchase(Buyer[o])
      BY <2>3, <2>4 DEF Usable
    <3>2. q \notin Manual
      BY <2>4 DEF WithFriend, Shape
    <3>3. Open(q)
      BY <3>1, <3>2, <2>4 DEF FirstPurchase, Paid, Open, WithFriend, Shape
    <3> QED  BY <3>3, <2>1, <2>4 DEF OpenedBeside
  <2> HIDE DEF row, c
  <2>5. /\ DOMAIN order' = Orders
        /\ order'[o] = row
        /\ \A q \in Orders : q # o => order'[q] = order[q]
    BY <2>1 DEF Shape
  <2>6. \A q \in Orders : q # o => (WithFriend(q)' <=> WithFriend(q))
    BY <2>5 DEF WithFriend
  <2>7. WithFriend(o)' => c # None /\ Owner[c] # None
    BY <2>2, <2>5 DEF WithFriend
  <2>8. ASSUME NEW p \in Orders, NEW q \in Orders, p # q, Buyer[p] = Buyer[q],
               WithFriend(p)', WithFriend(q)'
        PROVE  {p, q} \in together'
    <3>1. CASE p = o
      BY <3>1, <2>4, <2>6, <2>7, <2>8
    <3>2. CASE q = o
      <4>1. {q, p} \in together'
        BY <3>2, <2>4, <2>6, <2>7, <2>8
      <4> QED  BY <4>1
    <3>3. CASE p # o /\ q # o
      BY <3>3, <2>1, <2>6, <2>8 DEF FriendInv
    <3> QED  BY <3>1, <3>2, <3>3
  <2> QED  BY <2>8 DEF FriendInv
<1>2. ASSUME NEW o \in Orders, Grant(o) PROVE FriendInv'
  <2>1. /\ together \subseteq together'
        /\ order'[o].code = None
        /\ \A q \in Orders : q # o => order'[q] = order[q]
    BY <1>2 DEF Grant, NoOrder, Shape
  <2> QED  BY <2>1 DEF FriendInv, WithFriend
<1>3. ASSUME NEW w \in Workers, Activated(w) \/ StatusWritten(w) PROVE FriendInv'
  <2>1. /\ together \subseteq together'
        /\ \A q \in Orders : /\ order'[q].code = order[q].code
                             /\ order'[q].status # "none" => order[q].status # "none"
    <3>1. PICK st \in {"paid", "pending"} : order' = [order EXCEPT ![work[w].order] = [order[work[w].order] EXCEPT !.status = st]]
      BY <1>3 DEF Activated, StatusWritten
    <3>2. work[w].order \in Orders /\ order[work[w].order].status # "none"
      BY <1>3 DEF Activated, StatusWritten, Shape
    <3>3. together \subseteq together'
      BY <1>3 DEF Activated, StatusWritten
    <3> QED  BY <3>1, <3>2, <3>3 DEF Shape, Fields
  <2> QED  BY <2>1 DEF FriendInv, WithFriend
<1>4. CASE UNCHANGED <<order, together>>
  BY <1>4 DEF FriendInv, WithFriend
<1> QED
  BY <1>1, <1>2, <1>3, <1>4 DEF Next, vars, Tick, CreatePromo, IssueCode, Deactivate, Notified, SpendLookedUp, RewardLookedUp, Abandoned

\* An order that is opened under a cap finds fewer paid orders than the cap, and
\* every other order that carries the code is paid or open beside it.
LEMMA CapStep == ASSUME Shape, CapInv, [Next]_vars PROVE CapInv'
<1> USE LedgerAssumption
<1>1. ASSUME NEW o \in Orders, NEW typed \in Codes \cup {None}, NEW use \in Asked,
             OpenOrder(o, typed, use)
      PROVE  CapInv'
  <2> DEFINE c == CodeFor(Buyer[o], typed)
             d == DiscountedPrice(c)
             k == CreditFor(Buyer[o], use, d)
             row == [status |-> "pending", amount |-> d - k, credit |-> k, code |-> c]
  <2>1. /\ order' = [order EXCEPT ![o] = row]
        /\ together' = together \cup OpenedBeside(o)
    BY <1>1 DEF OpenOrder
  <2>2. row.status = "pending" /\ row.code = c
    OBVIOUS
  <2>3. c \in Codes \cup {None} /\ (c # None => Usable(c, Buyer[o]))
    BY <1>1, CodeResolved DEF OpenOrder
  <2> HIDE DEF row, c
  <2>4. order'[o] = row /\ \A q \in Orders : q # o => order'[q] = order[q]
    BY <2>1 DEF Shape
  <2>5. SUFFICES ASSUME NEW e \in Codes, NEW S \in SUBSET Orders,
                        MaxUses[e] # 0, OneByOne(S, e)'
                 PROVE  Cardinality(S) <= MaxUses[e]
    BY DEF CapInv
  <2>6. CASE o \notin S
    <3>1. OneByOne(S, e)
      BY <2>1, <2>4, <2>5, <2>6 DEF OneByOne
    <3> QED  BY <3>1, <2>5 DEF CapInv
  <2>7. CASE o \in S
    <3> DEFINE paid == {q \in Orders : Paid(q) /\ order[q].code = e}
    <3>1. e = c
      BY <2>2, <2>4, <2>5, <2>7 DEF OneByOne
    <3>2. Cardinality(paid) < MaxUses[e]
      BY <3>1, <2>3, <2>5 DEF Usable, HasUseLeft, UsesOf
    <3>3. S \ {o} \subseteq paid
      <4> SUFFICES ASSUME NEW q \in S \ {o} PROVE q \in paid
        OBVIOUS
      <4>1. order[q].status # "none" /\ order[q].code = e /\ {o, q} \notin together'
        BY <2>4, <2>5, <2>7 DEF OneByOne
      <4>2. ~Open(q)
        BY <4>1, <2>1 DEF OpenedBeside
      <4> QED  BY <4>1, <4>2 DEF Open, Paid, Shape
    <3>4. IsFiniteSet(paid) /\ IsFiniteSet(S)
      BY FS_Subset
    <3> HIDE DEF paid
    <3>5. Cardinality(S \ {o}) <= Cardinality(paid)
      BY <3>3, <3>4, FS_Subset
    <3>6. Cardinality(S \ {o}) = Cardinality(S) - 1
      BY <3>4, <2>7, FS_RemoveElement
    <3>7. Cardinality(S) \in Nat /\ Cardinality(paid) \in Nat /\ MaxUses[e] \in Nat
      BY <3>4, FS_CardinalityType
    <3> QED  BY <3>2, <3>5, <3>6, <3>7
  <2> QED  BY <2>6, <2>7
<1>2. ASSUME NEW o \in Orders, Grant(o) PROVE CapInv'
  <2>1. /\ together \subseteq together'
        /\ order'[o].code = None
        /\ \A q \in Orders : q # o => order'[q] = order[q]
    BY <1>2 DEF Grant, NoOrder, Shape
  <2>2. ASSUME NEW c \in Codes, NEW S \in SUBSET Orders, OneByOne(S, c)'
        PROVE  OneByOne(S, c)
    BY <2>1, <2>2 DEF OneByOne
  <2> QED  BY <2>2 DEF CapInv
<1>3. ASSUME NEW w \in Workers, Activated(w) \/ StatusWritten(w) PROVE CapInv'
  <2>1. /\ together \subseteq together'
        /\ \A q \in Orders : /\ order'[q].code = order[q].code
                             /\ order'[q].status # "none" => order[q].status # "none"
    <3>1. PICK st \in {"paid", "pending"} : order' = [order EXCEPT ![work[w].order] = [order[work[w].order] EXCEPT !.status = st]]
      BY <1>3 DEF Activated, StatusWritten
    <3>2. work[w].order \in Orders /\ order[work[w].order].status # "none"
      BY <1>3 DEF Activated, StatusWritten, Shape
    <3>3. together \subseteq together'
      BY <1>3 DEF Activated, StatusWritten
    <3> QED  BY <3>1, <3>2, <3>3 DEF Shape, Fields
  <2>2. ASSUME NEW c \in Codes, NEW S \in SUBSET Orders, OneByOne(S, c)'
        PROVE  OneByOne(S, c)
    BY <2>1, <2>2 DEF OneByOne
  <2> QED  BY <2>2 DEF CapInv
<1>4. CASE UNCHANGED <<order, together>>
  BY <1>4 DEF CapInv, OneByOne
<1> QED
  BY <1>1, <1>2, <1>3, <1>4 DEF Next, vars, Tick, CreatePromo, IssueCode, Deactivate, Notified, SpendLookedUp, RewardLookedUp, Abandoned

-----------------------------------------------------------------------------
(* Prices and points                                                       *)

\* The smallest and the largest of a few integers.
LEMMA MinOfThree ==
  ASSUME NEW a \in Int, NEW b \in Int, NEW c \in Int
  PROVE  /\ Min({a, b, c}) \in Int
         /\ Min({a, b, c}) <= a /\ Min({a, b, c}) <= b /\ Min({a, b, c}) <= c
<1>1. \E x \in {a, b, c} : \A y \in {a, b, c} : x =< y
  OBVIOUS
<1>2. Min({a, b, c}) \in {a, b, c} /\ \A y \in {a, b, c} : Min({a, b, c}) =< y
  BY <1>1 DEF Min
<1> QED  BY <1>2

LEMMA MaxOfTwo ==
  ASSUME NEW a \in Int, NEW b \in Int
  PROVE  Max({a, b}) = IF a >= b THEN a ELSE b
<1>1. \E x \in {a, b} : \A y \in {a, b} : x >= y
  OBVIOUS
<1>2. Max({a, b}) \in {a, b} /\ \A y \in {a, b} : Max({a, b}) >= y
  BY <1>1 DEF Max
<1> QED  BY <1>2

\* A discount of at most 60 percent, rounded as round() rounds, leaves something
\* of any price of two rubles or more.
LEMMA DiscountLeavesSome ==
  ASSUME NEW c
  PROVE  DiscountedPrice(c) \in Nat /\ DiscountedPrice(c) > 0
<1> DEFINE p == Price * Percent
           whole == p \div 100
           rest == p % 100
<1>1. Price \in Nat /\ Price >= 2 /\ Percent \in 1..60
  BY LedgerAssumption
<1>2. p \in Nat /\ p <= Price * 60
  BY <1>1
<1>3. whole \in Nat /\ rest \in 0..99 /\ p = 100 * whole + rest
  <2> HIDE DEF p
  <2> QED  BY <1>2
<1>4. RoundedShare(Price, Percent) \in Nat /\ RoundedShare(Price, Percent) < Price
  <2>1. RoundedShare(Price, Percent) = IF rest > 50 \/ (rest = 50 /\ whole % 2 = 1) THEN whole + 1 ELSE whole
    BY DEF RoundedShare
  <2> HIDE DEF p, whole, rest
  <2>2. CASE rest >= 50
    <3>1. 100 * whole + 50 <= 60 * Price
      BY <1>1, <1>2, <1>3, <2>2
    <3> QED  BY <1>1, <1>3, <2>1, <3>1
  <2>3. CASE rest < 50
    BY <1>1, <1>2, <1>3, <2>1, <2>3
  <2> QED  BY <1>3, <2>2, <2>3
<1> QED  BY <1>1, <1>4 DEF DiscountedPrice

\* price_order grants no more than there is and than half of the order.
LEMMA CreditBounds ==
  ASSUME FitInv, NEW u \in Users, NEW use \in Asked, NEW amount \in Nat
  PROVE  /\ CreditFor(u, use, amount) \in Nat
         /\ 2 * CreditFor(u, use, amount) <= amount
         /\ CreditFor(u, use, amount) > 0 => spent[u] + CreditFor(u, use, amount) <= Points[u]
<1> USE LedgerAssumption
<1> DEFINE half == MaxCreditFor(amount)
           least == Min({use, Balance(u), half})
<1>1. half \in Nat /\ 2 * half <= amount
  BY DEF MaxCreditFor
<1>2. Balance(u) \in Int /\ Balance(u) <= Points[u] - spent[u] /\ use \in Int
  BY DEF Balance, FitInv
<1>3. least \in Int /\ least <= Balance(u) /\ least <= half
  <2>1. half \in Int
    BY <1>1
  <2> HIDE DEF half
  <2> QED  BY <1>2, <2>1, MinOfThree, Zenon
<1>4. CreditFor(u, use, amount) = IF 0 >= least THEN 0 ELSE least
  <2>1. 0 \in Int
    OBVIOUS
  <2>2. CreditFor(u, use, amount) = Max({0, least})
    BY DEF CreditFor
  <2> HIDE DEF least
  <2> QED  BY <1>3, <2>1, <2>2, MaxOfTwo, Zenon
<1>5. spent[u] \in Nat /\ Points[u] \in Nat
  BY DEF FitInv
<1> HIDE DEF half, least
<1> QED  BY <1>1, <1>2, <1>3, <1>4, <1>5

\* What checkout writes.
LEMMA OpenedOrder ==
  ASSUME Shape, FitInv, NEW o \in Orders, NEW typed \in Codes \cup {None}, NEW use \in Asked,
         OpenOrder(o, typed, use)
  PROVE  /\ \A q \in Orders \ {o} : order'[q] = order[q]
         /\ order[o].status = "none" /\ order'[o].status = "pending"
         /\ order'[o].amount \in Nat /\ order'[o].credit \in Nat
         /\ order'[o].amount + order'[o].credit = DiscountedPrice(order'[o].code)
         /\ order'[o].amount >= order'[o].credit /\ order'[o].amount > 0
         /\ order'[o].credit > 0 => spent[Buyer[o]] + order'[o].credit <= Points[Buyer[o]]
<1> DEFINE c == CodeFor(Buyer[o], typed)
           d == DiscountedPrice(c)
           k == CreditFor(Buyer[o], use, d)
           row == [status |-> "pending", amount |-> d - k, credit |-> k, code |-> c]
<1>1. order' = [order EXCEPT ![o] = row] /\ order[o].status = "none"
  BY DEF OpenOrder
<1>2. d \in Nat /\ d > 0
  BY DiscountLeavesSome
<1>3. Buyer[o] \in Users
  BY LedgerAssumption
<1>4. k \in Nat /\ 2 * k <= d /\ (k > 0 => spent[Buyer[o]] + k <= Points[Buyer[o]])
  <2> HIDE DEF d
  <2> QED  BY <1>2, <1>3, CreditBounds
<1>5. order'[o] = row /\ \A q \in Orders \ {o} : order'[q] = order[q]
  <2> HIDE DEF row
  <2> QED  BY <1>1 DEF Shape
<1>6. row.status = "pending" /\ row.amount = d - k /\ row.credit = k /\ d = DiscountedPrice(row.code)
  OBVIOUS
<1> HIDE DEF c, d, k, row
<1> QED  BY <1>1, <1>2, <1>4, <1>5, <1>6

\* The other steps leave every price as it is.
LEMMA PricesKept ==
  ASSUME Shape, [Next]_vars, \A o \in Orders : order[o].status = "none" => order'[o] = order[o]
  PROVE  \A o \in Orders : /\ order'[o].amount = order[o].amount /\ order'[o].credit = order[o].credit
                           /\ order'[o].code = order[o].code
                           /\ (order'[o].status = "none") = (order[o].status = "none")
<1>1. CASE UNCHANGED order
  BY <1>1
<1>2. ASSUME NEW w \in Workers, Activated(w) \/ StatusWritten(w)
      PROVE  \A o \in Orders : /\ order'[o].amount = order[o].amount /\ order'[o].credit = order[o].credit
                               /\ order'[o].code = order[o].code
                               /\ (order'[o].status = "none") = (order[o].status = "none")
  <2>1. PICK s \in {"paid", "pending"} : order' = [order EXCEPT ![work[w].order].status = s]
    BY <1>2 DEF Activated, StatusWritten
  <2>2. work[w].order \in Orders /\ order[work[w].order].status # "none"
    BY <1>2 DEF Activated, StatusWritten, Shape
  <2> QED  BY <2>1, <2>2 DEF Shape, Fields
<1>3. ASSUME NEW o \in Orders, Grant(o) PROVE FALSE
  BY <1>3 DEF Grant, Shape, NoOrder
<1>4. ASSUME NEW o \in Orders, NEW typed \in Codes \cup {None}, NEW use \in Asked, OpenOrder(o, typed, use)
      PROVE  FALSE
  <2>1. PICK row : order' = [order EXCEPT ![o] = row] /\ row.status = "pending" /\ order[o].status = "none"
    BY <1>4, Zenon DEF OpenOrder
  <2> QED  BY <2>1 DEF Shape
<1> QED
  BY <1>1, <1>2, <1>3, <1>4 DEF Next, vars, Tick, CreatePromo, IssueCode, Deactivate, Notified, SpendLookedUp, RewardLookedUp, Abandoned

\* A grant costs nothing.
LEMMA GrantedOrder ==
  ASSUME Shape, NEW o \in Orders, Grant(o)
  PROVE  /\ \A q \in Orders \ {o} : order'[q] = order[q]
         /\ o \in Manual /\ order[o].status = "none" /\ order'[o].status = "pending"
         /\ order'[o].amount = 0 /\ order'[o].credit = 0
  BY DEF Grant, NoOrder, Shape

\* The steps that open no order.
Opens == \E o \in Orders : Grant(o) \/ \E typed \in Codes \cup {None}, use \in Asked : OpenOrder(o, typed, use)

LEMMA OpensNone ==
  ASSUME Shape, [Next]_vars, ~Opens
  PROVE  \A o \in Orders : order[o].status = "none" => order'[o] = order[o]
<1>1. ASSUME NEW w \in Workers, Activated(w) \/ StatusWritten(w)
      PROVE  \A o \in Orders : order[o].status = "none" => order'[o] = order[o]
  <2>1. PICK s \in {"paid", "pending"} : order' = [order EXCEPT ![work[w].order].status = s]
    BY <1>1 DEF Activated, StatusWritten
  <2>2. work[w].order \in Orders /\ order[work[w].order].status # "none"
    BY <1>1 DEF Activated, StatusWritten, Shape
  <2> QED  BY <2>1, <2>2 DEF Shape
<1>2. CASE UNCHANGED order
  BY <1>2
<1> QED
  BY <1>1, <1>2 DEF Next, vars, Opens, Tick, CreatePromo, IssueCode, Deactivate, Notified, SpendLookedUp, RewardLookedUp, Abandoned

LEMMA PriceStep == ASSUME Shape, PriceInv, FitInv, [Next]_vars PROVE PriceInv'
<1>1. ASSUME NEW o \in Orders, NEW typed \in Codes \cup {None}, NEW use \in Asked, OpenOrder(o, typed, use)
      PROVE  PriceInv'
  <2>1. o \notin Manual
    BY <1>1 DEF OpenOrder
  <2>2. /\ \A q \in Orders \ {o} : order'[q] = order[q]
        /\ order'[o].status = "pending"
        /\ order'[o].amount \in Nat /\ order'[o].credit \in Nat
        /\ order'[o].amount + order'[o].credit = DiscountedPrice(order'[o].code)
        /\ order'[o].amount >= order'[o].credit /\ order'[o].amount > 0
    BY <1>1, OpenedOrder
  <2> QED  BY <2>1, <2>2 DEF PriceInv, DiscountedPrice
<1>2. ASSUME NEW o \in Orders, Grant(o) PROVE PriceInv'
  BY <1>2, GrantedOrder DEF PriceInv, DiscountedPrice
<1>3. CASE ~Opens
  <2>1. \A o \in Orders : /\ order'[o].amount = order[o].amount /\ order'[o].credit = order[o].credit
                          /\ order'[o].code = order[o].code
                          /\ (order'[o].status = "none") = (order[o].status = "none")
    BY <1>3, OpensNone, PricesKept
  <2> QED  BY <2>1 DEF PriceInv, DiscountedPrice
<1> QED  BY <1>1, <1>2, <1>3 DEF Opens

-----------------------------------------------------------------------------
(* The locks                                                               *)

\* An order that exists stays as it was sold.
LEMMA SoldKept ==
  ASSUME Shape, [Next]_vars, NEW o \in Orders, order[o].status # "none"
  PROVE  order'[o].amount = order[o].amount /\ order'[o].credit = order[o].credit /\ order'[o].code = order[o].code
<1>1. CASE ~Opens
  BY <1>1, OpensNone, PricesKept
<1>2. ASSUME NEW q \in Orders, Grant(q) PROVE order'[o] = order[o]
  BY <1>2 DEF Grant, Shape
<1>3. ASSUME NEW q \in Orders, NEW typed \in Codes \cup {None}, NEW use \in Asked, OpenOrder(q, typed, use)
      PROVE  order'[o] = order[o]
  <2>1. PICK row : order' = [order EXCEPT ![q] = row] /\ order[q].status = "none"
    BY <1>3, Zenon DEF OpenOrder
  <2> QED  BY <2>1 DEF Shape
<1> QED  BY <1>1, <1>2, <1>3 DEF Opens

\* What is missing of it stays so unless its own activation commits.
LEMMA MissingKept ==
  ASSUME Shape, [Next]_vars, NEW o \in Orders, order[o].status # "none",
         UNCHANGED <<spends[o], rewards[o]>>
  PROVE  (ToSpend(o)' <=> ToSpend(o)) /\ (ToReward(o)' <=> ToReward(o))
<1>1. order'[o].amount = order[o].amount /\ order'[o].credit = order[o].credit /\ order'[o].code = order[o].code
  BY SoldKept
<1>2. Earns(o)' <=> Earns(o)
  BY <1>1 DEF Earns
<1> QED  BY <1>1, <1>2 DEF ToSpend, ToReward

\* The lookups read under the lock, and only its holder commits for the order.
LEMMA LockStep == ASSUME Shape, Counts, LockInv, [Next]_vars PROVE LockInv'
<1>1. ASSUME NEW v \in Workers, Holds(v) PROVE work[v].order \in Orders /\ order[work[v].order].status # "none"
  BY <1>1 DEF Holds, Shape
<1>2. ASSUME NEW v \in Workers, Holds(v), work'[v] = work[v],
             UNCHANGED <<spends[work[v].order], rewards[work[v].order]>>
      PROVE  \A q \in Orders : q = work[v].order =>
                 (ToSpend(q)' <=> ToSpend(q)) /\ (ToReward(q)' <=> ToReward(q))
  BY <1>1, <1>2, MissingKept
<1>3. ASSUME \A v \in Workers : Holds(v)' =>
                 /\ Holds(v) /\ work'[v] = work[v]
                 /\ UNCHANGED <<spends[work[v].order], rewards[work[v].order]>>
      PROVE  LockInv'
  <2>1. ASSUME NEW v \in Workers, Holds(v)'
        PROVE  /\ work'[v].spend <=> ToSpend(work[v].order)'
               /\ work'[v].job = "commit" => (work'[v].reward <=> ToReward(work[v].order)')
    <3>1. PICK q \in Orders : q = work[v].order
      BY <1>1, <1>3, <2>1
    <3>2. (ToSpend(q)' <=> ToSpend(q)) /\ (ToReward(q)' <=> ToReward(q))
      BY <1>2, <1>3, <2>1, <3>1
    <3>3. work'[v].order = q
      BY <1>3, <2>1, <3>1
    <3> QED  BY <1>3, <2>1, <3>1, <3>2, <3>3 DEF LockInv
  <2> QED  BY <1>3, <2>1 DEF LockInv, Holds
<1>4. ASSUME NEW w \in Workers, SpendLookedUp(w) \/ RewardLookedUp(w) PROVE LockInv'
  <2>1. \A q \in Orders : (ToSpend(q)' <=> ToSpend(q)) /\ (ToReward(q)' <=> ToReward(q))
    BY <1>4 DEF SpendLookedUp, RewardLookedUp, ToSpend, ToReward, Earns
  <2>2. /\ work[w].order \in Orders
        /\ \A v \in Workers \ {w} : work'[v] = work[v]
        /\ work'[w].order = work[w].order /\ Holds(w)'
    BY <1>4 DEF SpendLookedUp, RewardLookedUp, Shape, WorkType, Holds
  <2>3. \A v \in Workers : v # w /\ Holds(v) => Buyer[work[v].order] # Buyer[work[w].order]
    BY <1>4, <2>2 DEF SpendLookedUp, RewardLookedUp, LockInv, Holds, RowsFree
  <2>4. /\ work'[w].spend <=> ToSpend(work[w].order)
        /\ work'[w].job = "commit" => (work'[w].reward <=> ToReward(work[w].order))
    <3>1. CASE SpendLookedUp(w)
      BY <3>1 DEF SpendLookedUp, Shape, WorkType
    <3>2. CASE RewardLookedUp(w)
      BY <3>2 DEF RewardLookedUp, LockInv, Holds, Shape, WorkType
    <3> QED  BY <1>4, <3>1, <3>2
  <2>5. ASSUME NEW u \in Workers, NEW v \in Workers, u # v, Holds(u)', Holds(v)'
        PROVE  Buyer[work'[u].order] # Buyer[work'[v].order]
    BY <2>2, <2>3, <2>5 DEF LockInv, Holds
  <2>6. ASSUME NEW v \in Workers, Holds(v)', NEW q \in Orders, q = work'[v].order
        PROVE  /\ work'[v].spend <=> ToSpend(q)'
               /\ work'[v].job = "commit" => (work'[v].reward <=> ToReward(q)')
    BY <2>1, <2>2, <2>4, <2>6 DEF LockInv, Holds
  <2>7. \A v \in Workers : Holds(v)' => work'[v].order \in Orders
    BY <1>1, <2>2 DEF Holds
  <2> QED  BY <2>5, <2>6, <2>7 DEF LockInv, Holds
<1>5. ASSUME NEW w \in Workers, Activated(w) PROVE LockInv'
  <2>1. PICK o \in Orders : /\ o = work[w].order
                           /\ work' = [work EXCEPT ![w] = NoWork]
                           /\ \A q \in Orders \ {o} : spends'[q] = spends[q] /\ rewards'[q] = rewards[q]
    BY <1>5, CommitWritesMissing DEF Counts
  <2>2. Holds(w)
    BY <1>5 DEF Activated, Holds
  <2>3. ASSUME NEW v \in Workers, Holds(v)'
        PROVE  /\ Holds(v) /\ work'[v] = work[v]
               /\ UNCHANGED <<spends[work[v].order], rewards[work[v].order]>>
    <3>1. v # w /\ work'[v] = work[v]
      BY <2>1, <2>3 DEF Holds, NoWork, Shape
    <3>2. Holds(v)
      BY <2>3, <3>1 DEF Holds
    <3>3. work[v].order # o /\ work[v].order \in Orders
      BY <1>1, <2>1, <2>2, <3>1, <3>2 DEF LockInv
    <3>4. PICK q \in Orders : q = work[v].order
      BY <3>3
    <3>5. work'[v].order = q /\ spends'[q] = spends[q] /\ rewards'[q] = rewards[q]
      BY <2>1, <3>1, <3>3, <3>4
    <3> QED  BY <3>1, <3>2, <3>4, <3>5
  <2> QED  BY <1>3, <2>3
<1>6. CASE /\ UNCHANGED <<spends, rewards>>
           /\ \A v \in Workers : Holds(v)' => Holds(v) /\ work'[v] = work[v]
  BY <1>3, <1>6
<1>7. ASSUME NEW w \in Workers, StatusWritten(w) \/ Abandoned(w) PROVE LockInv'
  BY <1>6, <1>7 DEF StatusWritten, Abandoned, NoWork, Holds, Shape
<1>8. ASSUME NEW w \in Workers, NEW o \in Orders, NEW job \in {"activate", "status"}, Notified(w, o, job)
      PROVE  LockInv'
  BY <1>6, <1>8 DEF Notified, NoWork, Holds, Shape
<1>9. CASE UNCHANGED <<spends, rewards, work>>
  BY <1>6, <1>9 DEF Holds
<1> QED
  BY <1>4, <1>5, <1>7, <1>8, <1>9 DEF Next, vars, Tick, CreatePromo, IssueCode, Deactivate, Grant, OpenOrder

\* An order becomes paid by a commit that records the reward if it is missing.
LEMMA RewardStep == ASSUME Shape, Counts, LockInv, RewardInv, [Next]_vars PROVE RewardInv'
<1>1. ASSUME NEW o \in Orders, order[o].status # "none" PROVE Earns(o)' <=> Earns(o)
  BY <1>1, SoldKept DEF Earns
<1>2. ASSUME NEW w \in Workers, Activated(w) PROVE RewardInv'
  BY <1>1, <1>2, CommitWritesMissing DEF RewardInv, ToReward, Counts, Paid, Shape, Fields
<1>3. ASSUME rewards' = rewards, \A o \in Orders : Paid(o)' => Paid(o) PROVE RewardInv'
  BY <1>1, <1>3 DEF RewardInv, Paid
<1>4. ASSUME NEW o \in Orders, Grant(o) PROVE RewardInv'
  BY <1>3, <1>4, GrantedOrder DEF Grant, Paid
<1>5. ASSUME NEW o \in Orders, NEW typed \in Codes \cup {None}, NEW use \in Asked, OpenOrder(o, typed, use)
      PROVE  RewardInv'
  <2>1. PICK row : order' = [order EXCEPT ![o] = row] /\ row.status = "pending" /\ rewards' = rewards
    BY <1>5, Zenon DEF OpenOrder
  <2> QED  BY <1>3, <2>1 DEF Paid, Shape
<1>6. ASSUME NEW w \in Workers, StatusWritten(w) PROVE RewardInv'
  BY <1>3, <1>6 DEF StatusWritten, Paid, Shape, Fields
<1>7. CASE UNCHANGED <<order, rewards>>
  BY <1>3, <1>7 DEF Paid
<1> QED
  BY <1>2, <1>4, <1>5, <1>6, <1>7 DEF Next, vars, Tick, CreatePromo, IssueCode, Deactivate, Notified,
                                    SpendLookedUp, RewardLookedUp, Abandoned

\* An order is opened, or opened again, beside the ones that are.
LEMMA OpenStep == ASSUME Shape, OpenInv, [Next]_vars PROVE OpenInv'
<1>1. ASSUME NEW o \in Orders, NEW row, order' = [order EXCEPT ![o] = row], together' = together \cup OpenedBeside(o)
      PROVE  OpenInv'
  <2>1. \A q \in Orders \ {o} : Open(q)' <=> Open(q)
    BY <1>1 DEF Open, Shape
  <2>2. \A q \in Orders \ {o} : Open(q) => {o, q} \in together'
    BY <1>1 DEF OpenedBeside
  <2>3. ASSUME NEW p \in Orders, NEW q \in Orders, p # q, Open(p)', Open(q)' PROVE {p, q} \in together'
    <3>1. CASE p = o
      BY <2>1, <2>2, <2>3, <3>1
    <3>2. CASE q = o
      <4>1. {q, p} \in together'
        BY <2>1, <2>2, <2>3, <3>2
      <4> QED  BY <4>1
    <3>3. CASE p # o /\ q # o
      BY <1>1, <2>1, <2>3, <3>3 DEF OpenInv
    <3> QED  BY <3>1, <3>2, <3>3
  <2> QED  BY <2>3 DEF OpenInv
<1>2. ASSUME NEW o \in Orders, Grant(o) PROVE OpenInv'
  BY <1>1, <1>2 DEF Grant
<1>3. ASSUME NEW o \in Orders, NEW typed \in Codes \cup {None}, NEW use \in Asked, OpenOrder(o, typed, use)
      PROVE  OpenInv'
  BY <1>1, <1>3, Zenon DEF OpenOrder
<1>4. ASSUME NEW w \in Workers, StatusWritten(w) PROVE OpenInv'
  <2>1. work[w].order \in Orders
    BY <1>4 DEF StatusWritten, Shape
  <2>2. order' = [order EXCEPT ![work[w].order] = [order[work[w].order] EXCEPT !.status = "pending"]]
        /\ together' = together \cup OpenedBeside(work[w].order)
    BY <1>4 DEF StatusWritten
  <2> QED  BY <1>1, <2>1, <2>2
<1>5. ASSUME NEW w \in Workers, Activated(w) PROVE OpenInv'
  <2>1. \A q \in Orders : Open(q)' => Open(q)
    BY <1>5 DEF Activated, Open, Shape, Fields
  <2>2. together' = together
    BY <1>5 DEF Activated
  <2> QED  BY <2>1, <2>2 DEF OpenInv
<1>6. CASE UNCHANGED <<order, together>>
  BY <1>6 DEF OpenInv, Open
<1> QED
  BY <1>2, <1>3, <1>4, <1>5, <1>6 DEF Next, vars, Tick, CreatePromo, IssueCode, Deactivate, Notified, SpendLookedUp, RewardLookedUp, Abandoned

\* What was consumed stays consumed.
LEMMA CausesKept ==
  ASSUME together \subseteq together', \A q \in Orders : Consumed(q) => Consumed(q)'
  PROVE  /\ \A o \in Orders : Beside(o) => Beside(o)'
         /\ \A u \in Users : BothConsumed(u) => BothConsumed(u)'
<1>1. ASSUME NEW u PROVE OfUser(u)' = OfUser(u) /\ OfUser(u) \subseteq Orders
  BY DEF OfUser
<1>2. ASSUME NEW o \in Orders, Beside(o) PROVE Beside(o)'
  <2>1. PICK q \in OfUser(Buyer[o]) : {o, q} \in together /\ Consumed(q)
    BY <1>2 DEF Beside
  <2>2. q \in OfUser(Buyer[o])' /\ {o, q} \in together' /\ Consumed(q)'
    BY <1>1, <2>1
  <2> QED  BY <2>2 DEF Beside
<1>3. ASSUME NEW u \in Users, BothConsumed(u) PROVE BothConsumed(u)'
  <2>1. PICK p, q \in OfUser(u) : {p, q} \in together /\ Consumed(p) /\ Consumed(q)
    BY <1>3 DEF BothConsumed
  <2>2. p \in OfUser(u)' /\ q \in OfUser(u)' /\ {p, q} \in together' /\ Consumed(p)' /\ Consumed(q)'
    BY <1>1, <2>1
  <2> QED  BY <2>2 DEF BothConsumed
<1> QED  BY <1>2, <1>3

\* Steps that consume nothing.
LEMMA NothingConsumed ==
  ASSUME Counts, FitInv, UNCHANGED <<spends, spent>>, now' \in Nat, together \subseteq together',
         \A o \in Orders :
            /\ order[o].status # "none" => order'[o].status # "none" /\ order'[o].credit = order[o].credit
            /\ Paid(o)' /\ order'[o].credit > 0 => spends[o] > 0
            /\ order'[o].credit > 0 /\ spends[o] = 0 =>
                 \/ order'[o].credit = order[o].credit
                 \/ Fits(o)'
  PROVE  FitInv'
<1>1. \A q \in Orders : Consumed(q) => Consumed(q)'
  BY DEF Consumed, FitInv
<1>2. \A o \in Orders : Beside(o) => Beside(o)'
  BY <1>1, CausesKept
<1>3. \A u \in Users : BothConsumed(u) => BothConsumed(u)'
  BY <1>1, CausesKept
<1>4. ASSUME NEW o \in Orders, order'[o].credit > 0, spends'[o] = 0 PROVE Fits(o)' \/ Beside(o)'
  <2>1. CASE order'[o].credit = order[o].credit
    <3>1. Fits(o) \/ Beside(o)
      BY <1>4, <2>1 DEF FitInv
    <3>2. Fits(o) => Fits(o)'
      BY <2>1 DEF Fits
    <3> QED  BY <1>2, <3>1, <3>2
  <2> QED  BY <1>4, <2>1
<1>5. \A u \in Users : spent'[u] > Points[u] => BothConsumed(u)'
  BY <1>3 DEF FitInv
<1>6. \A o \in Orders : spends'[o] > 0 => order'[o].status # "none"
  BY DEF FitInv
<1>7. \A o \in Orders : Paid(o)' /\ order'[o].credit > 0 => spends'[o] > 0
  OBVIOUS
<1>8. spent' \in [Users -> Nat]
  BY DEF FitInv
<1> QED  BY <1>4, <1>5, <1>6, <1>7, <1>8 DEF FitInv

\* The one that does: the order was open, so beside every other open one.
LEMMA PointsConsumed ==
  ASSUME Shape, Counts, LockInv, PriceInv, OpenInv, FitInv, NEW w \in Workers, Activated(w)
  PROVE  FitInv'
<1>0. PICK o \in Orders : o = work[w].order /\ order[o].status # "none"
  BY CommitWritesMissing
<1> DEFINE u == Buyer[o]
<1>1. o \in Orders /\ order[o].status # "none" /\ u \in Users
  BY <1>0, LedgerAssumption
<1>2. /\ UNCHANGED <<now, together>>
      /\ \A q \in Orders : order'[q].credit = order[q].credit
      /\ order'[o].status = "paid" /\ \A q \in Orders \ {o} : order'[q].status = order[q].status
  BY <1>0, CommitWritesMissing, SMTT(20) DEF Shape, Fields
<1>3. CASE ~ToSpend(o)
  <2>1. UNCHANGED <<spends, spent>> /\ (order[o].credit > 0 => spends[o] > 0)
    BY <1>0, <1>3, CommitWritesMissing DEF ToSpend, Counts
  <2>2. \A q \in Orders : Paid(q)' /\ order'[q].credit > 0 => spends[q] > 0
    BY <1>2, <2>1 DEF FitInv, Paid
  <2>3. \A q \in Orders : order'[q].status = "none" => order[q].status = "none"
    BY <1>2
  <2>4. now' \in Nat /\ together \subseteq together'
    BY <1>2 DEF FitInv
  <2> QED  BY <1>2, <2>1, <2>2, <2>3, <2>4, NothingConsumed
<1>4. CASE ToSpend(o)
  <2>1. /\ spends' = [spends EXCEPT ![o] = @ + 1]
        /\ spent' = [spent EXCEPT ![u] = @ + order[o].credit]
        /\ order[o].credit > 0 /\ spends[o] = 0 /\ order[o].credit \in Nat
    BY <1>0, <1>4, CommitWritesMissing DEF ToSpend, PriceInv
  <2>2. /\ spends'[o] = 1 /\ \A q \in Orders \ {o} : spends'[q] = spends[q]
        /\ spends[o] = 0
    BY <1>1, <2>1 DEF Counts
  <2>3. /\ spent' \in [Users -> Nat]
        /\ spent'[u] = spent[u] + order[o].credit /\ \A v \in Users \ {u} : spent'[v] = spent[v]
    <3> HIDE DEF u
    <3> QED  BY <1>1, <2>1 DEF FitInv
  <2>4. Consumed(o)'
    BY <1>1, <1>2, <2>1, <2>2 DEF Consumed
  <2>5. \A q \in Orders : Consumed(q) => Consumed(q)'
    BY <1>2, <2>2 DEF Consumed
  <2>6. \A q \in Orders : order[q].credit > 0 /\ spends[q] = 0 => Open(q)
    BY DEF FitInv, PriceInv, Shape, Paid, Open
  <2>7. \A q \in Orders : Beside(q) => Beside(q)'
    BY <1>2, <2>5, CausesKept
  <2>8. \A v \in Users : BothConsumed(v) => BothConsumed(v)'
    BY <1>2, <2>5, CausesKept
  <2>9. ASSUME NEW q \in Orders, order'[q].credit > 0, spends'[q] = 0 PROVE Fits(q)' \/ Beside(q)'
    <3>1. q # o /\ order[q].credit > 0 /\ spends[q] = 0 /\ Buyer[q] \in Users
      BY LedgerAssumption, <1>2, <2>2, <2>9
    <3>2. CASE Buyer[q] = u
      <4>1. {q, o} \in together'
        BY <1>1, <1>2, <2>1, <2>6, <3>1 DEF OpenInv
      <4>2. o \in OfUser(Buyer[q])'
        BY <1>1, <3>2 DEF OfUser
      <4> QED  BY <2>4, <4>1, <4>2 DEF Beside
    <3>3. CASE Buyer[q] # u
      <4>1. Fits(q) => Fits(q)'
        BY <1>2, <2>3, <3>1, <3>3 DEF Fits
      <4>2. Fits(q) \/ Beside(q)
        BY <3>1 DEF FitInv
      <4> QED  BY <2>7, <4>1, <4>2
    <3> QED  BY <3>2, <3>3
  <2>10. ASSUME NEW v \in Users, spent'[v] > Points[v] PROVE BothConsumed(v)'
    <3>1. CASE v = u
      <4>1. ~Fits(o)
        <5>1. spent[u] \in Nat /\ Points[u] \in Nat
          BY LedgerAssumption, <1>1 DEF FitInv
        <5> QED  BY <2>1, <2>3, <2>10, <3>1, <5>1 DEF Fits
      <4>2. PICK q \in OfUser(u) : {o, q} \in together /\ Consumed(q)
        BY <1>1, <2>1, <4>1 DEF FitInv, Beside
      <4>3. o \in OfUser(v)' /\ q \in OfUser(v)' /\ q \in Orders
        BY <1>1, <3>1, <4>2 DEF OfUser
      <4>4. {o, q} \in together' /\ Consumed(q)'
        BY <1>2, <2>5, <4>2, <4>3
      <4> QED  BY <2>4, <4>3, <4>4 DEF BothConsumed
    <3>2. CASE v # u
      BY <2>3, <2>8, <2>10, <3>2 DEF FitInv
    <3> QED  BY <3>1, <3>2
  <2>11. \A q \in Orders : spends'[q] > 0 => order'[q].status # "none"
    BY <1>1, <1>2, <2>2 DEF FitInv
  <2>12. \A q \in Orders : Paid(q)' /\ order'[q].credit > 0 => spends'[q] > 0
    BY <1>1, <1>2, <2>2 DEF FitInv, Paid
  <2>13. now' \in Nat
    BY <1>2 DEF FitInv
  <2> QED  BY <2>3, <2>9, <2>10, <2>11, <2>12, <2>13 DEF FitInv
<1> QED  BY <1>3, <1>4

\* Points that two orders counted on are consumed by both only if they were
\* open together.
LEMMA FitStep == ASSUME Shape, Counts, LockInv, PriceInv, OpenInv, FitInv, [Next]_vars PROVE FitInv'
<1>1. ASSUME NEW o \in Orders, UNCHANGED <<spends, spent, now>>, together \subseteq together',
             \A q \in Orders \ {o} : order'[q] = order[q],
             order[o].status = "none", order'[o].status = "pending",
             order'[o].credit > 0 => Fits(o)'
      PROVE  FitInv'
  <2>1. now' \in Nat
    BY <1>1 DEF FitInv
  <2>2. \A q \in Orders :
            /\ order[q].status # "none" => order'[q].status # "none" /\ order'[q].credit = order[q].credit
            /\ Paid(q)' /\ order'[q].credit > 0 => spends[q] > 0
            /\ order'[q].credit > 0 /\ spends[q] = 0 =>
                 \/ order'[q].credit = order[q].credit
                 \/ Fits(q)'
    BY <1>1 DEF FitInv, Paid
  <2> QED  BY <1>1, <2>1, <2>2, NothingConsumed
<1>2. ASSUME NEW o \in Orders, Grant(o) PROVE FitInv'
  <2>1. UNCHANGED <<spends, spent, now>> /\ together \subseteq together'
    BY <1>2 DEF Grant
  <2>2. ~(order'[o].credit > 0)
    BY <1>2, GrantedOrder
  <2>3. /\ \A q \in Orders \ {o} : order'[q] = order[q]
        /\ order[o].status = "none" /\ order'[o].status = "pending"
    BY <1>2, GrantedOrder
  <2> QED  BY <1>1, <2>1, <2>2, <2>3
<1>3. ASSUME NEW o \in Orders, NEW typed \in Codes \cup {None}, NEW use \in Asked, OpenOrder(o, typed, use)
      PROVE  FitInv'
  <2>1. UNCHANGED <<spends, spent, now>> /\ together \subseteq together'
    BY <1>3 DEF OpenOrder
  <2>2. order'[o].credit > 0 => Fits(o)'
    BY <1>3, <2>1, OpenedOrder DEF Fits
  <2>3. /\ \A q \in Orders \ {o} : order'[q] = order[q]
        /\ order[o].status = "none" /\ order'[o].status = "pending"
    BY <1>3, OpenedOrder
  <2> QED  BY <1>1, <2>1, <2>2, <2>3
<1>4. ASSUME NEW w \in Workers, StatusWritten(w) PROVE FitInv'
  <2>1. /\ UNCHANGED <<spends, spent, now>> /\ together \subseteq together'
        /\ \A q \in Orders : /\ order'[q].credit = order[q].credit
                             /\ order'[q].status = "pending" \/ order'[q].status = order[q].status
    BY <1>4 DEF StatusWritten, Shape, Fields
  <2>2. now' \in Nat
    BY <2>1 DEF FitInv
  <2>3. \A q \in Orders : Paid(q)' /\ order'[q].credit > 0 => spends[q] > 0
    BY <2>1 DEF FitInv, Paid
  <2> QED  BY <2>1, <2>2, <2>3, NothingConsumed
<1>5. ASSUME NEW w \in Workers, Activated(w) PROVE FitInv'
  BY <1>5, PointsConsumed
<1>6. CASE UNCHANGED <<order, spends, spent, together>> /\ now' \in Nat
  <2>1. \A q \in Orders : Paid(q)' /\ order'[q].credit > 0 => spends[q] > 0
    BY <1>6 DEF FitInv, Paid
  <2>2. together \subseteq together'
    BY <1>6
  <2> QED  BY <1>6, <2>1, <2>2, NothingConsumed
<1>7. CASE Tick
  <2>1. now' \in Nat
    BY <1>7 DEF Tick, FitInv
  <2> QED  BY <1>6, <1>7, <2>1 DEF Tick
<1>8. CASE UNCHANGED <<order, spends, spent, together, now>>
  <2>1. now' \in Nat
    BY <1>8 DEF FitInv
  <2> QED  BY <1>6, <1>8, <2>1
<1> QED
  BY <1>2, <1>3, <1>4, <1>5, <1>7, <1>8 DEF Next, vars, CreatePromo, IssueCode, Deactivate, Notified, SpendLookedUp, RewardLookedUp, Abandoned

-----------------------------------------------------------------------------
\* A friend's code serves two purchases of a customer only if both orders were
\* open at the same time (resolve_code, is_first_purchase), for any number of
\* customers, codes and late or repeated notifications.
THEOREM FriendOnceUnlessTogether == Spec => []FriendsCodeOnce
<1>1. Shape /\ FriendInv => FriendsCodeOnce
  BY DEF FriendInv, FriendsCodeOnce, WithFriend, Paid
<1> QED  BY <1>1, InitShape, ShapeStep, FriendStep, PTL DEF Spec

\* A capped code is used beyond its cap only by orders that were open at the
\* same time (uses_of, resolve_code), for every cap and any number of orders.
THEOREM CapHoldsUnlessTogether == Spec => []CapExceededOnlyTogether
<1>1. Init => CapInv
  <2> SUFFICES ASSUME Init, NEW c \in Codes, NEW S \in SUBSET Orders, OneByOne(S, c)
               PROVE  Cardinality(S) = 0
    BY LedgerAssumption DEF CapInv
  <2>1. S = {}
    BY DEF Init, OneByOne, NoOrder
  <2> QED  BY <2>1, FS_EmptySet
<1>2. Shape /\ CapInv => CapExceededOnlyTogether
  <2> SUFFICES ASSUME Shape, CapInv, NEW c \in Codes, MaxUses[c] # 0, UsesOf(c) > MaxUses[c]
               PROVE  \E o, q \in Orders : /\ {o, q} \in together
                                          /\ Paid(o) /\ order[o].code = c
                                          /\ Paid(q) /\ order[q].code = c
    BY DEF CapExceededOnlyTogether
  <2> DEFINE S == {o \in Orders : Paid(o) /\ order[o].code = c}
  <2>1. Cardinality(S) \in Nat /\ MaxUses[c] \in Nat
    BY LedgerAssumption, FS_Subset, FS_CardinalityType
  <2>2. ~(Cardinality(S) <= MaxUses[c])
    BY <2>1 DEF UsesOf
  <2>3. ~OneByOne(S, c)
    BY <2>2 DEF CapInv
  <2> QED  BY <2>3 DEF OneByOne, Paid
<1> QED  BY <1>1, <1>2, InitShape, ShapeStep, CapStep, PTL DEF Spec

\* Both limits of a code at once: what price_order checks at checkout and nobody
\* checks again at payment is passed only by orders that were open together.
THEOREM LimitsHoldUnlessTogether == Spec => []LimitsPassedOnlyTogether
  BY FriendOnceUnlessTogether, CapHoldsUnlessTogether, PTL DEF LimitsPassedOnlyTogether

\* Prices, points and the pairs that were open together, at the start.
LEMMA InitPrices == Init => PriceInv /\ OpenInv /\ FitInv
  BY LedgerAssumption DEF Init, NoOrder, PriceInv, OpenInv, FitInv, Open, Paid, Consumed, Fits, Beside, BothConsumed

\* What the two theorems below need of each other.
LEMMA PricesAndPoints == Spec => [](Shape /\ Counts /\ LockInv /\ RewardInv /\ PriceInv /\ OpenInv /\ FitInv)
  BY InitShape, InitPrices, ShapeStep, CountsStep, LockStep, RewardStep, PriceStep, OpenStep, FitStep, PTL DEF Spec

\* A paid order has consumed its points and rewarded its friend exactly once, and
\* no order did either twice, in every behaviour: also when activations of it
\* overlap, die between lookup and commit, or a late status reopens it
\* (spend_on_payment, reward_for_payment and the row locks of activate_payment).
THEOREM OrderConsumedOnce == Spec => []ConsumedOnce
<1>1. Counts /\ RewardInv /\ FitInv => ConsumedOnce
  BY DEF Counts, RewardInv, FitInv, ConsumedOnce
<1> QED  BY <1>1, PricesAndPoints, PTL

\* max_credit_for and discounted_price: at least half of what an order costs is
\* money, for every price of two rubles or more and every discount the admin
\* panel allows, and the parts add up to the price.
THEOREM OrderIsHalfCash == Spec => []HalfInCash
<1>1. Shape /\ PriceInv => HalfInCash
  BY LedgerAssumption DEF PriceInv, HalfInCash
<1> QED  BY <1>1, PricesAndPoints, PTL

\* balance is asked at checkout and points are consumed at payment: a balance
\* below zero comes from two orders that were open together, for any number of
\* orders and points.
THEOREM OverdraftNeedsTwoOpenOrders == Spec => []OverdraftHasACause
<1>1. FitInv => OverdraftHasACause
  <2> SUFFICES ASSUME FitInv, NEW u \in Users, PointsVest <= now, now < PointsEnd, Balance(u) < 0
               PROVE  BothConsumed(u)
    BY DEF OverdraftHasACause, BothConsumed, Consumed
  <2>1. spent[u] \in Nat /\ Points[u] \in Nat
    BY LedgerAssumption DEF FitInv
  <2>2. Points[u] - spent[u] < 0
    BY <2>1 DEF Balance
  <2>3. spent[u] > Points[u]
    BY <2>1, <2>2
  <2> QED  BY <2>3 DEF FitInv
<1> QED  BY <1>1, PricesAndPoints, PTL
=============================================================================
