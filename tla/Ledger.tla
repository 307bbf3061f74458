------------------------------- MODULE Ledger -------------------------------
(***************************************************************************)
(* What an order costs and what it consumes: promo codes, old points and   *)
(* referral rewards (pwa/services/credit.py), from checkout (_open_order)  *)
(* to activation (activate_payment).                                       *)
(*                                                                         *)
(* Checkout prices an order and commits it; nothing is consumed until the  *)
(* order is paid, any time later, so several open orders may count on the  *)
(* same points, the same first purchase or the last use of a code.  The    *)
(* relation `together' remembers which orders were open at the same time:  *)
(* the properties say that this is the only way past each limit.           *)
(*                                                                         *)
(* Two activations of one order may overlap, and a late status may reopen  *)
(* one that is paid (see module Activation).  Each looks for an earlier    *)
(* spend, then for an earlier reward, and commits what it found missing;   *)
(* no constraint guards a spend.  The first of these queries flushes the   *)
(* UPDATEs of the buyer and of the payment: the locks of those rows, held  *)
(* until the commit, are what stands between one entry and two.            *)
(***************************************************************************)
EXTENDS Integers, FiniteSets, FiniteSetsExt

CONSTANTS
    Users, Orders, Codes, Workers, None,
    Buyer,        \* [Orders -> Users]
    Manual,       \* orders opened from the admin panel: nothing is charged
    Owner,        \* [Codes -> Users \cup {None}]: None is a campaign code
    MaxUses,      \* [Codes -> Nat]: 0 stands for no cap
    CodeEnds,     \* [Codes -> Nat]: promo_codes.expires_at
    Members,      \* customers with a subscription from before that outlasts MaxNow
    LinkCode,     \* [Users -> Codes \cup {None}]: users.referred_code
    Price,        \* of the one plan sold here
    Percent,      \* of discount a code gives
    Points,       \* [Users -> Nat]: old points, the positive ledger entries
    PointsVest, PointsEnd,      \* when they may be spent and when they expire
    Asked,        \* amounts of credit a customer may ask to use
    MaxNow,       \* bound: the clock stops here
    MaxCalls      \* bound: notifications taken up

ASSUME LedgerAssumption ==
    /\ None \notin Users \cup Codes \cup Orders
    /\ IsFiniteSet(Orders)
    /\ Buyer \in [Orders -> Users] /\ Manual \subseteq Orders
    /\ Owner \in [Codes -> Users \cup {None}]
    /\ MaxUses \in [Codes -> Nat] /\ CodeEnds \in [Codes -> Nat]
    /\ Members \subseteq Users
    /\ LinkCode \in [Users -> Codes \cup {None}]
    /\ Points \in [Users -> Nat] /\ Asked \subseteq Nat
    /\ Price \in Nat \ {0, 1} /\ Percent \in 1..60
    /\ {PointsVest, PointsEnd, MaxNow, MaxCalls} \subseteq Nat

VARIABLES
    now,
    codes,     \* promo_codes: rows are never deleted
    active,    \* those with is_active
    order,     \* payments: status, amount, credit_spent, promo_code
    spends,    \* credit_entries with reason "spend", per order
    spent,     \* ... and what those of a customer add up to
    rewards,   \* referral_rewards, per order
    work,      \* notifications being handled: of which order, what is to be done
               \* next, and what the lookups found missing
    calls,     \* notifications taken up, to bound them
    together   \* history: pairs of orders that were open at the same time

vars == <<now, codes, active, order, spends, spent, rewards, work, calls, together>>

-----------------------------------------------------------------------------
NoOrder == [status |-> "none", amount |-> 0, credit |-> 0, code |-> None]
NoWork  == [order |-> None, job |-> "none", spend |-> FALSE, reward |-> FALSE]

-----------------------------------------------------------------------------
(* Queries                                                                 *)

Paid(o) == order[o].status = "paid"

\* balance: vested, unexpired entries.  A spend has neither date and counts for
\* ever.
Balance(u) == (IF PointsVest <= now /\ now < PointsEnd THEN Points[u] ELSE 0) - spent[u]

\* is_first_purchase: no paid order; a grant is not a purchase.
FirstPurchase(u) == \A o \in Orders \ Manual : Buyer[o] = u => ~Paid(o)

\* uses_of: counted from the paid orders, never stored.
UsesOf(c) == Cardinality({o \in Orders : Paid(o) /\ order[o].code = c})

\* (Names with an underscore are faulty variants, which the properties catch.)
HasUseLeft_Stuck(c) == TRUE
HasUseLeft(c) == MaxUses[c] # 0 => UsesOf(c) < MaxUses[c]

\* resolve_code: is the code good for this buyer now?
Usable(c, u) ==
    /\ c \in active
    /\ now < CodeEnds[c]
    /\ HasUseLeft(c)
    /\ Owner[c] # u
    /\ Owner[c] # None => FirstPurchase(u)

\* round() of Python: to the nearest whole ruble, halves to the even one.
RoundedShare(price, percent) ==
    LET whole == (price * percent) \div 100
        rest  == (price * percent) % 100
    IN  IF rest > 50 \/ (rest = 50 /\ whole % 2 = 1) THEN whole + 1 ELSE whole

DiscountedPrice(c) == IF c = None THEN Price ELSE Price - RoundedShare(Price, Percent)

\* max_credit_for: int() of one half.
MaxCreditFor_All(amount) == amount
MaxCreditFor(amount) == amount \div 2

\* price_order: what is asked for, within the balance and half the order.
CreditFor_NoBalance(u, use, amount) == Min({use, MaxCreditFor(amount)})
CreditFor(u, use, amount) == Max({0, Min({use, Balance(u), MaxCreditFor(amount)})})

\* price_order: a code typed wins; otherwise the link's, on a first purchase
\* and only if it still resolves.
CodeFor(u, typed) ==
    IF typed # None THEN typed
    ELSE LET link == LinkCode[u]
         IN  IF link # None /\ FirstPurchase(u) /\ Usable(link, u) THEN link ELSE None

\* reward_for_payment: a code with an owner other than the buyer, and cash.
Earns(o) ==
    LET c == order[o].code
    IN  /\ c # None
        /\ Owner[c] \notin {None, Buyer[o]}
        /\ order[o].amount > 0

\* spend_on_payment: an order priced with credit, not spent by an earlier call.
ToSpend(o) == order[o].credit > 0 /\ spends[o] = 0

\* ... and reward_for_payment likewise.
ToReward(o) == Earns(o) /\ rewards[o] = 0

-----------------------------------------------------------------------------
Init ==
    /\ now = 0
    /\ codes = {} /\ active = {}
    /\ order = [o \in Orders |-> NoOrder]
    /\ spends = [o \in Orders |-> 0] /\ spent = [u \in Users |-> 0]
    /\ rewards = [o \in Orders |-> 0]
    /\ work = [w \in Workers |-> NoWork]
    /\ calls = 0
    /\ together = {}

Tick ==
    /\ now < MaxNow
    /\ now' = now + 1
    /\ UNCHANGED <<codes, active, order, spends, spent, rewards, work, calls, together>>

\* deactivate_promo_code: campaign or friend's code alike.
Deactivate(c) ==
    /\ c \in active
    /\ active' = active \ {c}
    /\ UNCHANGED <<now, codes, order, spends, spent, rewards, work, calls, together>>

\* create_promo_code: a campaign's code, under a name not taken and with an end
\* that lies ahead.
CreatePromo(c) ==
    /\ Owner[c] = None
    /\ c \notin codes
    /\ now < CodeEnds[c]
    /\ codes' = codes \cup {c}
    /\ active' = active \cup {c}
    /\ UNCHANGED <<now, order, spends, spent, rewards, work, calls, together>>

\* has_active_subscription of one who has bought, or was given, a period.
Subscribed(u) == u \in Members \/ \E o \in Orders : Buyer[o] = u /\ Paid(o)

\* create_referral, issue_code: a customer's own code, under a name not taken;
\* one who has an active code is answered with that.
IssueCode(c) ==
    /\ Owner[c] # None /\ Subscribed(Owner[c])
    /\ \A k \in active : Owner[k] # Owner[c]
    /\ c \notin codes
    /\ codes' = codes \cup {c}
    /\ active' = active \cup {c}
    /\ UNCHANGED <<now, order, spends, spent, rewards, work, calls, together>>

\* Still to be paid.  ("pending" stands for every status a webhook may write
\* but paid: none of them closes an order, the money may come after it.)
Open(o) == order[o].status = "pending"

OpenedBeside(o) == {{o, q} : q \in {r \in Orders \ {o} : Open(r)}}

\* _open_order: a code that was typed and is refused stops the order (400);
\* otherwise it is priced and committed as pending.
OpenOrder(o, typed, use) ==
    LET u == Buyer[o]
        c == CodeFor(u, typed)
        discounted == DiscountedPrice(c)
        credit == CreditFor(u, use, discounted)
    IN
    /\ o \notin Manual
    /\ order[o].status = "none"
    /\ typed # None => Usable(typed, u)
    /\ order' = [order EXCEPT ![o] = [status |-> "pending", amount |-> discounted - credit,
                                      credit |-> credit, code |-> c]]
    /\ together' = together \cup OpenedBeside(o)
    /\ UNCHANGED <<now, codes, active, spends, spent, rewards, work, calls>>

\* admin_grant.grant: amount 0, no code and no credit.
Grant(o) ==
    /\ o \in Manual
    /\ order[o].status = "none"
    /\ order' = [order EXCEPT ![o] = [NoOrder EXCEPT !.status = "pending"]]
    /\ together' = together \cup OpenedBeside(o)
    /\ UNCHANGED <<now, codes, active, spends, spent, rewards, work, calls>>

\* A notification of an order that is not paid when the handler looks: of money
\* received (activate_payment follows), or of any other status.  A grant, which no
\* gateway knows of, is activated by the request that opened it.
Notified(w, o, job) ==
    /\ work[w] = NoWork
    /\ Open(o)
    /\ job = "status" => o \notin Manual
    /\ calls < MaxCalls
    /\ calls' = calls + 1
    /\ work' = [work EXCEPT ![w] = [NoWork EXCEPT !.order = o, !.job = job]]
    /\ UNCHANGED <<now, codes, active, order, spends, spent, rewards, together>>

\* An activation past its flush holds the row of its buyer in users and that of
\* its order in payments.
Holds(w) == work[w].job \in {"reward", "commit"}

PaymentFree(o) == \A v \in Workers : Holds(v) => work[v].order # o

RowsFree_NoLock(o) == TRUE
RowsFree(o) == \A v \in Workers : Holds(v) => Buyer[work[v].order] # Buyer[o]

\* activate_payment up to spend_on_payment's lookup: the UPDATEs of buyer and
\* payment are flushed before it, and wait for whoever holds those rows.
SpendLookedUp(w) ==
    LET o == work[w].order IN
    /\ work[w].job = "activate"
    /\ RowsFree(o)
    /\ work' = [work EXCEPT ![w].job = "reward", ![w].spend = ToSpend(o)]
    /\ UNCHANGED <<now, codes, active, order, spends, spent, rewards, calls, together>>

\* reward_for_payment, in a savepoint of its own.
RewardLookedUp(w) ==
    /\ work[w].job = "reward"
    /\ work' = [work EXCEPT ![w].job = "commit", ![w].reward = ToReward(work[w].order)]
    /\ UNCHANGED <<now, codes, active, order, spends, spent, rewards, calls, together>>

\* activate_payment commits status, spend and reward together.  source_payment_id
\* is unique: a reward recorded meanwhile makes this one fail, in its savepoint.
Activated(w) ==
    LET o == work[w].order IN
    /\ work[w].job = "commit"
    /\ order' = [order EXCEPT ![o].status = "paid"]
    /\ spends' = IF work[w].spend THEN [spends EXCEPT ![o] = @ + 1] ELSE spends
    /\ spent' = IF work[w].spend THEN [spent EXCEPT ![Buyer[o]] = @ + order[o].credit] ELSE spent
    /\ rewards' = IF work[w].reward /\ rewards[o] = 0 THEN [rewards EXCEPT ![o] = 1] ELSE rewards
    /\ work' = [work EXCEPT ![w] = NoWork]
    /\ UNCHANGED <<now, codes, active, calls, together>>

\* payment_webhook writes another status, over "paid" if that was committed
\* meanwhile: the order is open again.  An activation that holds the row is waited
\* for.
StatusWritten(w) ==
    LET o == work[w].order IN
    /\ work[w].job = "status"
    /\ PaymentFree(o)
    /\ order' = [order EXCEPT ![o].status = "pending"]
    /\ together' = together \cup OpenedBeside(o)
    /\ work' = [work EXCEPT ![w] = NoWork]
    /\ UNCHANGED <<now, codes, active, spends, spent, rewards, calls>>

\* The process dies, or the node call raises: nothing of it was written, and the
\* rows it held are free.
Abandoned(w) ==
    /\ work[w] # NoWork
    /\ work' = [work EXCEPT ![w] = NoWork]
    /\ UNCHANGED <<now, codes, active, order, spends, spent, rewards, calls, together>>

Next ==
    \/ Tick
    \/ \E c \in Codes : CreatePromo(c) \/ IssueCode(c) \/ Deactivate(c)
    \/ \E o \in Orders : Grant(o)
    \/ \E o \in Orders, typed \in Codes \cup {None}, use \in Asked : OpenOrder(o, typed, use)
    \/ \E w \in Workers : SpendLookedUp(w) \/ RewardLookedUp(w) \/ Activated(w)
    \/ \E w \in Workers : StatusWritten(w) \/ Abandoned(w)
    \/ \E w \in Workers, o \in Orders, job \in {"activate", "status"} : Notified(w, o, job)

Spec == Init /\ [][Next]_vars

-----------------------------------------------------------------------------
(* Properties                                                              *)

OfUser(u) == {o \in Orders : Buyer[o] = u}

\* Half of every order is real money, whatever code and points were used on it
\* (credit.py 62-65: "Every purchase stays a real transaction"), and the parts
\* of a price add up to it: no invoice is above the price.
HalfInCash ==
    \A o \in Orders \ Manual : order[o].status # "none" =>
        /\ order[o].amount + order[o].credit = DiscountedPrice(order[o].code)
        /\ order[o].amount >= order[o].credit /\ order[o].credit >= 0
        /\ order[o].amount > 0

\* A balance below zero has one cause: two orders of the customer, open at the
\* same time, counted on the same points.  (Until the points expire: a spend
\* counts for ever and the points it consumed do not, see the README.)
OverdraftHasACause ==
    \A u \in Users : PointsVest <= now /\ now < PointsEnd /\ Balance(u) < 0 =>
        \E o, q \in OfUser(u) : /\ {o, q} \in together
                                /\ spends[o] > 0 /\ order[o].credit > 0
                                /\ spends[q] > 0 /\ order[q].credit > 0

\* A paid order has consumed its points and rewarded its friend exactly once, and
\* no order did so twice, also when activations of it overlap, one dies between
\* its lookups and its commit, or a late status reopens it (credit.py 377-378: "a
\* second call finds the spend already recorded and does nothing").
ConsumedOnce ==
    \A o \in Orders :
        /\ spends[o] <= 1 /\ rewards[o] <= 1
        /\ Paid(o) => /\ order[o].credit > 0 => spends[o] = 1
                      /\ Earns(o) => rewards[o] = 1

\* A friend's code serves one purchase of a customer (credit.py 271-274: "it
\* discounts the first purchase and rewards the friend once"), unless both
\* orders were open before either was paid.
FriendsCodeOnce ==
    \A o, q \in Orders :
        /\ o # q /\ Buyer[o] = Buyer[q]
        /\ Paid(o) /\ Paid(q)
        /\ order[o].code # None /\ Owner[order[o].code] # None
        /\ order[q].code # None /\ Owner[order[q].code] # None
        => {o, q} \in together

\* A capped code is over-used only by orders that were open together (credit.py
\* 219-221 accepts that much and no more).
CapExceededOnlyTogether ==
    \A c \in Codes : MaxUses[c] # 0 /\ UsesOf(c) > MaxUses[c] =>
        \E o, q \in Orders : /\ {o, q} \in together
                             /\ Paid(o) /\ order[o].code = c
                             /\ Paid(q) /\ order[q].code = c

\* Both limits of a code are passed only by orders that were open together.
LimitsPassedOnlyTogether == FriendsCodeOnce /\ CapExceededOnlyTogether
=============================================================================
