-------------------------- MODULE BackOfficeProofs --------------------------
(***************************************************************************)
(* What the clerks of the shop promise about a payment, for any number of  *)
(* orders, of calls that are cut, and any size of a listing: it is         *)
(* accepted once, unless two writers had the order in hand together.       *)
(***************************************************************************)
EXTENDS BackOffice, TLAPS

OrdersType ==
    /\ state \in Seq({"awaiting", "paid"})
    /\ accepted \in Seq(Nat)
    /\ Len(accepted) = Len(state)

(* The history of an order that awaits its wire holds no acceptance, and   *)
(* one that holds none awaits: a listing finds what nobody has settled.    *)
AwaitsUntilAccepted == \A o \in Orders : state[o] = "awaiting" <=> accepted[o] = 0

HandsType ==
    /\ pass \subseteq Orders
    /\ late \subseteq Orders
    /\ script \in [at : {"off", "listing", "settling", "over"},
                   offset : Nat, found : SUBSET Orders]

(* An order that was never shared is in one hand at most: listed by the    *)
(* pass, listed by the script, or still being worked on by the shop.       *)
OneHand ==
    \A o \in Orders \ shared :
        /\ ~ (o \in pass /\ o \in script.found)
        /\ ~ (o \in pass /\ o \in late)
        /\ ~ (o \in script.found /\ o \in late)

(* And until that hand has let go of it, it is not accepted.               *)
UnpaidInHand == \A o \in InHand \ shared : accepted[o] = 0

BInv ==
    /\ OrdersType
    /\ AwaitsUntilAccepted
    /\ HandsType
    /\ OneHand
    /\ UnpaidInHand
    /\ AcceptedOnce

-----------------------------------------------------------------------------
(* What the operations of the shop do to its orders                        *)

LEMMA OrdersAfterPayment ==
    ASSUME OrdersType, NEW o \in Orders, MarkPaid(o)
    PROVE  /\ OrdersType'
           /\ Orders' = Orders
           /\ \A x \in Orders : accepted[x] \in Nat
           /\ state'[o] = "paid" /\ accepted'[o] = accepted[o] + 1
           /\ \A x \in Orders \ {o} :
                state'[x] = state[x] /\ accepted'[x] = accepted[x]
BY DEF OrdersType, MarkPaid, Orders

LEMMA OrdersAfterPurchase ==
    ASSUME OrdersType, NEW p, Buy(p)
    PROVE  /\ OrdersType'
           /\ \A x \in Orders : accepted[x] \in Nat
           /\ \E n \in Nat :
                /\ n \notin Orders /\ Orders' = Orders \union {n}
                /\ state'[n] = "awaiting" /\ accepted'[n] = 0
                /\ \A x \in Orders :
                    state'[x] = state[x] /\ accepted'[x] = accepted[x]
<1>1. Orders = 1 .. Len(state) /\ Len(state) \in Nat
  BY DEF OrdersType, Orders
<1>2. /\ state' \in Seq({"awaiting", "paid"}) /\ accepted' \in Seq(Nat)
      /\ Len(state') = Len(state) + 1 /\ Len(accepted') = Len(state) + 1
      /\ state'[Len(state) + 1] = "awaiting" /\ accepted'[Len(state) + 1] = 0
      /\ \A x \in 1 .. Len(state) :
            state'[x] = state[x] /\ accepted'[x] = accepted[x]
  BY DEF OrdersType, Buy
<1>3. Orders' = 1 .. Len(state) + 1
  BY <1>2 DEF Orders
<1>4. \A x \in Orders : accepted[x] \in Nat
  BY <1>1 DEF OrdersType
<1>5. OrdersType'
  BY <1>2 DEF OrdersType
<1> DEFINE n == Len(state) + 1
<1>6. n \in Nat /\ n \notin Orders /\ Orders' = Orders \union {n}
  BY <1>1, <1>3
<1> QED
  BY <1>1, <1>2, <1>4, <1>5, <1>6

(* A listing answers orders that await their wire, and nothing else.       *)
LEMMA ListedAwaits ==
    ASSUME NEW offset, NEW size
    PROVE  /\ Listing(offset, size) \subseteq Orders
           /\ \A o \in Listing(offset, size) : state[o] = "awaiting"
BY DEF Listing, Rows, Awaiting

-----------------------------------------------------------------------------
(* A step that leaves the orders alone keeps the invariant when it puts    *)
(* none into a hand but one that awaits, and remembers those it shares.    *)
LEMMA HandsMove ==
    ASSUME BInv, UNCHANGED <<state, accepted>>, HandsType',
           shared \subseteq shared',
           \A o \in InHand' \ shared' : o \in InHand \/ state[o] = "awaiting",
           OneHand'
    PROVE  BInv'
<1>1. Orders' = Orders /\ OrdersType' /\ AwaitsUntilAccepted'
  BY DEF BInv, OrdersType, AwaitsUntilAccepted, Orders
<1>2. InHand' \subseteq Orders
  BY <1>1 DEF HandsType, InHand
<1>3. UnpaidInHand'
  BY <1>1, <1>2 DEF BInv, AwaitsUntilAccepted, UnpaidInHand
<1>4. AcceptedOnce'
  BY <1>1 DEF BInv, AcceptedOnce
<1> QED
  BY <1>1, <1>3, <1>4 DEF BInv

(* An acceptance keeps it when the order was in a hand, and leaves it.     *)
LEMMA PaidFromHand ==
    ASSUME BInv, NEW o \in InHand, o \in Orders, MarkPaid(o), HandsType',
           shared' = shared,
           pass' \subseteq pass, script'.found \subseteq script.found, late' \subseteq late,
           o \in shared \/ o \notin InHand'
    PROVE  BInv'
<1>1. /\ OrdersType' /\ Orders' = Orders
      /\ \A x \in Orders : accepted[x] \in Nat
      /\ state'[o] = "paid" /\ accepted'[o] = accepted[o] + 1
      /\ \A x \in Orders \ {o} : state'[x] = state[x] /\ accepted'[x] = accepted[x]
  BY OrdersAfterPayment DEF BInv
<1>2. InHand' \subseteq InHand /\ InHand \subseteq Orders
  BY DEF BInv, InHand, HandsType
<1>3. AwaitsUntilAccepted'
  BY <1>1 DEF BInv, AwaitsUntilAccepted
<1>4. OneHand'
  BY <1>1 DEF BInv, OneHand
<1>5. UnpaidInHand'
  BY <1>1, <1>2 DEF BInv, UnpaidInHand
<1>6. AcceptedOnce'
  BY <1>1 DEF BInv, AcceptedOnce, UnpaidInHand
<1> QED
  BY <1>1, <1>3, <1>4, <1>5, <1>6 DEF BInv

(* A call that is cut, of an order in a hand that lets go of it.           *)
LEMMA CutFromHand ==
    ASSUME BInv, NEW o \in Orders, o \in pass \union script.found, Cut(o),
           HandsType', shared' = shared,
           pass' \subseteq pass, script'.found \subseteq script.found,
           \/ o \in pass /\ o \notin pass'
           \/ o \in script.found /\ o \notin script'.found
    PROVE  BInv'
<1>0. o \in InHand
  BY DEF InHand
<1>1. CASE UNCHANGED <<shopVars, late>>
  <2>1. InHand' \subseteq InHand
    BY <1>1 DEF InHand
  <2>2. OneHand'
    BY <1>1 DEF BInv, OneHand, Orders, shopVars
  <2> QED
    BY <1>1, <2>1, <2>2, HandsMove DEF shopVars
<1>2. CASE MarkPaid(o) /\ UNCHANGED late
  <2>1. o \in shared \/ o \notin InHand'
    BY <1>2 DEF BInv, OneHand, InHand
  <2> QED
    BY <1>0, <1>2, <2>1, PaidFromHand
<1>3. CASE late' = late \union {o} /\ UNCHANGED shopVars
  <2>1. InHand' \subseteq InHand
    BY <1>0, <1>3 DEF InHand
  <2>2. OneHand'
    BY <1>3 DEF BInv, OneHand, Orders, shopVars
  <2> QED
    BY <1>3, <2>1, <2>2, HandsMove DEF shopVars
<1> QED
  BY <1>1, <1>2, <1>3 DEF Cut

-----------------------------------------------------------------------------
LEMMA BInit == Init => BInv
BY DEF Init, BInv, OrdersType, AwaitsUntilAccepted, HandsType, OneHand, UnpaidInHand,
       AcceptedOnce, Orders, InHand, NoScript

LEMMA PurchaseStep ==
    ASSUME BInv, NEW p \in Products, Buy(p)
    PROVE  BInv'
<1>1. /\ OrdersType' /\ \A x \in Orders : accepted[x] \in Nat
  BY OrdersAfterPurchase DEF BInv
<1>2. PICK n \in Nat :
        /\ n \notin Orders /\ Orders' = Orders \union {n}
        /\ state'[n] = "awaiting" /\ accepted'[n] = 0
        /\ \A x \in Orders : state'[x] = state[x] /\ accepted'[x] = accepted[x]
  BY OrdersAfterPurchase DEF BInv
<1>3. UNCHANGED <<pass, script, late, shared>>
  BY DEF Buy, paymentVars
<1>4. HandsType' /\ InHand' = InHand /\ InHand \subseteq Orders
  BY <1>2, <1>3 DEF BInv, HandsType, InHand
<1>5. AwaitsUntilAccepted'
  BY <1>2 DEF BInv, AwaitsUntilAccepted
<1>6. OneHand'
  BY <1>2, <1>3, <1>4 DEF BInv, OneHand, InHand
<1>7. UnpaidInHand'
  BY <1>2, <1>3, <1>4 DEF BInv, UnpaidInHand
<1>8. AcceptedOnce'
  BY <1>2, <1>3 DEF BInv, AcceptedOnce
<1> QED
  BY <1>1, <1>4, <1>5, <1>6, <1>7, <1>8 DEF BInv

LEMMA StartStep ==
    ASSUME BInv, StartPass
    PROVE  BInv'
<1>0. HandsType /\ OneHand
  BY DEF BInv
<1>1. pass = {} /\ pass' \subseteq Orders /\ \A x \in pass' : state[x] = "awaiting"
  BY ListedAwaits DEF StartPass
<1>2. /\ shared' = shared \union (pass' \intersect InHand)
      /\ UNCHANGED <<state, accepted, script, late>> /\ Orders' = Orders
  BY DEF StartPass, shopVars, Orders
<1>3. HandsType'
  BY <1>0, <1>1, <1>2 DEF HandsType
<1>4. OneHand'
  BY <1>0, <1>1, <1>2 DEF OneHand, InHand
<1> QED
  BY <1>1, <1>2, <1>3, <1>4, HandsMove DEF InHand

LEMMA PassStep ==
    ASSUME BInv, NEW o \in Orders, Accept(o) \/ RefusedOnce(o) \/ PassAborts(o)
    PROVE  BInv'
<1>0. HandsType /\ OneHand
  BY DEF BInv
<1>1. CASE Accept(o) /\ o \notin Refused
  <2>1. /\ o \in pass /\ pass' = pass \ {o} /\ MarkPaid(o)
        /\ UNCHANGED <<script, late, shared>> /\ Orders' = Orders
    BY <1>1, OrdersAfterPayment DEF Accept, IsNext, BInv
  <2>2. HandsType'
    BY <1>0, <2>1 DEF HandsType
  <2>3. o \in InHand /\ (o \in shared \/ o \notin InHand')
    BY <1>0, <2>1 DEF OneHand, InHand
  <2> QED
    BY <2>1, <2>2, <2>3, PaidFromHand
<1>2. CASE (Accept(o) /\ o \in Refused) \/ RefusedOnce(o)
  <2>1. pass' \subseteq pass /\ UNCHANGED <<state, accepted, script, late, shared>>
    BY <1>2 DEF Accept, RefusedOnce, Skip, shopVars
  <2>2. HandsType' /\ Orders' = Orders
    BY <1>0, <2>1 DEF HandsType, Orders
  <2>3. OneHand'
    BY <1>0, <2>1, <2>2 DEF OneHand
  <2> QED
    BY <2>1, <2>2, <2>3, HandsMove DEF InHand
<1>3. CASE PassAborts(o)
  <2>1. o \in pass /\ Cut(o) /\ pass' = {} /\ UNCHANGED <<script, shared>>
    BY <1>3 DEF PassAborts, IsNext
  <2>2. Orders' = Orders /\ late' \subseteq late \union {o}
    BY <2>1, OrdersAfterPayment DEF BInv, Cut, Orders, shopVars
  <2>3. HandsType'
    BY <1>0, <2>1, <2>2 DEF HandsType
  <2> QED
    BY <2>1, <2>3, CutFromHand
<1> QED
  BY <1>1, <1>2, <1>3

LEMMA ScriptStep ==
    ASSUME BInv, ScriptStarts \/ ScriptLists \/ ScriptStops
    PROVE  BInv'
<1>0. HandsType /\ OneHand /\ Page \in Nat
  BY ClerkBounds DEF BInv
<1>1. UNCHANGED <<state, accepted, pass, late>> /\ Orders' = Orders
  BY DEF ScriptStarts, ScriptLists, ScriptStops, shopVars, Orders
<1>2. CASE ScriptStarts \/ ScriptStops
  <2>1. /\ shared' = shared /\ script'.found \subseteq script.found
        /\ HandsType'
    BY <1>0, <1>1, <1>2 DEF ScriptStarts, ScriptStops, HandsType, NoScript
  <2>2. OneHand'
    BY <1>0, <1>1, <2>1 DEF OneHand
  <2> QED
    BY <1>1, <2>1, <2>2, HandsMove DEF InHand
<1>3. CASE ScriptLists
  <2> DEFINE page == Listing(script.offset, Page)
  <2>1. page \subseteq Orders /\ \A x \in page : state[x] = "awaiting"
    BY ListedAwaits
  <2> HIDE DEF page
  <2>2. /\ script' = IF page = {} THEN [script EXCEPT !.at = "settling"]
                     ELSE [script EXCEPT !.offset = @ + Page, !.found = @ \union page]
        /\ shared' = shared \union (page \intersect (pass \union late))
    BY <1>3 DEF ScriptLists, page
  <2>3. HandsType' /\ script'.found \subseteq script.found \union page
    <3>1. CASE page = {}
      BY <1>0, <1>1, <2>2, <3>1 DEF HandsType
    <3>2. CASE page # {}
      <4>1. script' = [at |-> script.at, offset |-> script.offset + Page,
                       found |-> script.found \union page]
        BY <1>0, <2>2, <3>2 DEF HandsType
      <4> QED
        BY <1>0, <1>1, <2>1, <4>1 DEF HandsType
    <3> QED
      BY <3>1, <3>2
  <2>4. OneHand'
    BY <1>0, <1>1, <2>2, <2>3 DEF OneHand
  <2> QED
    BY <1>1, <2>1, <2>2, <2>3, <2>4, HandsMove DEF InHand
<1> QED
  BY <1>2, <1>3

LEMMA SettleStep ==
    ASSUME BInv, NEW o \in Orders, ScriptSettles(o) \/ LateLands(o)
    PROVE  BInv'
<1>0. HandsType /\ OneHand
  BY DEF BInv
<1>1. CASE LateLands(o)
  <2>1. /\ o \in late /\ late' = late \ {o} /\ MarkPaid(o)
        /\ UNCHANGED <<pass, script, shared>> /\ Orders' = Orders
    BY <1>1, OrdersAfterPayment DEF LateLands, BInv
  <2>2. HandsType'
    BY <1>0, <2>1 DEF HandsType
  <2>3. o \in InHand /\ (o \in shared \/ o \notin InHand')
    BY <1>0, <2>1 DEF OneHand, InHand
  <2> QED
    BY <2>1, <2>2, <2>3, PaidFromHand
<1>2. CASE ScriptSettles(o)
  <2>1. /\ o \in script.found /\ script' = [script EXCEPT !.found = @ \ {o}]
        /\ UNCHANGED <<pass, shared>>
        /\ \/ /\ IF o \in Refused THEN UNCHANGED shopVars ELSE MarkPaid(o)
              /\ UNCHANGED <<late, faults>>
           \/ Cut(o)
    BY <1>2 DEF ScriptSettles
  <2>2. Orders' = Orders /\ late' \subseteq late \union {o}
    BY <2>1, OrdersAfterPayment DEF BInv, Cut, Orders, shopVars
  <2>3. HandsType' /\ script'.found = script.found \ {o}
    BY <1>0, <2>1, <2>2 DEF HandsType
  <2>4. CASE Cut(o)
    BY <2>1, <2>3, <2>4, CutFromHand
  <2>5. CASE UNCHANGED <<shopVars, late>>
    <3>1. OneHand'
      BY <1>0, <2>1, <2>2, <2>3, <2>5 DEF OneHand
    <3> QED
      BY <2>1, <2>3, <2>5, <3>1, HandsMove DEF InHand, shopVars
  <2>6. CASE MarkPaid(o) /\ UNCHANGED late
    <3>1. o \in InHand /\ (o \in shared \/ o \notin InHand')
      BY <1>0, <2>1, <2>3, <2>6 DEF OneHand, InHand
    <3> QED
      BY <2>1, <2>3, <2>6, <3>1, PaidFromHand
  <2> QED
    BY <2>1, <2>4, <2>5, <2>6
<1> QED
  BY <1>1, <1>2

(* The refill touches the shelves only.                                    *)
LEMMA RefillStep ==
    ASSUME BInv, UNCHANGED <<state, accepted, paymentVars>>
    PROVE  BInv'
BY DEF BInv, OrdersType, AwaitsUntilAccepted, HandsType, OneHand, UnpaidInHand,
       AcceptedOnce, Orders, InHand, paymentVars

LEMMA BStep == BInv /\ [Next]_vars => BInv'
<1> SUFFICES ASSUME BInv, [Next]_vars PROVE BInv'
  OBVIOUS
<1>1. CASE \E p \in Products : Buy(p)
  BY <1>1, PurchaseStep
<1>2. CASE StartPass
  BY <1>2, StartStep
<1>3. CASE \E o \in Orders : Accept(o) \/ RefusedOnce(o) \/ PassAborts(o)
  BY <1>3, PassStep
<1>4. CASE ScriptStarts \/ ScriptLists \/ ScriptStops
  BY <1>4, ScriptStep
<1>5. CASE \E o \in Orders : ScriptSettles(o) \/ LateLands(o)
  BY <1>5, SettleStep
<1>6. CASE StartRound \/ Look \/ Refill \/ RoundAborts \/ UNCHANGED vars
  <2>1. UNCHANGED <<state, accepted, paymentVars>>
    BY <1>6 DEF StartRound, Look, Refill, RoundAborts, vars, shopVars
  <2> QED
    BY <2>1, RefillStep
<1> QED
  BY <1>1, <1>2, <1>3, <1>4, <1>5, <1>6 DEF Next

(* Whatever is cut, refused, landed late or listed again, the history of   *)
(* an order holds two acceptances only if the pass, the script or the shop *)
(* itself had it in hand at the same time (payments/accept.py,             *)
(* scripts/settle_backlog.py).                                             *)
THEOREM PaidOnce == Spec => []AcceptedOnce
<1>1. BInv => AcceptedOnce
  BY DEF BInv
<1> QED
  BY BInit, BStep, <1>1, PTL DEF Spec
=============================================================================
