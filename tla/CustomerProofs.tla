---------------------------- MODULE CustomerProofs ----------------------------
(***************************************************************************)
(* What the customer of a store earns and what the store knows of them,    *)
(* for any orders, programs, campaigns, moments and bounds: a completed    *)
(* order counts exactly if a program was active, the cycles add up, a      *)
(* reward is spent once, a campaign's conversion is the use of its reward, *)
(* the snapshot says what the orders it took in say, and the page and the  *)
(* projection put a customer into the same segment.                        *)
(*                                                                         *)
(* Claims count many orders in one transaction: what one order does is     *)
(* shown first, then carried along the queue by induction on its length.   *)
(***************************************************************************)
EXTENDS CustomerLedger, DataLemmas

-----------------------------------------------------------------------------
(* The ledger.                                                             *)

(* The books of the cycles: what they are, and how they only grow.         *)
OneOpen(cycles) == \A c, d \in DOMAIN cycles :
  cycles[c].status = "ACTIVE" /\ cycles[d].status = "ACTIVE" => c = d
CountedIn(credits, c) == {o \in Purchases : credits[o] = c}

CycleAddsUp(row, counted) ==
  /\ row.progress <= row.required
  /\ row.kind = "ORDERS" => row.progress = counted
  /\ row.kind = "CAMPAIGN" => counted = 0 /\ row.status = "COMPLETED"
  /\ row.status = "COMPLETED" <=> row.progress = row.required
  /\ row.status = "COMPLETED" <=> row.reward.status # "NONE"

BooksOK(cycles, credits) ==
  /\ cycles \in Seq(Cycle) /\ credits \in [Purchases -> 0..Len(cycles)]
  /\ OneOpen(cycles)
  /\ \A c \in DOMAIN cycles : CycleAddsUp(cycles[c], Cardinality(CountedIn(credits, c)))
  /\ \A o \in Purchases : credits[o] # 0 => purchase[o].status = "DELIVERED" /\ purchase[o].due

CyclesGrow(before, after) ==
  /\ Len(before) <= Len(after)
  /\ \A c \in DOMAIN before : before[c].reward.status # "NONE" => after[c].reward = before[c].reward

(* An order that was delivered is due exactly if a version of the program  *)
(* was in force, and will be for ever.                                     *)
PurchasesOK == \A o \in Purchases :
  /\ purchase[o].reward <= Len(cycle)
  /\ purchase[o].status = "NONE" => purchase[o].reward = 0
  /\ purchase[o].status = "DELIVERED" =>
       /\ purchase[o].at <= today
       /\ purchase[o].due <=> InForceAt(purchase[o].at) # {}

ProgramsOK == \A i \in DOMAIN program : program[i].created <= today /\ program[i].updated <= today

SettledOK == \A o \in settled :
  purchase[o].status = "DELIVERED" /\ (purchase[o].due => credit[o] # 0)

(* A campaign whose reward an attributed order used: it still does.        *)
CampaignFine(row) ==
  /\ row.recipient = "CONVERTED" <=> row.used # {}
  /\ row.recipient = "RETURNED" => row.orders # {}
  /\ row.reward \in DOMAIN cycle
  /\ \A o \in row.used : /\ purchase[o].status = "DELIVERED"
                         /\ cycle[row.reward].reward.status = "REDEEMED"
                         /\ cycle[row.reward].reward.order = o

LedgerTypes ==
  /\ today \in Nat /\ settled \subseteq Purchases
  /\ program \in Seq(Program) /\ campaign \in Seq(Campaign)
  /\ purchase \in [Purchases -> Purchase]

LedgerInv ==
  /\ LedgerTypes /\ BooksOK(cycle, credit) /\ PurchasesOK /\ ProgramsOK /\ SettledOK /\ RewardSpentOnce
  /\ \A k \in DOMAIN campaign : CampaignFine(campaign[k])

(* What the bounds of the ledger are worth.                                *)
LEMMA LedgerConstants ==
  /\ MaxPurchases \in Nat /\ IsFiniteSet(Purchases) /\ Purchases \subseteq Nat \ {0}
  /\ Days \subseteq Nat /\ Required \subseteq Nat \ {0} /\ Validities \subseteq Nat /\ CampaignDays \in Nat \ {0}
<1>1. MaxPurchases \in Nat
  BY LedgerAssumption
<1>2. IsFiniteSet(Purchases) /\ Purchases \subseteq Nat \ {0}
  BY <1>1, FS_Interval DEF Purchases
<1>3. QED
  BY <1>1, <1>2, LedgerAssumption

(* Orders that count in a cycle are finitely many.                         *)
LEMMA CountedFinite ==
  ASSUME NEW credits, NEW c
  PROVE  IsFiniteSet(CountedIn(credits, c)) /\ Cardinality(CountedIn(credits, c)) \in Nat
<1>1. CountedIn(credits, c) \subseteq Purchases
  BY DEF CountedIn
<1>2. QED
  BY <1>1, LedgerConstants, FS_Subset, FS_CardinalityType

(* One order more counts in the open cycle, which it may fill.             *)
LEMMA CountedBooks ==
  ASSUME NEW cycles, NEW credits, BooksOK(cycles, credits),
         NEW c \in DOMAIN cycles, cycles[c].status = "ACTIVE",
         NEW o \in Purchases, credits[o] = 0, purchase[o].status = "DELIVERED", purchase[o].due,
         NEW row \in Cycle, row.kind = cycles[c].kind, row.required = cycles[c].required,
         row.progress = cycles[c].progress + 1,
         row.status = "COMPLETED" <=> row.progress = row.required,
         row.status = "COMPLETED" <=> row.reward.status # "NONE"
  PROVE  /\ BooksOK([cycles EXCEPT ![c] = row], [credits EXCEPT ![o] = c])
         /\ CyclesGrow(cycles, [cycles EXCEPT ![c] = row])
<1> DEFINE after == [cycles EXCEPT ![c] = row]
           paid == [credits EXCEPT ![o] = c]
<1>1. /\ cycles \in Seq(Cycle) /\ credits \in [Purchases -> 0..Len(cycles)]
      /\ DOMAIN cycles = 1..Len(cycles) /\ Len(cycles) \in Nat
  BY LenProperties DEF BooksOK
<1>2. /\ after \in Seq(Cycle) /\ Len(after) = Len(cycles) /\ DOMAIN after = DOMAIN cycles
      /\ after[c] = row /\ \A d \in DOMAIN cycles : d # c => after[d] = cycles[d]
  <2>1. /\ DOMAIN after = DOMAIN cycles /\ after = [i \in DOMAIN after |-> after[i]]
        /\ after[c] = row /\ \A d \in DOMAIN cycles : d # c => after[d] = cycles[d]
    BY Zenon
  <2>2. \A i \in DOMAIN cycles : cycles[i] \in Cycle
    BY <1>1, ElementOfSeq
  <2> HIDE DEF after
  <2>3. \A i \in DOMAIN cycles : after[i] \in Cycle
    BY <2>1, <2>2
  <2>4. QED
    BY <1>1, <2>1, <2>3, RewrittenRows
<1>3. /\ paid \in [Purchases -> 0..Len(cycles)] /\ paid[o] = c
      /\ \A p \in Purchases : p # o => paid[p] = credits[p]
  BY <1>1
<1> HIDE DEF after, paid
<1>4. CycleAddsUp(cycles[c], Cardinality(CountedIn(credits, c))) /\ cycles[c] \in Cycle
  BY <1>1 DEF BooksOK
<1>5. CountedIn(paid, c) = CountedIn(credits, c) \cup {o} /\ o \notin CountedIn(credits, c)
  BY <1>1, <1>3 DEF CountedIn
<1>6. Cardinality(CountedIn(paid, c)) = Cardinality(CountedIn(credits, c)) + 1
  BY <1>5, CountedFinite, FS_AddElement
<1>7. CycleAddsUp(row, Cardinality(CountedIn(paid, c)))
  <2>1. cycles[c].kind = "ORDERS"
    BY <1>4 DEF CycleAddsUp, Cycle
  <2>2. cycles[c].progress < cycles[c].required /\ cycles[c].progress \in Nat /\ cycles[c].required \in Nat
    BY <1>4 DEF CycleAddsUp, Cycle
  <2>3. row.progress = Cardinality(CountedIn(paid, c)) /\ row.progress <= row.required
    BY <1>4, <1>6, <2>1, <2>2 DEF CycleAddsUp
  <2>4. QED
    BY <2>1, <2>3 DEF CycleAddsUp
<1>8. ASSUME NEW d \in DOMAIN after PROVE CycleAddsUp(after[d], Cardinality(CountedIn(paid, d)))
  <2>1. CASE d = c
    BY <1>2, <1>7, <2>1
  <2>2. CASE d # c
    <3>1. CountedIn(paid, d) = CountedIn(credits, d)
      <4>1. d # 0
        BY <1>1, <1>2
      <4>2. QED
        BY <1>3, <2>2, <4>1 DEF CountedIn
    <3>2. QED
      BY <1>2, <2>2, <3>1 DEF BooksOK
  <2>3. QED
    BY <2>1, <2>2
<1>9. OneOpen(after)
  BY <1>2 DEF BooksOK, OneOpen
<1>10. \A p \in Purchases : paid[p] # 0 => purchase[p].status = "DELIVERED" /\ purchase[p].due
  BY <1>3 DEF BooksOK
<1>11. CyclesGrow(cycles, after)
  <2>1. cycles[c].reward.status = "NONE"
    BY <1>4 DEF CycleAddsUp
  <2>2. QED
    BY <1>1, <1>2, <2>1 DEF CyclesGrow
<1>12. BooksOK(after, paid)
  BY <1>2, <1>3, <1>8, <1>9, <1>10 DEF BooksOK
<1>13. QED
  BY <1>11, <1>12 DEF after, paid

(* A cycle more, in which nothing counts yet.                              *)
LEMMA AddedCycle ==
  ASSUME NEW cycles, NEW credits, BooksOK(cycles, credits), NEW row \in Cycle, CycleAddsUp(row, 0),
         row.status = "ACTIVE" => \A c \in DOMAIN cycles : cycles[c].status # "ACTIVE"
  PROVE  /\ BooksOK(Append(cycles, row), credits) /\ CyclesGrow(cycles, Append(cycles, row))
         /\ Len(Append(cycles, row)) = Len(cycles) + 1 /\ Len(cycles) \in Nat
         /\ Append(cycles, row)[Len(cycles) + 1] = row
         /\ DOMAIN Append(cycles, row) = 1..Len(cycles) + 1
         /\ \A c \in DOMAIN cycles : c \in DOMAIN Append(cycles, row) /\ Append(cycles, row)[c] = cycles[c]
<1> DEFINE after == Append(cycles, row)
           n == Len(cycles) + 1
<1>1. cycles \in Seq(Cycle) /\ credits \in [Purchases -> 0..Len(cycles)]
  BY DEF BooksOK
<1>2. /\ after \in Seq(Cycle) /\ Len(after) = n /\ Len(cycles) \in Nat
      /\ DOMAIN cycles = 1..Len(cycles) /\ DOMAIN after = 1..n
      /\ \A i \in 1..Len(cycles) : after[i] = cycles[i]
      /\ after[n] = row
  BY <1>1, AppendRow
<1>3. n \notin DOMAIN cycles /\ DOMAIN after = DOMAIN cycles \cup {n} /\ n \in Nat
      /\ credits \in [Purchases -> 0..n]
  BY <1>1, <1>2
<1> HIDE DEF after
<1>4. CountedIn(credits, n) = {}
  BY <1>1, <1>2 DEF CountedIn
<1>5. ASSUME NEW c \in DOMAIN after PROVE CycleAddsUp(after[c], Cardinality(CountedIn(credits, c)))
  <2>1. CASE c = n
    <3>1. Cardinality(CountedIn(credits, c)) = 0
      BY <1>4, <2>1, FS_EmptySet
    <3>2. after[c] = row
      BY <1>2, <2>1
    <3>3. QED
      BY <3>1, <3>2
  <2>2. CASE c # n
    BY <1>2, <1>3, <2>2 DEF BooksOK
  <2>3. QED
    BY <2>1, <2>2
<1> HIDE DEF n
<1>6. OneOpen(after)
  BY <1>2, <1>3 DEF BooksOK, OneOpen
<1>7. CyclesGrow(cycles, after)
  BY <1>2, <1>3 DEF CyclesGrow, n
<1>8. BooksOK(after, credits)
  BY <1>2, <1>3, <1>5, <1>6 DEF BooksOK
<1>9. QED
  BY <1>2, <1>3, <1>7, <1>8 DEF after, n

(* What counting an order leaves: the books are right, nothing that was    *)
(* earned is touched, and the order counts if it is due.                   *)
CountedRight(l, m, o) ==
  /\ BooksOK(m.cycle, m.credit) /\ CyclesGrow(l.cycle, m.cycle)
  /\ \A p \in Purchases \ {o} : m.credit[p] = l.credit[p]
  /\ l.credit[o] # 0 => m.credit[o] = l.credit[o]
  /\ purchase[o].due => m.credit[o] # 0

(* The version in force last published is one of the program's.            *)
LEMMA TermsInForce ==
  ASSUME LedgerTypes, NEW S \in SUBSET DOMAIN program, S # {}
  PROVE  program[Max(S)] \in Program
<1>1. program \in Seq(Program) /\ DOMAIN program = 1..Len(program) /\ Len(program) \in Nat
  BY LenProperties DEF LedgerTypes
<1>2. S \in SUBSET (0..Len(program))
  BY <1>1
<1>3. \E x \in S : \A y \in S : x >= y
  BY <1>1, <1>2, Largest
<1>4. Max(S) \in S
  BY <1>3 DEF Max
<1>5. QED
  BY <1>1, <1>4, ElementOfSeq

(* An order that is counted for the first time, in the open cycle or in a  *)
(* new one.                                                                *)
LEMMA CountDoes ==
  ASSUME LedgerTypes, PurchasesOK, NEW l, BooksOK(l.cycle, l.credit), NEW o \in Purchases, l.credit[o] = 0,
         purchase[o].status = "DELIVERED"
  PROVE  CountedRight(l, Count(l, o), o)
<1> DEFINE inForce == InForceAt(purchase[o].at)
           terms   == program[Max(inForce)]
           active  == {c \in DOMAIN l.cycle : l.cycle[c].status = "ACTIVE"}
           blank   == [kind |-> "ORDERS", required |-> terms.required, progress |-> 0,
                       validity |-> terms.validity, status |-> "ACTIVE", reward |-> NoReward]
           opened  == IF active # {} THEN l.cycle ELSE Append(l.cycle, blank)
           c       == CHOOSE i \in DOMAIN opened : opened[i].status = "ACTIVE"
           full    == opened[c].progress + 1 >= opened[c].required
           paid    == [status |-> "AVAILABLE", order |-> 0,
                       expires |-> IF opened[c].validity = 0 THEN 0 ELSE today + opened[c].validity]
           closing == [[[opened[c] EXCEPT !.progress = opened[c].required] EXCEPT !.status = "COMPLETED"]
                         EXCEPT !.reward = paid]
           running == [opened[c] EXCEPT !.progress = @ + 1]
           counted == IF full THEN closing ELSE running
           done    == [cycle |-> [opened EXCEPT ![c] = counted], credit |-> [l.credit EXCEPT ![o] = c]]
<1>1. Count(l, o) = IF inForce = {} THEN l ELSE done
  BY Zenon DEF Count
<1>2. purchase[o].due <=> inForce # {}
  BY DEF PurchasesOK
<1>3. CASE inForce = {}
  <2>1. Count(l, o) = l
    BY <1>1, <1>3
  <2>2. CyclesGrow(l.cycle, l.cycle)
    <3>1. l.cycle \in Seq(Cycle) /\ Len(l.cycle) \in Nat
      BY LenProperties DEF BooksOK
    <3>2. QED
      BY <3>1 DEF CyclesGrow
  <2>3. QED
    BY <1>2, <1>3, <2>1, <2>2 DEF CountedRight
<1>4. CASE inForce # {}
  <2>1. terms \in Program
    BY <1>4, TermsInForce DEF InForceAt
  <2> HIDE DEF inForce, terms
  <2>2. blank \in Cycle /\ CycleAddsUp(blank, 0) /\ blank.status = "ACTIVE"
    <3>1. /\ terms.required \in Nat \ {0} /\ terms.validity \in Nat
          /\ NoReward \in [status : {"NONE", "AVAILABLE", "REDEEMED", "EXPIRED"}, expires : Nat,
                           order : Purchases \cup {0}]
          /\ NoReward.status = "NONE"
      BY <2>1, LedgerConstants DEF Program, NoReward
    <3> HIDE DEF terms
    <3>2. QED
      BY <3>1 DEF Cycle, CycleAddsUp
  <2> HIDE DEF blank
  <2>3. /\ BooksOK(opened, l.credit) /\ CyclesGrow(l.cycle, opened)
        /\ \E i \in DOMAIN opened : opened[i].status = "ACTIVE"
    <3>1. CASE active # {}
      <4>1. l.cycle \in Seq(Cycle) /\ Len(l.cycle) \in Nat
        BY LenProperties DEF BooksOK
      <4>2. opened = l.cycle
        BY <3>1
      <4>3. QED
        BY <3>1, <4>1, <4>2 DEF CyclesGrow
    <3>2. CASE active = {}
      <4>1. opened = Append(l.cycle, blank)
        BY <3>2
      <4>2. \A d \in DOMAIN l.cycle : l.cycle[d].status # "ACTIVE"
        BY <3>2
      <4>3. /\ BooksOK(opened, l.credit) /\ CyclesGrow(l.cycle, opened) /\ Len(l.cycle) \in Nat
            /\ opened[Len(l.cycle) + 1] = blank /\ DOMAIN opened = 1..Len(l.cycle) + 1
        <5> HIDE DEF opened
        <5>1. QED
          BY <2>2, <4>1, <4>2, AddedCycle
      <4>4. Len(l.cycle) + 1 \in DOMAIN opened /\ opened[Len(l.cycle) + 1].status = "ACTIVE"
        BY <2>2, <4>3
      <4> HIDE DEF opened
      <4>5. QED
        BY <4>3, <4>4
    <3>3. QED
      BY <3>1, <3>2
  <2> HIDE DEF active, opened
  <2>4. c \in DOMAIN opened /\ opened[c].status = "ACTIVE"
    BY <2>3
  <2> HIDE DEF c
  <2>5. opened[c] \in Cycle /\ CycleAddsUp(opened[c], Cardinality(CountedIn(l.credit, c)))
    <3>1. opened \in Seq(Cycle)
      BY <2>3 DEF BooksOK
    <3>2. QED
      BY <2>3, <2>4, <3>1, ElementOfSeq DEF BooksOK
  <2>6. opened[c].progress \in Nat /\ opened[c].required \in Nat /\ opened[c].progress < opened[c].required
        /\ opened[c].validity \in Nat
    BY <2>4, <2>5 DEF Cycle, CycleAddsUp
  <2>7. /\ counted \in Cycle /\ counted.kind = opened[c].kind /\ counted.required = opened[c].required
        /\ counted.progress = opened[c].progress + 1
        /\ counted.status = "COMPLETED" <=> counted.progress = counted.required
        /\ counted.status = "COMPLETED" <=> counted.reward.status # "NONE"
    <3>1. CASE full
      <4>1. paid \in [status : {"NONE", "AVAILABLE", "REDEEMED", "EXPIRED"}, expires : Nat,
                      order : Purchases \cup {0}]
            /\ paid.status = "AVAILABLE"
        BY <2>6 DEF LedgerTypes
      <4> HIDE DEF paid
      <4>2. opened[c].required = opened[c].progress + 1
        BY <2>6, <3>1
      <4> DEFINE one == [opened[c] EXCEPT !.progress = opened[c].required]
                 two == [one EXCEPT !.status = "COMPLETED"]
                 three == [two EXCEPT !.reward = paid]
      <4>3. /\ one \in Cycle /\ one.kind = opened[c].kind /\ one.required = opened[c].required
            /\ one.progress = opened[c].required
        BY <2>5 DEF Cycle
      <4> HIDE DEF one
      <4>4. /\ two \in Cycle /\ two.kind = opened[c].kind /\ two.required = opened[c].required
            /\ two.progress = opened[c].required /\ two.status = "COMPLETED"
        BY <4>3 DEF Cycle
      <4> HIDE DEF two
      <4>5. /\ three \in Cycle /\ three.kind = opened[c].kind /\ three.required = opened[c].required
            /\ three.progress = opened[c].required /\ three.status = "COMPLETED" /\ three.reward = paid
        BY <4>1, <4>4 DEF Cycle
      <4>6. counted = three
        BY <3>1, Zenon DEF one, two
      <4> HIDE DEF three, counted
      <4>7. QED
        BY <4>1, <4>2, <4>5, <4>6
    <3>2. CASE ~full
      <4>1. counted = running
        BY <3>2
      <4>2. /\ running \in Cycle /\ running.kind = opened[c].kind /\ running.required = opened[c].required
            /\ running.progress = opened[c].progress + 1 /\ running.status = opened[c].status
            /\ running.reward = opened[c].reward
        BY <2>5 DEF Cycle
      <4> HIDE DEF counted, running
      <4>3. opened[c].progress + 1 # opened[c].required
        BY <2>6, <3>2
      <4>4. QED
        BY <2>4, <2>5, <4>1, <4>2, <4>3 DEF CycleAddsUp
    <3>3. QED
      BY <3>1, <3>2
  <2> HIDE DEF counted
  <2>8. /\ BooksOK([opened EXCEPT ![c] = counted], [l.credit EXCEPT ![o] = c])
        /\ CyclesGrow(opened, [opened EXCEPT ![c] = counted])
    BY <1>2, <1>4, <2>3, <2>4, <2>7, CountedBooks
  <2>9. Count(l, o) = done /\ done.cycle = [opened EXCEPT ![c] = counted] /\ done.credit = [l.credit EXCEPT ![o] = c]
    BY <1>1, <1>4 
  <2>10. /\ l.credit \in [Purchases -> 0..Len(l.cycle)] /\ l.cycle \in Seq(Cycle) /\ opened \in Seq(Cycle)
         /\ Len(l.cycle) \in Nat /\ Len(opened) \in Nat /\ DOMAIN opened = 1..Len(opened)
         /\ DOMAIN l.cycle = 1..Len(l.cycle)
    BY <2>3, LenProperties DEF BooksOK
  <2>11. done.credit[o] = c /\ c # 0 /\ \A p \in Purchases \ {o} : done.credit[p] = l.credit[p]
    BY <2>4, <2>9, <2>10
  <2>12. CyclesGrow(l.cycle, done.cycle)
    <3> DEFINE last == [opened EXCEPT ![c] = counted]
    <3>1. Len(last) \in Nat
      <4>1. last \in Seq(Cycle)
        BY <2>8 DEF BooksOK
      <4>2. QED
        BY <4>1, LenProperties
    <3>2. CyclesGrow(l.cycle, opened) /\ CyclesGrow(opened, last) /\ done.cycle = last
      BY <2>3, <2>8, <2>9
    <3> HIDE DEF last
    <3>3. QED
      BY <2>10, <3>1, <3>2 DEF CyclesGrow
  <2> HIDE DEF done
  <2>13. QED
    BY <2>8, <2>9, <2>11, <2>12 DEF CountedRight
<1>5. QED
  BY <1>3, <1>4

(* Crediting an order, counted before or not.                              *)
LEMMA CreditDoes ==
  ASSUME LedgerTypes, PurchasesOK, NEW l, BooksOK(l.cycle, l.credit), NEW o \in Purchases,
         purchase[o].status = "DELIVERED"
  PROVE  CountedRight(l, CreditOrder(l, o), o)
<1>1. CASE l.credit[o] = 0
  <2>1. CreditOrder(l, o) = Count(l, o)
    BY <1>1 DEF CreditOrder
  <2>2. QED
    BY <1>1, <2>1, CountDoes
<1>2. CASE l.credit[o] # 0
  <2>1. CreditOrder(l, o) = l
    BY <1>2 DEF CreditOrder
  <2>2. CyclesGrow(l.cycle, l.cycle)
    <3>1. l.cycle \in Seq(Cycle) /\ Len(l.cycle) \in Nat
      BY LenProperties DEF BooksOK
    <3>2. QED
      BY <3>1 DEF CyclesGrow
  <2>3. QED
    BY <1>2, <2>1, <2>2 DEF CountedRight
<1>3. QED
  BY <1>1, <1>2

(* Orders are credited one after the other.                                *)
LEMMA CreditedAlong ==
  ASSUME NEW queue \in Seq(Purchases)
  PROVE  /\ Credited(queue)[0] = Ledger
         /\ \A i \in 1..Len(queue) : Credited(queue)[i] = CreditOrder(Credited(queue)[i - 1], queue[i])
<1> DEFINE n == Len(queue)
           Follows(f, k) == f = [i \in 0..k |-> IF i = 0 THEN Ledger ELSE CreditOrder(f[i - 1], queue[i])]
           T == {k \in 0..n : \E f : Follows(f, k)}
<1>1. n \in Nat
  BY LenProperties
<1>2. 0 \in T
  <2> DEFINE f == [i \in 0..0 |-> Ledger]
  <2>1. Follows(f, 0)
    OBVIOUS
  <2> HIDE DEF Follows, f
  <2>2. QED
    BY <1>1, <2>1
<1>3. ASSUME NEW k \in 0..n, k < n, k \in T PROVE k + 1 \in T
  <2>1. PICK f : Follows(f, k)
    BY <1>3
  <2> DEFINE g == [i \in 0..k + 1 |-> IF i = k + 1 THEN CreditOrder(f[k], queue[i]) ELSE f[i]]
  <2>2. \A i \in 0..k : g[i] = f[i] /\ f[i] = IF i = 0 THEN Ledger ELSE CreditOrder(f[i - 1], queue[i])
    <3>1. ASSUME NEW i \in 0..k PROVE i # k + 1 /\ i \in 0..k + 1
      BY <1>1
    <3>2. \A i \in 0..k : f[i] = IF i = 0 THEN Ledger ELSE CreditOrder(f[i - 1], queue[i])
      BY <2>1
    <3>3. QED
      BY <3>1, <3>2
  <2>3. g[k + 1] = CreditOrder(f[k], queue[k + 1]) /\ k + 1 \in 0..k + 1
    BY <1>1
  <2>4. ASSUME NEW i \in 0..k + 1
        PROVE  g[i] = IF i = 0 THEN Ledger ELSE CreditOrder(g[i - 1], queue[i])
    <3>1. CASE i = k + 1
      <4>1. i # 0 /\ i - 1 = k /\ k \in 0..k
        BY <1>1, <3>1
      <4>2. g[i - 1] = f[k]
        BY <2>2, <4>1
      <4> HIDE DEF g
      <4>3. QED
        BY <2>3, <3>1, <4>1, <4>2
    <3>2. CASE i = 0
      <4>1. i \in 0..k
        BY <1>1, <3>2
      <4> HIDE DEF g
      <4>2. QED
        BY <2>2, <3>2, <4>1
    <3>3. CASE i # k + 1 /\ i # 0
      <4>1. i \in 0..k /\ i - 1 \in 0..k
        BY <1>1, <3>3
      <4> HIDE DEF g
      <4>2. QED
        BY <2>2, <3>3, <4>1
    <3>4. QED
      BY <3>1, <3>2, <3>3
  <2>5. Follows(g, k + 1)
    <3>1. g = [i \in 0..k + 1 |-> g[i]]
      OBVIOUS
    <3> HIDE DEF g
    <3>2. QED
      BY <2>4, <3>1
  <2>6. k + 1 \in 0..n
    BY <1>1, <1>3
  <2> HIDE DEF Follows
  <2>7. QED
    BY <2>5, <2>6
<1>4. n \in T
  <2> HIDE DEF T
  <2>1. 0..n \subseteq T
    BY <1>1, <1>2, <1>3, UpTo
  <2>2. QED
    BY <1>1, <2>1
<1>5. Credited(queue) = CHOOSE f : Follows(f, n)
  BY DEF Credited
<1>6. Follows(Credited(queue), n)
  <2> HIDE DEF Follows
  <2>1. QED
    BY <1>4, <1>5
<1>7. \A i \in 0..n : Credited(queue)[i] = IF i = 0 THEN Ledger ELSE CreditOrder(Credited(queue)[i - 1], queue[i])
  BY <1>6
<1>8. QED
  BY <1>1, <1>7

(* An enumeration without repetition leaves nothing out.                   *)
LEMMA Enumerates ==
  ASSUME NEW S, IsFiniteSet(S), NEW queue \in SetToSeqs(S)
  PROVE  queue \in Seq(S) /\ \A x \in S : \E i \in 1..Len(queue) : queue[i] = x
<1> DEFINE n == Cardinality(S)
<1>1. n \in Nat /\ IsFiniteSet(1..n) /\ Cardinality(1..n) = n
  <2>1. n \in Nat
    BY FS_CardinalityType
  <2>2. IsFiniteSet(1..n) /\ Cardinality(1..n) = IF 1 > n THEN 0 ELSE n - 1 + 1
    BY <2>1, FS_Interval
  <2>3. QED
    BY <2>1, <2>2
<1>2. queue \in [1..n -> S] /\ \A i, j \in 1..n : i # j => queue[i] # queue[j]
  BY DEF SetToSeqs
<1>3. queue \in Injection(1..n, S)
  BY <1>2 DEF Injection, IsInjective
<1> HIDE DEF n
<1>4. queue \in Surjection(1..n, S)
  BY <1>1, <1>3, FS_Injection DEF n
<1>5. queue \in Seq(S) /\ Len(queue) = n
  <2>1. queue \in Seq(S)
    BY <1>1, <1>2, SeqDef
  <2>2. DOMAIN queue = 1..Len(queue) /\ Len(queue) \in Nat
    BY <2>1, LenProperties
  <2>3. QED
    BY <1>1, <1>2, <2>1, <2>2
<1>6. QED
  BY <1>4, <1>5 DEF Surjection

(* What was earned stays after any number of orders, and those that are    *)
(* due and had their turn count.                                           *)
LEMMA ClaimedRight ==
  ASSUME LedgerInv, NEW queue \in Seq(Purchases),
         \A j \in 1..Len(queue) : purchase[queue[j]].status = "DELIVERED"
  PROVE  LET m == Credited(queue)[Len(queue)]
         IN  /\ BooksOK(m.cycle, m.credit) /\ CyclesGrow(cycle, m.cycle)
             /\ \A p \in Purchases : credit[p] # 0 => m.credit[p] = credit[p]
             /\ \A j \in 1..Len(queue) : purchase[queue[j]].due => m.credit[queue[j]] # 0
<1> DEFINE n == Len(queue)
           at(i) == Credited(queue)[i]
           Right(i) == /\ BooksOK(at(i).cycle, at(i).credit) /\ CyclesGrow(cycle, at(i).cycle)
                       /\ \A p \in Purchases : credit[p] # 0 => at(i).credit[p] = credit[p]
                       /\ \A j \in 1..i : purchase[queue[j]].due => at(i).credit[queue[j]] # 0
           T == {i \in 0..n : Right(i)}
<1>1. n \in Nat /\ \A j \in 1..n : queue[j] \in Purchases
  BY LenProperties, ElementOfSeq
<1>2. 0 \in T
  <2>1. at(0) = Ledger
    BY CreditedAlong
  <2>2. cycle \in Seq(Cycle) /\ Len(cycle) \in Nat
    BY LenProperties DEF LedgerInv, BooksOK
  <2>3. CyclesGrow(cycle, cycle)
    BY <2>2 DEF CyclesGrow
  <2>4. Ledger.cycle = cycle /\ Ledger.credit = credit
    BY DEF Ledger
  <2> HIDE DEF at
  <2>5. Right(0)
    BY <2>1, <2>3, <2>4 DEF LedgerInv
  <2>6. QED
    BY <1>1, <2>5
<1>3. ASSUME NEW i \in 0..n, i < n, i \in T PROVE i + 1 \in T
  <2> DEFINE l == at(i)
             o == queue[i + 1]
             m == at(i + 1)
  <2>1. i + 1 \in 1..n /\ i + 1 \in 0..n /\ (i + 1) - 1 = i /\ i \in Nat
    BY <1>1, <1>3
  <2>2. m = CreditOrder(l, o) /\ o \in Purchases /\ purchase[o].status = "DELIVERED"
    BY <1>1, <2>1, CreditedAlong
  <2>3. Right(i)
    BY <1>3
  <2>4. BooksOK(l.cycle, l.credit) /\ CyclesGrow(cycle, l.cycle)
    BY <2>3
  <2> HIDE DEF at, o
  <2>5. CountedRight(l, m, o)
    <3> HIDE DEF m
    <3>1. QED
      BY <2>2, <2>4, CreditDoes DEF LedgerInv
  <2>6. CyclesGrow(cycle, m.cycle) /\ BooksOK(m.cycle, m.credit)
    <3>1. Len(l.cycle) \in Nat /\ Len(m.cycle) \in Nat /\ Len(cycle) \in Nat /\ l.cycle \in Seq(Cycle)
          /\ DOMAIN cycle = 1..Len(cycle) /\ DOMAIN l.cycle = 1..Len(l.cycle)
      BY <2>4, <2>5, LenProperties DEF LedgerInv, BooksOK, CountedRight
    <3>2. QED
      BY <2>4, <2>5, <3>1 DEF CountedRight, CyclesGrow
  <2>7. \A p \in Purchases : l.credit[p] # 0 => m.credit[p] = l.credit[p]
    BY <2>5 DEF CountedRight
  <2>8. \A p \in Purchases : credit[p] # 0 => m.credit[p] = credit[p]
    BY <2>3, <2>7
  <2>9. ASSUME NEW j \in 1..i + 1, purchase[queue[j]].due PROVE m.credit[queue[j]] # 0
    <3>1. CASE j = i + 1
      BY <2>5, <2>9, <3>1 DEF CountedRight, o
    <3>2. CASE j # i + 1
      <4>1. j \in 1..i /\ queue[j] \in Purchases
        BY <1>1, <1>3, <2>1, <3>2
      <4>2. l.credit[queue[j]] # 0
        BY <2>3, <2>9, <4>1
      <4>3. QED
        BY <2>7, <4>1, <4>2
    <3>3. QED
      BY <3>1, <3>2
  <2>10. Right(i + 1)
    BY <2>6, <2>8, <2>9
  <2> HIDE DEF Right
  <2>11. QED
    BY <2>1, <2>10
<1>4. n \in T
  <2> HIDE DEF T
  <2>1. 0..n \subseteq T
    BY <1>1, <1>2, <1>3, UpTo
  <2>2. QED
    BY <1>1, <2>1
<1>5. QED
  BY <1>4

(* Campaigns whose rewards were used by whom they say.                     *)
CampaignTable(rows) == rows \in Seq(Campaign) /\ \A k \in DOMAIN rows : CampaignFine(rows[k])

(* An order is attributed to a campaign: its use of the reward is the      *)
(* reward's use by this order.                                             *)
LEMMA AttributionIsFine ==
  ASSUME LedgerTypes, NEW row \in Campaign, CampaignFine(row), NEW o \in Purchases,
         purchase[o].status = "DELIVERED"
  PROVE  Attributed(row, o) \in Campaign /\ CampaignFine(Attributed(row, o))
<1> DEFINE used == cycle[row.reward].reward.status = "REDEEMED" /\ cycle[row.reward].reward.order = o
           users == IF used THEN row.used \cup {o} ELSE row.used
           role == IF used \/ row.recipient = "CONVERTED" THEN "CONVERTED" ELSE "RETURNED"
           one == [row EXCEPT !.orders = @ \cup {o}]
           two == [one EXCEPT !.used = IF used THEN @ \cup {o} ELSE @]
           three == [two EXCEPT !.recipient = IF used \/ @ = "CONVERTED" THEN "CONVERTED" ELSE "RETURNED"]
<1>1. Attributed(row, o) = three \/ Attributed(row, o) = row
  BY Zenon DEF Attributed
<1>2. used \in BOOLEAN
  OBVIOUS
<1>3. \A p \in users : /\ purchase[p].status = "DELIVERED"
                       /\ cycle[row.reward].reward.status = "REDEEMED"
                       /\ cycle[row.reward].reward.order = p
  BY DEF CampaignFine
<1>4. users \subseteq Purchases /\ (used => o \in users) /\ (~used => users = row.used)
  BY DEF Campaign
<1>5. role \in {"RETURNED", "CONVERTED"} /\ (role = "CONVERTED" <=> users # {})
  BY DEF CampaignFine
<1>6. /\ one \in Campaign /\ one.orders = row.orders \cup {o} /\ one.used = row.used
      /\ one.recipient = row.recipient /\ one.reward = row.reward
  BY DEF Campaign
<1>7. two = [one EXCEPT !.used = users]
  <2>1. two = [one EXCEPT !.used = IF used THEN one.used \cup {o} ELSE one.used]
    OBVIOUS
  <2> HIDE DEF one, used
  <2>2. QED
    BY <1>6, <2>1
<1> HIDE DEF one
<1>8. /\ two \in Campaign /\ two.orders = row.orders \cup {o} /\ two.used = users
      /\ two.recipient = row.recipient /\ two.reward = row.reward
  <2> HIDE DEF two, users
  <2>1. QED
    BY <1>4, <1>6, <1>7 DEF Campaign
<1>9. three = [two EXCEPT !.recipient = role]
  <2>1. three = [two EXCEPT !.recipient = IF used \/ two.recipient = "CONVERTED" THEN "CONVERTED" ELSE "RETURNED"]
    OBVIOUS
  <2> HIDE DEF two, used
  <2>2. QED
    BY <1>8, <2>1
<1> HIDE DEF two
<1>10. /\ three \in Campaign /\ three.orders = row.orders \cup {o} /\ three.used = users
       /\ three.recipient = role /\ three.reward = row.reward
  <2> HIDE DEF three, users, role
  <2>1. QED
    BY <1>5, <1>8, <1>9 DEF Campaign
<1>11. CampaignFine(three)
  <2> HIDE DEF three, users, role, used
  <2>1. three.orders # {}
    BY <1>10
  <2>2. three.reward \in DOMAIN cycle
    BY <1>10 DEF CampaignFine
  <2>3. QED
    BY <1>3, <1>5, <1>10, <2>1, <2>2 DEF CampaignFine
<1> HIDE DEF three
<1>12. QED
  BY <1>1, <1>10, <1>11

(* What the relationship takes of an order leaves the campaigns right.     *)
LEMMA RelationIsFine ==
  ASSUME LedgerTypes, NEW rel, CampaignTable(rel.campaign), NEW o \in Purchases
  PROVE  CampaignTable(Relate(rel, o).campaign)
<1> DEFINE rows == [k \in DOMAIN rel.campaign |-> Attributed(rel.campaign[k], o)]
<1>1. \/ Relate(rel, o) = rel
      \/ purchase[o].status = "DELIVERED" /\ Relate(rel, o).campaign = rows
  BY DEF Relate
<1>2. ASSUME purchase[o].status = "DELIVERED" PROVE CampaignTable(rows)
  <2>1. rel.campaign \in Seq(Campaign) /\ \A k \in DOMAIN rel.campaign : rel.campaign[k] \in Campaign
    BY ElementOfSeq DEF CampaignTable
  <2>2. \A k \in DOMAIN rows : rows[k] \in Campaign /\ CampaignFine(rows[k])
    BY <1>2, <2>1, AttributionIsFine DEF CampaignTable
  <2>3. DOMAIN rows = DOMAIN rel.campaign /\ rows = [k \in DOMAIN rows |-> rows[k]]
    OBVIOUS
  <2> HIDE DEF rows
  <2>4. rows \in Seq(Campaign)
    BY <2>1, <2>2, <2>3, RewrittenRows
  <2>5. QED
    BY <2>2, <2>4 DEF CampaignTable
<1> HIDE DEF rows
<1>3. QED
  BY <1>1, <1>2

(* Orders are related one after the other.                                 *)
LEMMA RelatedAlong ==
  ASSUME NEW queue \in Seq(Purchases)
  PROVE  /\ Related(queue)[0] = Relationship
         /\ \A i \in 1..Len(queue) : Related(queue)[i] = Relate(Related(queue)[i - 1], queue[i])
<1> DEFINE n == Len(queue)
           Follows(f, k) == f = [i \in 0..k |-> IF i = 0 THEN Relationship ELSE Relate(f[i - 1], queue[i])]
           T == {k \in 0..n : \E f : Follows(f, k)}
<1>1. n \in Nat
  BY LenProperties
<1>2. 0 \in T
  <2> DEFINE f == [i \in 0..0 |-> Relationship]
  <2>1. Follows(f, 0)
    OBVIOUS
  <2> HIDE DEF Follows, f
  <2>2. QED
    BY <1>1, <2>1
<1>3. ASSUME NEW k \in 0..n, k < n, k \in T PROVE k + 1 \in T
  <2>1. PICK f : Follows(f, k)
    BY <1>3
  <2> DEFINE g == [i \in 0..k + 1 |-> IF i = k + 1 THEN Relate(f[k], queue[i]) ELSE f[i]]
  <2>2. \A i \in 0..k : g[i] = f[i] /\ f[i] = IF i = 0 THEN Relationship ELSE Relate(f[i - 1], queue[i])
    <3>1. ASSUME NEW i \in 0..k PROVE i # k + 1 /\ i \in 0..k + 1
      BY <1>1
    <3>2. \A i \in 0..k : f[i] = IF i = 0 THEN Relationship ELSE Relate(f[i - 1], queue[i])
      BY <2>1
    <3>3. QED
      BY <3>1, <3>2
  <2>3. g[k + 1] = Relate(f[k], queue[k + 1]) /\ k + 1 \in 0..k + 1
    BY <1>1
  <2>4. ASSUME NEW i \in 0..k + 1
        PROVE  g[i] = IF i = 0 THEN Relationship ELSE Relate(g[i - 1], queue[i])
    <3>1. CASE i = k + 1
      <4>1. i # 0 /\ i - 1 = k /\ k \in 0..k
        BY <1>1, <3>1
      <4>2. g[i - 1] = f[k]
        BY <2>2, <4>1
      <4> HIDE DEF g
      <4>3. QED
        BY <2>3, <3>1, <4>1, <4>2
    <3>2. CASE i = 0
      <4>1. i \in 0..k
        BY <1>1, <3>2
      <4> HIDE DEF g
      <4>2. QED
        BY <2>2, <3>2, <4>1
    <3>3. CASE i # k + 1 /\ i # 0
      <4>1. i \in 0..k /\ i - 1 \in 0..k
        BY <1>1, <3>3
      <4> HIDE DEF g
      <4>2. QED
        BY <2>2, <3>3, <4>1
    <3>4. QED
      BY <3>1, <3>2, <3>3
  <2>5. Follows(g, k + 1)
    <3>1. g = [i \in 0..k + 1 |-> g[i]]
      OBVIOUS
    <3> HIDE DEF g
    <3>2. QED
      BY <2>4, <3>1
  <2>6. k + 1 \in 0..n
    BY <1>1, <1>3
  <2> HIDE DEF Follows
  <2>7. QED
    BY <2>5, <2>6
<1>4. n \in T
  <2> HIDE DEF T
  <2>1. 0..n \subseteq T
    BY <1>1, <1>2, <1>3, UpTo
  <2>2. QED
    BY <1>1, <2>1
<1>5. Related(queue) = CHOOSE f : Follows(f, n)
  BY DEF Related
<1>6. Follows(Related(queue), n)
  <2> HIDE DEF Follows
  <2>1. QED
    BY <1>4, <1>5
<1>7. \A i \in 0..n : Related(queue)[i] = IF i = 0 THEN Relationship ELSE Relate(Related(queue)[i - 1], queue[i])
  BY <1>6
<1>8. QED
  BY <1>1, <1>7

(* So do any number of orders.                                             *)
LEMMA RelationsAreFine ==
  ASSUME LedgerTypes, CampaignTable(campaign), NEW queue \in Seq(Purchases)
  PROVE  CampaignTable(Related(queue)[Len(queue)].campaign)
<1> DEFINE n == Len(queue)
           Right(i) == CampaignTable(Related(queue)[i].campaign)
           T == {i \in 0..n : Right(i)}
<1>1. n \in Nat /\ \A j \in 1..n : queue[j] \in Purchases
  BY LenProperties, ElementOfSeq
<1>2. 0 \in T
  <2>1. Relationship.campaign = campaign
    BY DEF Relationship
  <2>2. Right(0)
    BY <2>1, RelatedAlong
  <2>3. QED
    BY <1>1, <2>2
<1>3. ASSUME NEW i \in 0..n, i < n, i \in T PROVE i + 1 \in T
  <2>1. i + 1 \in 1..n /\ i + 1 \in 0..n /\ (i + 1) - 1 = i /\ i \in Nat
    BY <1>1, <1>3
  <2>2. Related(queue)[i + 1] = Relate(Related(queue)[i], queue[i + 1]) /\ queue[i + 1] \in Purchases
    BY <1>1, <2>1, RelatedAlong
  <2>3. Right(i + 1)
    BY <1>3, <2>2, RelationIsFine
  <2> HIDE DEF Right
  <2>4. QED
    BY <2>1, <2>3
<1>4. n \in T
  <2> HIDE DEF T
  <2>1. 0..n \subseteq T
    BY <1>1, <1>2, <1>3, UpTo
  <2>2. QED
    BY <1>1, <2>1
<1>5. QED
  BY <1>4

(* A campaign nobody has answered yet.                                     *)
Unanswered(row, cycles) == row.recipient = "REWARDED" /\ row.used = {} /\ row.reward \in DOMAIN cycles

(* What the ledger counts with.                                            *)
LEMMA LedgerNumbers ==
  ASSUME LedgerTypes
  PROVE  /\ \A o \in Purchases : purchase[o].at \in Nat /\ purchase[o].reward \in Nat
         /\ \A i \in DOMAIN program : program[i].created \in Nat /\ program[i].updated \in Nat
<1>1. ASSUME NEW o \in Purchases PROVE purchase[o].at \in Nat /\ purchase[o].reward \in Nat
  <2>1. purchase[o] \in Purchase
    BY DEF LedgerTypes
  <2>2. purchase[o].at \in Days \cup {0} /\ purchase[o].reward \in Nat
    BY <2>1 DEF Purchase
  <2>3. \A t \in Days : t \in Nat
    BY LedgerConstants
  <2>4. purchase[o].at \in Days \/ purchase[o].at = 0
    BY <2>2
  <2>5. purchase[o].at \in Nat
    BY <2>3, <2>4
  <2>6. QED
    BY <2>2, <2>5
<1>2. ASSUME NEW i \in DOMAIN program PROVE program[i].created \in Nat /\ program[i].updated \in Nat
  <2>1. program[i] \in Program
    BY ElementOfSeq DEF LedgerTypes
  <2>2. program[i].created \in Days /\ program[i].updated \in Days
    BY <2>1 DEF Program
  <2>3. Days \subseteq Nat
    BY LedgerConstants
  <2>4. QED
    BY <2>2, <2>3
<1>3. QED
  BY <1>1, <1>2

(* A step that adds to the books and takes nothing from them.              *)
LEMMA BooksStep ==
  ASSUME LedgerInv, UNCHANGED <<purchase, program>>, today' \in Nat, today <= today',
         BooksOK(cycle', credit'), CyclesGrow(cycle, cycle'), settled' \subseteq Purchases,
         \A o \in settled' : purchase[o].status = "DELIVERED" /\ (purchase[o].due => credit'[o] # 0),
         campaign' \in Seq(Campaign),
         \A k \in DOMAIN campaign' : CampaignFine(campaign'[k]) \/ Unanswered(campaign'[k], cycle')
  PROVE  LedgerInv'
<1>1. LedgerTypes'
  BY DEF LedgerInv, LedgerTypes
<1>2. BooksOK(cycle, credit)'
  BY DEF BooksOK, CountedIn, OneOpen, CycleAddsUp
<1>3. /\ cycle \in Seq(Cycle) /\ cycle' \in Seq(Cycle) /\ DOMAIN cycle = 1..Len(cycle) /\ DOMAIN cycle' = 1..Len(cycle')
      /\ Len(cycle) \in Nat /\ Len(cycle') \in Nat /\ Len(cycle) <= Len(cycle')
      /\ \A c \in DOMAIN cycle : /\ c \in DOMAIN cycle'
                                /\ cycle[c].reward.status # "NONE" => cycle'[c].reward = cycle[c].reward
  <2>1. cycle \in Seq(Cycle) /\ cycle' \in Seq(Cycle)
    BY DEF LedgerInv, BooksOK
  <2>2. /\ DOMAIN cycle = 1..Len(cycle) /\ DOMAIN cycle' = 1..Len(cycle')
        /\ Len(cycle) \in Nat /\ Len(cycle') \in Nat
    BY <2>1, LenProperties
  <2>3. QED
    BY <2>1, <2>2 DEF CyclesGrow
<1>4. PurchasesOK'
  <2>1. \A t : InForceAt(t)' = InForceAt(t)
    BY DEF InForceAt
  <2>2. \A o \in Purchases : purchase[o].at \in Nat /\ purchase[o].reward \in Nat
    BY LedgerNumbers DEF LedgerInv
  <2>3. ASSUME NEW o \in Purchases
        PROVE  /\ purchase[o].reward <= Len(cycle')
               /\ purchase[o].status = "NONE" => purchase[o].reward = 0
               /\ purchase[o].status = "DELIVERED" =>
                    /\ purchase[o].at <= today'
                    /\ purchase[o].due <=> InForceAt(purchase[o].at) # {}
    <3>1. today \in Nat
      BY DEF LedgerInv, LedgerTypes
    <3>2. /\ purchase[o].reward <= Len(cycle)
          /\ purchase[o].status = "NONE" => purchase[o].reward = 0
          /\ purchase[o].status = "DELIVERED" =>
               /\ purchase[o].at <= today
               /\ purchase[o].due <=> InForceAt(purchase[o].at) # {}
      BY DEF LedgerInv, PurchasesOK
    <3>3. purchase[o].reward <= Len(cycle) => purchase[o].reward <= Len(cycle')
      BY <1>3, <2>2
    <3>4. purchase[o].at <= today => purchase[o].at <= today'
      BY <2>2, <3>1
    <3>5. QED
      BY <3>2, <3>3, <3>4
  <2>4. QED
    BY <2>1, <2>3 DEF PurchasesOK
<1>5. ProgramsOK'
  <2>1. \A i \in DOMAIN program : program[i].created \in Nat /\ program[i].updated \in Nat
    BY LedgerNumbers DEF LedgerInv
  <2>2. QED
    BY <2>1 DEF LedgerInv, ProgramsOK, LedgerTypes
<1>6. SettledOK'
  BY DEF SettledOK
<1>7. RewardSpentOnce'
  <2>1. ASSUME NEW c \in DOMAIN cycle', NEW o \in Purchases, purchase[o].reward = c,
               purchase[o].status \in {"OPEN", "DELIVERED"}
        PROVE  cycle'[c].reward.status = "REDEEMED" /\ cycle'[c].reward.order = o
    <3>1. c \in DOMAIN cycle
      BY <1>3, <2>1 DEF LedgerInv, PurchasesOK
    <3>2. cycle[c].reward.status = "REDEEMED" /\ cycle[c].reward.order = o
      BY <2>1, <3>1 DEF LedgerInv, RewardSpentOnce
    <3>3. QED
      BY <1>3, <3>1, <3>2
  <2>2. QED
    BY <2>1 DEF RewardSpentOnce
<1>8. ASSUME NEW k \in DOMAIN campaign' PROVE CampaignFine(campaign[k])'
  <2>1. CASE CampaignFine(campaign'[k])
    BY <1>3, <2>1 DEF CampaignFine
  <2>2. CASE Unanswered(campaign'[k], cycle')
    BY <2>2 DEF CampaignFine, Unanswered
  <2>3. QED
    BY <1>8, <2>1, <2>2
<1>9. QED
  BY <1>1, <1>2, <1>4, <1>5, <1>6, <1>7, <1>8 DEF LedgerInv

(* Only rewards differ, each at most in how it is spent.                   *)
RewardsOnly(before, after) ==
  /\ after \in Seq(Cycle) /\ Len(after) = Len(before)
  /\ \A c \in DOMAIN before :
       /\ after[c].kind = before[c].kind /\ after[c].required = before[c].required
       /\ after[c].progress = before[c].progress /\ after[c].status = before[c].status
       /\ after[c].reward.status = "NONE" <=> before[c].reward.status = "NONE"

(* The books do not depend on how rewards are spent.                       *)
LEMMA RewardsKeepBooks ==
  ASSUME NEW before, NEW after, BooksOK(before, credit), RewardsOnly(before, after)
  PROVE  BooksOK(after, credit) /\ DOMAIN after = DOMAIN before
<1>1. DOMAIN after = DOMAIN before
  BY LenProperties DEF BooksOK, RewardsOnly
<1>2. credit \in [Purchases -> 0..Len(after)]
  BY DEF BooksOK, RewardsOnly
<1>3. OneOpen(after)
  BY <1>1 DEF BooksOK, OneOpen, RewardsOnly
<1>4. ASSUME NEW c \in DOMAIN after PROVE CycleAddsUp(after[c], Cardinality(CountedIn(credit, c)))
  BY <1>1 DEF BooksOK, CycleAddsUp, RewardsOnly
<1>5. QED
  BY <1>1, <1>2, <1>3, <1>4 DEF BooksOK, RewardsOnly

(* A step of rewards: what an order that lives holds, it keeps, and an     *)
(* order that is placed holds what it names.                               *)
LEMMA RewardsStep ==
  ASSUME LedgerInv, UNCHANGED <<program, credit, campaign, settled>>, today' \in Nat, today <= today',
         RewardsOnly(cycle, cycle'), purchase' \in [Purchases -> Purchase],
         \A c \in DOMAIN cycle, o \in Purchases :
           /\ cycle[c].reward.status = "REDEEMED" /\ cycle[c].reward.order = o
           /\ purchase[o].status # "CANCELLED"
           => cycle'[c].reward.status = "REDEEMED" /\ cycle'[c].reward.order = o,
         \A o \in Purchases :
           \/ purchase'[o] = purchase[o]
           \/ /\ purchase[o].status = "NONE" /\ purchase'[o].status = "OPEN" /\ purchase'[o].reward <= Len(cycle)
              /\ purchase'[o].reward # 0 =>
                   /\ cycle'[purchase'[o].reward].reward.status = "REDEEMED"
                   /\ cycle'[purchase'[o].reward].reward.order = o
  PROVE  LedgerInv'
<1>1. LedgerTypes'
  BY DEF LedgerInv, LedgerTypes
<1>2. BooksOK(cycle', credit) /\ DOMAIN cycle' = DOMAIN cycle /\ Len(cycle') = Len(cycle)
  BY RewardsKeepBooks DEF LedgerInv, RewardsOnly
<1>3. \A o \in Purchases : purchase[o].status = "DELIVERED" => purchase'[o] = purchase[o]
  OBVIOUS
<1>4. BooksOK(cycle, credit)'
  <2>1. \A o \in Purchases : credit[o] # 0 => purchase'[o].status = "DELIVERED" /\ purchase'[o].due
    BY <1>2, <1>3 DEF BooksOK
  <2>2. QED
    BY <1>2, <2>1 DEF BooksOK, CountedIn, OneOpen, CycleAddsUp
<1>5. PurchasesOK'
  <2>1. \A t : InForceAt(t)' = InForceAt(t)
    BY DEF InForceAt
  <2>2. \A o \in Purchases : purchase[o].at \in Nat /\ purchase[o].reward \in Nat
    BY LedgerNumbers DEF LedgerInv
  <2>3. ASSUME NEW o \in Purchases
        PROVE  /\ purchase'[o].reward <= Len(cycle')
               /\ purchase'[o].status = "NONE" => purchase'[o].reward = 0
               /\ purchase'[o].status = "DELIVERED" =>
                    /\ purchase'[o].at <= today'
                    /\ purchase'[o].due <=> InForceAt(purchase'[o].at) # {}
    <3>1. today \in Nat
      BY DEF LedgerInv, LedgerTypes
    <3>2. CASE purchase'[o] = purchase[o]
      <4>1. /\ purchase[o].reward <= Len(cycle)
            /\ purchase[o].status = "NONE" => purchase[o].reward = 0
            /\ purchase[o].status = "DELIVERED" =>
                 /\ purchase[o].at <= today
                 /\ purchase[o].due <=> InForceAt(purchase[o].at) # {}
        BY DEF LedgerInv, PurchasesOK
      <4>2. purchase[o].at <= today => purchase[o].at <= today'
        BY <2>2, <3>1
      <4>3. QED
        BY <1>2, <3>2, <4>1, <4>2
    <3>3. CASE purchase'[o] # purchase[o]
      BY <1>2, <3>3
    <3>4. QED
      BY <3>2, <3>3
  <2>4. QED
    BY <2>1, <2>3 DEF PurchasesOK
<1>6. ProgramsOK'
  <2>1. \A i \in DOMAIN program : program[i].created \in Nat /\ program[i].updated \in Nat
    BY LedgerNumbers DEF LedgerInv
  <2>2. QED
    BY <2>1 DEF LedgerInv, ProgramsOK, LedgerTypes
<1>7. SettledOK'
  <2>1. settled \subseteq Purchases /\ SettledOK
    BY DEF LedgerInv, LedgerTypes
  <2>2. \A o \in settled : purchase'[o] = purchase[o]
    BY <1>3, <2>1 DEF SettledOK
  <2>3. QED
    BY <2>1, <2>2 DEF SettledOK
<1>8. RewardSpentOnce'
  <2>1. ASSUME NEW c \in DOMAIN cycle', NEW o \in Purchases, purchase'[o].reward = c,
               purchase'[o].status \in {"OPEN", "DELIVERED"}
        PROVE  cycle'[c].reward.status = "REDEEMED" /\ cycle'[c].reward.order = o
    <3>1. CASE purchase'[o] = purchase[o]
      <4>1. cycle[c].reward.status = "REDEEMED" /\ cycle[c].reward.order = o
        BY <1>2, <2>1, <3>1 DEF LedgerInv, RewardSpentOnce
      <4>2. purchase[o].status # "CANCELLED"
        BY <2>1, <3>1
      <4>3. QED
        BY <1>2, <2>1, <4>1, <4>2
    <3>2. CASE purchase'[o] # purchase[o]
      <4>1. c # 0
        <5>1. DOMAIN cycle = 1..Len(cycle)
          BY LenProperties DEF LedgerInv, BooksOK
        <5>2. QED
          BY <1>2, <2>1, <5>1
      <4>2. QED
        BY <2>1, <3>2, <4>1
    <3>3. QED
      BY <3>1, <3>2
  <2>2. QED
    BY <2>1 DEF RewardSpentOnce
<1>9. ASSUME NEW k \in DOMAIN campaign PROVE CampaignFine(campaign[k])'
  <2>1. CampaignFine(campaign[k]) /\ campaign[k] \in Campaign
    BY ElementOfSeq DEF LedgerInv, LedgerTypes
  <2>2. campaign[k].used \subseteq Purchases
    BY <2>1 DEF Campaign
  <2>3. ASSUME NEW o \in campaign[k].used
        PROVE  /\ purchase'[o].status = "DELIVERED"
               /\ cycle'[campaign[k].reward].reward.status = "REDEEMED"
               /\ cycle'[campaign[k].reward].reward.order = o
    BY <1>3, <2>1, <2>2, <2>3 DEF CampaignFine
  <2>4. QED
    BY <1>2, <2>1, <2>3 DEF CampaignFine
<1>10. QED
  BY <1>1, <1>4, <1>5, <1>6, <1>7, <1>8, <1>9 DEF LedgerInv

(* A step of one order that was placed, which ends it or refunds it.       *)
LEMMA PurchaseStep ==
  ASSUME LedgerInv, UNCHANGED <<program, cycle, credit, campaign, settled>>, today' \in Nat, today <= today',
         NEW o \in Purchases, NEW row \in Purchase, purchase' = [purchase EXCEPT ![o] = row],
         purchase[o].status \in {"OPEN", "DELIVERED"}, row.status \in {"DELIVERED", "CANCELLED"},
         row.reward = purchase[o].reward,
         purchase[o].status = "DELIVERED" => row.status = "DELIVERED" /\ (row.due <=> purchase[o].due),
         row.status = "DELIVERED" => row.at <= today' /\ (row.due <=> InForceAt(row.at) # {})
  PROVE  LedgerInv'
<1>1. /\ purchase' \in [Purchases -> Purchase] /\ purchase'[o] = row
      /\ \A p \in Purchases : p # o => purchase'[p] = purchase[p]
      /\ \A p \in Purchases : purchase[p].status = "DELIVERED" =>
            purchase'[p].status = "DELIVERED" /\ (purchase'[p].due <=> purchase[p].due)
  BY DEF LedgerInv, LedgerTypes
<1>2. LedgerTypes'
  BY <1>1 DEF LedgerInv, LedgerTypes
<1>3. BooksOK(cycle, credit)'
  <2>1. \A p \in Purchases : credit[p] # 0 => purchase'[p].status = "DELIVERED" /\ purchase'[p].due
    BY <1>1 DEF LedgerInv, BooksOK
  <2>2. QED
    <3>1. /\ cycle \in Seq(Cycle) /\ credit \in [Purchases -> 0..Len(cycle)] /\ OneOpen(cycle)
          /\ \A c \in DOMAIN cycle : CycleAddsUp(cycle[c], Cardinality(CountedIn(credit, c)))
      BY DEF LedgerInv, BooksOK
    <3>2. OneOpen(cycle)' /\ (cycle \in Seq(Cycle))' /\ (credit \in [Purchases -> 0..Len(cycle)])'
      BY <3>1 DEF OneOpen
    <3>3. \A c \in DOMAIN cycle : CycleAddsUp(cycle[c], Cardinality(CountedIn(credit, c)))'
      BY <3>1 DEF CycleAddsUp, CountedIn
    <3>4. QED
      BY <2>1, <3>2, <3>3 DEF BooksOK
<1>4. PurchasesOK'
  <2>1. \A t : InForceAt(t)' = InForceAt(t)
    BY DEF InForceAt
  <2>2. \A p \in Purchases : purchase[p].at \in Nat /\ purchase[p].reward \in Nat
    BY LedgerNumbers DEF LedgerInv
  <2>3. ASSUME NEW p \in Purchases
        PROVE  /\ purchase'[p].reward <= Len(cycle)
               /\ purchase'[p].status = "NONE" => purchase'[p].reward = 0
               /\ purchase'[p].status = "DELIVERED" =>
                    /\ purchase'[p].at <= today'
                    /\ purchase'[p].due <=> InForceAt(purchase'[p].at) # {}
    <3>1. today \in Nat
      BY DEF LedgerInv, LedgerTypes
    <3>2. CASE p = o
      BY <1>1, <3>2 DEF LedgerInv, PurchasesOK
    <3>3. CASE p # o
      <4>1. /\ purchase[p].reward <= Len(cycle)
            /\ purchase[p].status = "NONE" => purchase[p].reward = 0
            /\ purchase[p].status = "DELIVERED" =>
                 /\ purchase[p].at <= today
                 /\ purchase[p].due <=> InForceAt(purchase[p].at) # {}
        BY DEF LedgerInv, PurchasesOK
      <4>2. purchase[p].at <= today => purchase[p].at <= today'
        BY <2>2, <3>1
      <4>3. QED
        BY <1>1, <3>3, <4>1, <4>2
    <3>4. QED
      BY <3>2, <3>3
  <2>4. QED
    BY <2>1, <2>3 DEF PurchasesOK
<1>5. ProgramsOK'
  <2>1. \A i \in DOMAIN program : program[i].created \in Nat /\ program[i].updated \in Nat
    BY LedgerNumbers DEF LedgerInv
  <2>2. QED
    BY <2>1 DEF LedgerInv, ProgramsOK, LedgerTypes
<1>6. SettledOK'
  BY <1>1 DEF LedgerInv, LedgerTypes, SettledOK
<1>7. RewardSpentOnce'
  <2>1. ASSUME NEW c \in DOMAIN cycle, NEW p \in Purchases, purchase'[p].reward = c,
               purchase'[p].status \in {"OPEN", "DELIVERED"}
        PROVE  cycle[c].reward.status = "REDEEMED" /\ cycle[c].reward.order = p
    <3>1. purchase[p].reward = c /\ purchase[p].status \in {"OPEN", "DELIVERED"}
      BY <1>1, <2>1
    <3>2. QED
      BY <3>1 DEF LedgerInv, RewardSpentOnce
  <2>2. QED
    BY <2>1 DEF RewardSpentOnce
<1>8. ASSUME NEW k \in DOMAIN campaign PROVE CampaignFine(campaign[k])'
  <2>1. CampaignFine(campaign[k]) /\ campaign[k] \in Campaign
    BY ElementOfSeq DEF LedgerInv, LedgerTypes
  <2>2. campaign[k].used \subseteq Purchases
    BY <2>1 DEF Campaign
  <2>3. QED
    BY <1>1, <2>1, <2>2 DEF CampaignFine
<1>9. QED
  BY <1>2, <1>3, <1>4, <1>5, <1>6, <1>7, <1>8 DEF LedgerInv

(* Rewards due to expire differ only in that.                              *)
LEMMA ExpiryOfRewards ==
  ASSUME NEW cycles \in Seq(Cycle), NEW now
  PROVE  /\ RewardsOnly(cycles, ExpireRewards(cycles, now))
         /\ DOMAIN ExpireRewards(cycles, now) = DOMAIN cycles
         /\ \A c \in DOMAIN cycles :
              /\ cycles[c].reward.status = "REDEEMED" => ExpireRewards(cycles, now)[c] = cycles[c]
              /\ ExpireRewards(cycles, now)[c].reward.status = "AVAILABLE" => cycles[c].reward.status = "AVAILABLE"
<1> DEFINE Lapsed(c) == [cycles[c] EXCEPT !.reward = [@ EXCEPT !.status = "EXPIRED"]]
           due(c) == cycles[c].reward.status = "AVAILABLE" /\ Expired(cycles[c].reward, now)
           after == [c \in DOMAIN cycles |-> IF due(c) THEN Lapsed(c) ELSE cycles[c]]
<1>1. ExpireRewards(cycles, now) = after
  BY DEF ExpireRewards
<1>2. ASSUME NEW c \in DOMAIN cycles
      PROVE  /\ Lapsed(c) \in Cycle /\ Lapsed(c).kind = cycles[c].kind /\ Lapsed(c).required = cycles[c].required
             /\ Lapsed(c).progress = cycles[c].progress /\ Lapsed(c).status = cycles[c].status
             /\ Lapsed(c).reward.status = "EXPIRED" /\ cycles[c] \in Cycle
  <2>1. cycles[c] \in Cycle
    BY ElementOfSeq
  <2> DEFINE spent == [cycles[c].reward EXCEPT !.status = "EXPIRED"]
  <2>2. /\ spent \in [status : {"NONE", "AVAILABLE", "REDEEMED", "EXPIRED"}, expires : Nat,
                       order : Purchases \cup {0}]
        /\ spent.status = "EXPIRED"
    BY <2>1 DEF Cycle
  <2>3. Lapsed(c) = [cycles[c] EXCEPT !.reward = spent]
    BY <2>1 DEF Cycle
  <2> HIDE DEF spent, Lapsed
  <2>4. QED
    BY <2>1, <2>2, <2>3 DEF Cycle
<1> HIDE DEF Lapsed
<1>3. /\ DOMAIN after = DOMAIN cycles /\ after = [c \in DOMAIN after |-> after[c]]
      /\ \A c \in DOMAIN cycles : after[c] = IF due(c) THEN Lapsed(c) ELSE cycles[c]
  OBVIOUS
<1>4. \A c \in DOMAIN cycles : due(c) => cycles[c].reward.status = "AVAILABLE"
  OBVIOUS
<1> HIDE DEF after, due
<1>5. after \in Seq(Cycle) /\ Len(after) = Len(cycles)
  <2>1. \A c \in DOMAIN cycles : after[c] \in Cycle
    BY <1>2, <1>3
  <2>2. QED
    BY <1>3, <2>1, RewrittenRows
<1>6. RewardsOnly(cycles, after)
  BY <1>2, <1>3, <1>4, <1>5 DEF RewardsOnly
<1>7. QED
  BY <1>1, <1>2, <1>3, <1>4, <1>6

(* Somebody reads the rewards, and those that are due expire.              *)
LEMMA ReadingKeeps ==
  ASSUME LedgerInv, ReadRewards
  PROVE  LedgerInv'
<1>1. PICK t \in Days \cup {today} : t >= today /\ today' = t /\ cycle' = ExpireRewards(cycle, t)
  BY DEF ReadRewards
<1>2. cycle \in Seq(Cycle) /\ today \in Nat /\ purchase \in [Purchases -> Purchase]
  BY DEF LedgerInv, LedgerTypes, BooksOK
<1>3. today' \in Nat /\ today <= today'
  <2>1. Days \subseteq Nat
    BY LedgerConstants
  <2>2. QED
    BY <1>1, <1>2, <2>1
<1>4. UNCHANGED <<program, credit, purchase, snapshot, campaign, verified, settled>>
  BY DEF ReadRewards
<1>5. RewardsOnly(cycle, cycle')
  BY <1>1, <1>2, ExpiryOfRewards
<1>6. \A c \in DOMAIN cycle : cycle[c].reward.status = "REDEEMED" => cycle'[c] = cycle[c]
  BY <1>1, <1>2, ExpiryOfRewards
<1>7. QED
  BY <1>2, <1>3, <1>4, <1>5, <1>6, RewardsStep

(* A cancellation is projected: the reward is looked for by the order that *)
(* holds it, which is the cancelled one.                                   *)
LEMMA RestorationKeeps ==
  ASSUME LedgerInv, NEW o \in Purchases, ProjectCancellation(o)
  PROVE  LedgerInv'
<1> DEFINE role(c) == IF Expired(cycle[c].reward, today) THEN "EXPIRED" ELSE "AVAILABLE"
           free(c) == [[cycle[c].reward EXCEPT !.order = 0] EXCEPT !.status = role(c)]
           Freed(c) == [cycle[c] EXCEPT !.reward = free(c)]
           held(c) == cycle[c].reward.order = o /\ cycle[c].reward.status = "REDEEMED"
           after == [c \in DOMAIN cycle |-> IF held(c) THEN Freed(c) ELSE cycle[c]]
<1>1. /\ cycle \in Seq(Cycle) /\ today \in Nat /\ purchase \in [Purchases -> Purchase]
      /\ \A c \in DOMAIN cycle : cycle[c] \in Cycle
  BY ElementOfSeq DEF LedgerInv, LedgerTypes, BooksOK
<1>2. ASSUME NEW c \in DOMAIN cycle
      PROVE  /\ Freed(c) \in Cycle /\ Freed(c).kind = cycle[c].kind /\ Freed(c).required = cycle[c].required
             /\ Freed(c).progress = cycle[c].progress /\ Freed(c).status = cycle[c].status
             /\ Freed(c).reward.status # "NONE"
             /\ Freed(c) = [cycle[c] EXCEPT !.reward.order = 0, !.reward.status = role(c)]
  <2>1. role(c) \in {"EXPIRED", "AVAILABLE"}
    OBVIOUS
  <2>2. cycle[c] \in Cycle
    BY <1>1
  <2> HIDE DEF role
  <2> DEFINE one == [cycle[c].reward EXCEPT !.order = 0]
  <2>3. one \in [status : {"NONE", "AVAILABLE", "REDEEMED", "EXPIRED"}, expires : Nat, order : Purchases \cup {0}]
    BY <2>2 DEF Cycle
  <2>4. free(c) = [one EXCEPT !.status = role(c)]
    OBVIOUS
  <2>5. /\ free(c) \in [status : {"NONE", "AVAILABLE", "REDEEMED", "EXPIRED"}, expires : Nat,
                         order : Purchases \cup {0}]
        /\ free(c).status = role(c)
    <3> HIDE DEF one, free
    <3>1. QED
      BY <2>1, <2>3, <2>4
  <2>6. Freed(c) = [cycle[c] EXCEPT !.reward.order = 0, !.reward.status = role(c)]
    BY <2>2 DEF Cycle
  <2> HIDE DEF free
  <2>7. QED
    BY <2>1, <2>2, <2>5, <2>6 DEF Cycle
<1>3. cycle' = after
  <2>1. cycle' = [c \in DOMAIN cycle |->
                    IF held(c) THEN [cycle[c] EXCEPT !.reward.order = 0, !.reward.status = role(c)] ELSE cycle[c]]
    BY Zenon DEF ProjectCancellation, Restored
  <2> HIDE DEF held, role, Freed
  <2>2. QED
    BY <1>2, <2>1
<1> HIDE DEF Freed
<1>4. /\ DOMAIN after = DOMAIN cycle /\ after = [c \in DOMAIN after |-> after[c]]
      /\ \A c \in DOMAIN cycle : after[c] = IF held(c) THEN Freed(c) ELSE cycle[c]
  OBVIOUS
<1>5. /\ \A c \in DOMAIN cycle : held(c) => cycle[c].reward.order = o /\ cycle[c].reward.status = "REDEEMED"
      /\ purchase[o].status = "CANCELLED"
      /\ UNCHANGED <<today, program, credit, purchase, snapshot, campaign, verified, settled>>
  BY DEF ProjectCancellation, CancellationAnnounced
<1> HIDE DEF after, held
<1>6. after \in Seq(Cycle) /\ Len(after) = Len(cycle)
  <2>1. \A c \in DOMAIN cycle : after[c] \in Cycle
    BY <1>1, <1>2, <1>4
  <2>2. QED
    BY <1>1, <1>4, <2>1, RewrittenRows
<1>7. RewardsOnly(cycle, cycle')
  BY <1>2, <1>3, <1>4, <1>5, <1>6 DEF RewardsOnly
<1>8. ASSUME NEW c \in DOMAIN cycle, NEW p \in Purchases, cycle[c].reward.status = "REDEEMED",
             cycle[c].reward.order = p, purchase[p].status # "CANCELLED"
      PROVE  cycle'[c].reward.status = "REDEEMED" /\ cycle'[c].reward.order = p
  <2>1. ~held(c)
    BY <1>5, <1>8
  <2>2. QED
    BY <1>3, <1>4, <1>8, <2>1
<1>9. QED
  BY <1>1, <1>5, <1>7, <1>8, RewardsStep

(* A checkout takes the reward it was offered, once.                       *)
LEMMA CheckoutKeeps ==
  ASSUME LedgerInv, NEW o \in Purchases, NEW r \in 0..Len(cycle), Checkout(o, r)
  PROVE  LedgerInv'
<1> DEFINE current == ExpireRewards(cycle, today)
           placed == [[purchase[o] EXCEPT !.status = "OPEN"] EXCEPT !.reward = r]
           spent == [[current[r].reward EXCEPT !.status = "REDEEMED"] EXCEPT !.order = o]
           Taken == [current[r] EXCEPT !.reward = spent]
           after == [current EXCEPT ![r] = Taken]
<1>1. /\ cycle \in Seq(Cycle) /\ today \in Nat /\ purchase \in [Purchases -> Purchase]
      /\ DOMAIN cycle = 1..Len(cycle) /\ Len(cycle) \in Nat /\ r \in Nat
  BY LenProperties DEF LedgerInv, LedgerTypes, BooksOK
<1>2. /\ purchase[o].status = "NONE" /\ (r > 0 => current[r].reward.status = "AVAILABLE")
      /\ UNCHANGED <<today, program, credit, snapshot, campaign, verified, settled>>
  BY DEF Checkout
<1>3. /\ RewardsOnly(cycle, current) /\ DOMAIN current = DOMAIN cycle
      /\ \A c \in DOMAIN cycle :
           /\ cycle[c].reward.status = "REDEEMED" => current[c] = cycle[c]
           /\ current[c].reward.status = "AVAILABLE" => cycle[c].reward.status = "AVAILABLE"
  BY <1>1, ExpiryOfRewards
<1>4. purchase' = [purchase EXCEPT ![o] = placed]
  <2>1. purchase' = [purchase EXCEPT ![o].status = "OPEN", ![o].reward = r]
    BY DEF Checkout
  <2>2. purchase[o] \in Purchase
    BY <1>1
  <2>3. QED
    BY <1>1, <2>1, <2>2 DEF Purchase
<1>5. placed \in Purchase /\ placed.status = "OPEN" /\ placed.reward = r
  <2> DEFINE one == [purchase[o] EXCEPT !.status = "OPEN"]
  <2>1. one \in Purchase /\ one.status = "OPEN"
    BY <1>1 DEF Purchase
  <2> HIDE DEF one
  <2>2. [one EXCEPT !.reward = r] \in Purchase /\ [one EXCEPT !.reward = r].status = "OPEN"
        /\ [one EXCEPT !.reward = r].reward = r
    BY <1>1, <2>1 DEF Purchase
  <2>3. QED
    BY <2>2 DEF one
<1> HIDE DEF placed
<1>6. /\ purchase' \in [Purchases -> Purchase] /\ purchase'[o] = placed
      /\ \A p \in Purchases : p # o => purchase'[p] = purchase[p]
  BY <1>1, <1>4, <1>5
<1>7. ASSUME r = 0 PROVE LedgerInv'
  <2>1. cycle' = cycle
    BY <1>7 DEF Checkout
  <2>2. RewardsOnly(cycle, cycle')
    BY <1>1, <2>1 DEF RewardsOnly
  <2>3. ASSUME NEW p \in Purchases
        PROVE  \/ purchase'[p] = purchase[p]
               \/ /\ purchase[p].status = "NONE" /\ purchase'[p].status = "OPEN"
                  /\ purchase'[p].reward <= Len(cycle)
                  /\ purchase'[p].reward # 0 =>
                       /\ cycle'[purchase'[p].reward].reward.status = "REDEEMED"
                       /\ cycle'[purchase'[p].reward].reward.order = p
    BY <1>1, <1>2, <1>5, <1>6, <1>7
  <2>4. today' \in Nat /\ today <= today'
    BY <1>1, <1>2
  <2>5. QED
    BY <1>2, <1>6, <2>1, <2>2, <2>3, <2>4, RewardsStep
<1>8. ASSUME r # 0 PROVE LedgerInv'
  <2>1. /\ r \in DOMAIN cycle /\ current[r].reward.status = "AVAILABLE" /\ current \in Seq(Cycle)
        /\ Len(current) = Len(cycle)
    BY <1>1, <1>2, <1>3, <1>8 DEF RewardsOnly
  <2>2. cycle' = [current EXCEPT ![r].reward.status = "REDEEMED", ![r].reward.order = o]
    BY <1>8 DEF Checkout
  <2>3. current[r] \in Cycle
    BY <1>3, <2>1, ElementOfSeq
  <2> HIDE DEF current
  <2>4. cycle' = after
    BY <1>3, <2>1, <2>2, <2>3 DEF Cycle
  <2>5. /\ Taken \in Cycle /\ Taken.kind = current[r].kind /\ Taken.required = current[r].required
        /\ Taken.progress = current[r].progress /\ Taken.status = current[r].status
        /\ Taken.reward.status = "REDEEMED" /\ Taken.reward.order = o
    <3> DEFINE one == [current[r].reward EXCEPT !.status = "REDEEMED"]
    <3>1. one \in [status : {"NONE", "AVAILABLE", "REDEEMED", "EXPIRED"}, expires : Nat, order : Purchases \cup {0}]
          /\ one.status = "REDEEMED"
      BY <2>3 DEF Cycle
    <3>2. spent = [one EXCEPT !.order = o]
      OBVIOUS
    <3> HIDE DEF one, spent
    <3>3. spent \in [status : {"NONE", "AVAILABLE", "REDEEMED", "EXPIRED"}, expires : Nat,
                      order : Purchases \cup {0}]
          /\ spent.status = "REDEEMED" /\ spent.order = o
      BY <3>1, <3>2
    <3>4. QED
      BY <2>3, <3>3 DEF Cycle
  <2> HIDE DEF Taken
  <2>6. /\ DOMAIN after = DOMAIN current /\ after = [c \in DOMAIN after |-> after[c]] /\ after[r] = Taken
        /\ \A c \in DOMAIN current : c # r => after[c] = current[c]
    BY <1>3, <2>1, Zenon
  <2> HIDE DEF after
  <2>7. after \in Seq(Cycle) /\ Len(after) = Len(cycle)
    <3>1. \A c \in DOMAIN current : after[c] \in Cycle
      BY <2>1, <2>5, <2>6, ElementOfSeq
    <3>2. QED
      BY <2>1, <2>6, <3>1, RewrittenRows
  <2>8. RewardsOnly(cycle, cycle')
    <3>1. ASSUME NEW c \in DOMAIN cycle
          PROVE  /\ after[c].kind = cycle[c].kind /\ after[c].required = cycle[c].required
                 /\ after[c].progress = cycle[c].progress /\ after[c].status = cycle[c].status
                 /\ after[c].reward.status = "NONE" <=> cycle[c].reward.status = "NONE"
      <4>1. CASE c = r
        BY <1>3, <2>1, <2>5, <2>6, <4>1 DEF RewardsOnly
      <4>2. CASE c # r
        BY <1>3, <2>6, <4>2 DEF RewardsOnly
      <4>3. QED
        BY <4>1, <4>2
    <3>2. QED
      BY <2>4, <2>7, <3>1 DEF RewardsOnly
  <2>9. ASSUME NEW c \in DOMAIN cycle, cycle[c].reward.status = "REDEEMED" PROVE cycle'[c] = cycle[c]
    <3>1. current[c] = cycle[c]
      BY <1>3, <2>9
    <3>2. c # r
      BY <2>1, <2>9, <3>1
    <3>3. QED
      BY <1>3, <2>4, <2>6, <3>1, <3>2
  <2>10. ASSUME NEW p \in Purchases
         PROVE  \/ purchase'[p] = purchase[p]
                \/ /\ purchase[p].status = "NONE" /\ purchase'[p].status = "OPEN"
                   /\ purchase'[p].reward <= Len(cycle)
                   /\ purchase'[p].reward # 0 =>
                        /\ cycle'[purchase'[p].reward].reward.status = "REDEEMED"
                        /\ cycle'[purchase'[p].reward].reward.order = p
    BY <1>1, <1>2, <1>5, <1>6, <2>4, <2>5, <2>6
  <2>11. today' \in Nat /\ today <= today'
    BY <1>1, <1>2
  <2>12. QED
    BY <1>2, <1>6, <2>8, <2>9, <2>10, <2>11, RewardsStep
<1>9. QED
  BY <1>7, <1>8

(* An order that is delivered is due if the program is active, which is    *)
(* when a version is in force.                                             *)
LEMMA DeliveryKeeps ==
  ASSUME LedgerInv, NEW o \in Purchases, Deliver(o)
  PROVE  LedgerInv'
<1>1. PICK t \in Days :
        /\ t > today /\ today' = t /\ purchase[o].status = "OPEN"
        /\ purchase' = [purchase EXCEPT ![o].status = "DELIVERED", ![o].at = t, ![o].paid = TRUE,
                                        ![o].due = \E i \in DOMAIN program : program[i].active]
  BY DEF Deliver, Later
<1> DEFINE due == \E i \in DOMAIN program : program[i].active
           one == [purchase[o] EXCEPT !.status = "DELIVERED"]
           two == [one EXCEPT !.at = t]
           three == [two EXCEPT !.paid = TRUE]
           row == [three EXCEPT !.due = due]
<1>2. /\ purchase \in [Purchases -> Purchase] /\ purchase[o] \in Purchase /\ today \in Nat
      /\ t \in Nat /\ due \in BOOLEAN
  BY LedgerConstants DEF LedgerInv, LedgerTypes
<1>3. purchase' = [purchase EXCEPT ![o] = row]
  <2>1. purchase' = [purchase EXCEPT ![o].status = "DELIVERED", ![o].at = t, ![o].paid = TRUE, ![o].due = due]
    BY <1>1
  <2> HIDE DEF due
  <2>2. QED
    BY <1>2, <2>1, Zenon
<1>4. due <=> InForceAt(t) # {}
  <2>1. \A i \in DOMAIN program : program[i].created <= t /\ ~(program[i].updated >= t)
    <3>1. ASSUME NEW i \in DOMAIN program PROVE program[i].created <= t /\ ~(program[i].updated >= t)
      <4>1. program[i].created \in Nat /\ program[i].updated \in Nat
        BY LedgerNumbers DEF LedgerInv
      <4>2. program[i].created <= today /\ program[i].updated <= today
        BY DEF LedgerInv, ProgramsOK
      <4>3. QED
        BY <1>1, <1>2, <4>1, <4>2
    <3>2. QED
      BY <3>1
  <2>2. QED
    BY <2>1 DEF InForceAt
<1> HIDE DEF due
<1>5. one \in Purchase /\ one.status = "DELIVERED" /\ one.reward = purchase[o].reward
  BY <1>2 DEF Purchase
<1> HIDE DEF one
<1>6. two \in Purchase /\ two.status = "DELIVERED" /\ two.reward = purchase[o].reward /\ two.at = t
  BY <1>5 DEF Purchase
<1> HIDE DEF two
<1>7. three \in Purchase /\ three.status = "DELIVERED" /\ three.reward = purchase[o].reward /\ three.at = t
  BY <1>6 DEF Purchase
<1> HIDE DEF three
<1>8. /\ row \in Purchase /\ row.status = "DELIVERED" /\ row.reward = purchase[o].reward /\ row.at = t
      /\ row.due = due
  BY <1>2, <1>7 DEF Purchase
<1> HIDE DEF row
<1>9. UNCHANGED <<program, cycle, credit, snapshot, campaign, verified, settled>>
  BY DEF Deliver
<1>10. today' \in Nat /\ today <= today'
  BY <1>1, <1>2
<1>11. row.at <= today' /\ (row.due <=> InForceAt(row.at) # {})
  BY <1>1, <1>2, <1>4, <1>8
<1>12. purchase[o].status \in {"OPEN", "DELIVERED"} /\ row.status \in {"DELIVERED", "CANCELLED"}
       /\ purchase[o].status # "DELIVERED"
  BY <1>1, <1>8
<1>13. QED
  BY <1>3, <1>8, <1>9, <1>10, <1>11, <1>12, PurchaseStep

(* The money of a delivered order goes back; the order stays delivered.    *)
LEMMA RefundKeeps ==
  ASSUME LedgerInv, NEW o \in Purchases, Refund(o)
  PROVE  LedgerInv'
<1> DEFINE row == [purchase[o] EXCEPT !.paid = FALSE]
<1>1. purchase' = [purchase EXCEPT ![o] = row] /\ purchase[o].status = "DELIVERED"
  BY DEF Refund
<1>2. purchase[o] \in Purchase /\ today \in Nat
  BY DEF LedgerInv, LedgerTypes
<1>3. /\ row \in Purchase /\ row.status = "DELIVERED" /\ row.reward = purchase[o].reward
      /\ row.at = purchase[o].at /\ row.due = purchase[o].due
  BY <1>1, <1>2 DEF Purchase
<1> HIDE DEF row
<1>4. UNCHANGED <<today, program, cycle, credit, snapshot, campaign, verified, settled>>
  BY DEF Refund
<1>5. row.at <= today' /\ (row.due <=> InForceAt(row.at) # {})
  BY <1>1, <1>3, <1>4 DEF LedgerInv, PurchasesOK
<1>6. today' \in Nat /\ today <= today'
  BY <1>2, <1>4
<1>7. QED
  BY <1>1, <1>3, <1>4, <1>5, <1>6, PurchaseStep

(* An order is cancelled before it is delivered.                           *)
LEMMA CancellingKeeps ==
  ASSUME LedgerInv, NEW o \in Purchases, NEW by \in {"STAFF", "GATEWAY"}, CancelPurchase(o, by)
  PROVE  LedgerInv'
<1> DEFINE one == [purchase[o] EXCEPT !.status = "CANCELLED"]
           row == [one EXCEPT !.by = by]
<1>1. purchase[o] \in Purchase /\ today \in Nat /\ purchase \in [Purchases -> Purchase]
  BY DEF LedgerInv, LedgerTypes
<1>2. purchase' = [purchase EXCEPT ![o] = row] /\ purchase[o].status = "OPEN"
  BY <1>1, Zenon DEF CancelPurchase
<1>3. one \in Purchase /\ one.status = "CANCELLED" /\ one.reward = purchase[o].reward
  BY <1>1 DEF Purchase
<1> HIDE DEF one
<1>4. row \in Purchase /\ row.status = "CANCELLED" /\ row.reward = purchase[o].reward
  BY <1>3 DEF Purchase
<1> HIDE DEF row
<1>5. UNCHANGED <<today, program, cycle, credit, snapshot, campaign, verified, settled>>
  BY DEF CancelPurchase
<1>6. today' \in Nat /\ today <= today'
  BY <1>1, <1>5
<1>7. QED
  BY <1>2, <1>4, <1>5, <1>6, PurchaseStep

(* What the invariant says of the state a step starts from.                *)
LEMMA LedgerNow ==
  ASSUME LedgerInv
  PROVE  /\ cycle \in Seq(Cycle) /\ Len(cycle) \in Nat /\ DOMAIN cycle = 1..Len(cycle)
         /\ CyclesGrow(cycle, cycle) /\ BooksOK(cycle, credit) /\ CampaignTable(campaign)
         /\ LedgerTypes /\ PurchasesOK /\ SettledOK /\ settled \subseteq Purchases /\ today \in Nat
<1>1. cycle \in Seq(Cycle) /\ Len(cycle) \in Nat /\ DOMAIN cycle = 1..Len(cycle)
  BY LenProperties DEF LedgerInv, BooksOK
<1>2. CyclesGrow(cycle, cycle)
  BY <1>1 DEF CyclesGrow
<1>3. QED
  BY <1>1, <1>2 DEF LedgerInv, LedgerTypes, CampaignTable

(* Steps of what the invariant does not speak of.                          *)
LEMMA OtherwiseKeeps ==
  ASSUME LedgerInv, UNCHANGED <<today, program, cycle, credit, purchase, settled>>, CampaignTable(campaign')
  PROVE  LedgerInv'
<1>1. CyclesGrow(cycle, cycle') /\ BooksOK(cycle', credit') /\ today' \in Nat /\ today <= today'
  BY LedgerNow
<1>2. settled' \subseteq Purchases
  BY LedgerNow
<1>3. \A o \in settled' : purchase[o].status = "DELIVERED" /\ (purchase[o].due => credit'[o] # 0)
  BY LedgerNow DEF SettledOK
<1>4. campaign' \in Seq(Campaign) /\ \A k \in DOMAIN campaign' : CampaignFine(campaign'[k])
  BY DEF CampaignTable
<1>5. QED
  BY <1>1, <1>2, <1>3, <1>4, BooksStep

(* A version of the program is published: what was in force at a past      *)
(* moment still was.                                                       *)
LEMMA PublishingKeeps ==
  ASSUME LedgerInv, NEW required \in Required, NEW validity \in Validities, NEW active \in BOOLEAN,
         SaveProgram(required, validity, active)
  PROVE  LedgerInv'
<1>1. PICK t \in Days :
        /\ t > today /\ today' = t
        /\ program' = Append([i \in DOMAIN program |->
                                IF program[i].active
                                THEN [program[i] EXCEPT !.active = FALSE, !.updated = t]
                                ELSE program[i]],
                             [created |-> t, updated |-> t, active |-> active, required |-> required,
                              validity |-> validity])
  BY DEF SaveProgram, Later
<1> DEFINE Closed(i) == [program[i] EXCEPT !.active = FALSE, !.updated = t]
           rows == [i \in DOMAIN program |-> IF program[i].active THEN Closed(i) ELSE program[i]]
           added == [created |-> t, updated |-> t, active |-> active, required |-> required, validity |-> validity]
           n == Len(program) + 1
<1>2. UNCHANGED <<cycle, credit, purchase, snapshot, campaign, verified, settled>>
  BY DEF SaveProgram
<1>3. /\ program \in Seq(Program) /\ today \in Nat /\ t \in Nat /\ \A i \in DOMAIN program : program[i] \in Program
      /\ DOMAIN program = 1..Len(program) /\ Len(program) \in Nat
  BY LedgerConstants, ElementOfSeq, LenProperties DEF LedgerInv, LedgerTypes
<1>4. today' = t /\ t > today /\ t \in Nat /\ today \in Nat
  BY <1>1, <1>3
<1>5. ASSUME NEW i \in DOMAIN program
      PROVE  /\ Closed(i) \in Program /\ Closed(i).created = program[i].created
             /\ Closed(i).active = FALSE /\ Closed(i).updated = t
  BY <1>3 DEF Program
<1> HIDE DEF Closed
<1>6. /\ DOMAIN rows = DOMAIN program /\ rows = [i \in DOMAIN rows |-> rows[i]]
      /\ \A i \in DOMAIN program : rows[i] = IF program[i].active THEN Closed(i) ELSE program[i]
  OBVIOUS
<1>7. added \in Program /\ added.created = t /\ added.updated = t
  BY DEF Program
<1>8. program' = Append(rows, added)
  BY <1>1 DEF Closed
<1> HIDE DEF rows, added
<1>9. rows \in Seq(Program) /\ Len(rows) = Len(program)
  <2>1. \A i \in DOMAIN program : rows[i] \in Program
    BY <1>3, <1>5, <1>6
  <2>2. QED
    BY <1>3, <1>6, <2>1, RewrittenRows
<1>10. /\ program' \in Seq(Program) /\ DOMAIN program' = 1..n /\ program'[n] = added
      /\ \A i \in 1..Len(program) : program'[i] = rows[i]
  BY <1>7, <1>8, <1>9, AppendRow
<1>11. \A i \in DOMAIN program' : i = n \/ i \in DOMAIN program
  BY <1>3, <1>10
<1>12. n \in DOMAIN program' /\ DOMAIN program \subseteq DOMAIN program'
  BY <1>3, <1>10
<1> HIDE DEF n
<1>13. ASSUME NEW past \in Nat, past <= today PROVE InForceAt(past)' = InForceAt(past)
  <2>1. ASSUME NEW i \in DOMAIN program
        PROVE  (program'[i].created <= past /\ (program'[i].active \/ program'[i].updated >= past))
               <=> (program[i].created <= past /\ (program[i].active \/ program[i].updated >= past))
    <3>1. program'[i] = IF program[i].active THEN Closed(i) ELSE program[i]
      BY <1>3, <1>6, <1>10
    <3>2. CASE program[i].active
      <4>1. program'[i] = Closed(i)
        BY <3>1, <3>2
      <4>2. t >= past
        BY <1>13, <1>4
      <4>3. QED
        BY <1>5, <3>2, <4>1, <4>2
    <3>3. CASE ~program[i].active
      BY <3>1, <3>3
    <3>4. QED
      BY <3>2, <3>3
  <2>2. ~(program'[n].created <= past)
    BY <1>7, <1>10, <1>13, <1>4
  <2>3. InForceAt(past)' = {i \in DOMAIN program' : program'[i].created <= past
                                                     /\ (program'[i].active \/ program'[i].updated >= past)}
    BY DEF InForceAt
  <2>4. QED
    BY <1>11, <1>12, <2>1, <2>2, <2>3 DEF InForceAt
<1>14. PurchasesOK'
  <2>1. ASSUME NEW o \in Purchases
        PROVE  /\ purchase[o].reward <= Len(cycle)
               /\ purchase[o].status = "NONE" => purchase[o].reward = 0
               /\ purchase[o].status = "DELIVERED" =>
                    /\ purchase[o].at <= today'
                    /\ purchase[o].due <=> InForceAt(purchase[o].at)' # {}
    <3>1. purchase[o].at \in Nat
      BY LedgerNumbers DEF LedgerInv
    <3>2. /\ purchase[o].reward <= Len(cycle)
          /\ purchase[o].status = "NONE" => purchase[o].reward = 0
          /\ purchase[o].status = "DELIVERED" =>
               /\ purchase[o].at <= today
               /\ purchase[o].due <=> InForceAt(purchase[o].at) # {}
      BY DEF LedgerInv, PurchasesOK
    <3>3. purchase[o].at <= today => purchase[o].at <= today'
      BY <1>4, <3>1
    <3>4. purchase[o].at <= today => InForceAt(purchase[o].at)' = InForceAt(purchase[o].at)
      <4>1. PICK past : past = purchase[o].at
        OBVIOUS
      <4>2. purchase'[o].at = past
        BY <1>2, <4>1
      <4>3. past <= today => InForceAt(past)' = InForceAt(past)
        BY <1>13, <3>1, <4>1
      <4>4. QED
        BY <4>1, <4>2, <4>3
    <3>5. QED
      BY <3>2, <3>3, <3>4
  <2>2. QED
    BY <1>2, <2>1 DEF PurchasesOK
<1>15. ProgramsOK'
  <2>1. ASSUME NEW i \in DOMAIN program' PROVE program'[i].created <= today' /\ program'[i].updated <= today'
    <3>1. CASE i = n
      BY <1>7, <1>10, <1>4, <3>1
    <3>2. CASE i # n
      <4>1. i \in DOMAIN program
        BY <1>11, <3>2
      <4>2. program[i].created \in Nat /\ program[i].updated \in Nat
        BY <4>1, LedgerNumbers DEF LedgerInv
      <4>3. program[i].created <= today /\ program[i].updated <= today
        BY <4>1 DEF LedgerInv, ProgramsOK
      <4>4. program'[i] = IF program[i].active THEN Closed(i) ELSE program[i]
        BY <1>3, <1>6, <1>10, <4>1
      <4>5. program'[i].created = program[i].created
            /\ (program'[i].updated = t \/ program'[i].updated = program[i].updated)
        BY <1>5, <4>1, <4>4
      <4>6. QED
        BY <1>4, <4>2, <4>3, <4>5
    <3>3. QED
      BY <3>1, <3>2
  <2>2. QED
    BY <2>1 DEF ProgramsOK
<1>16. LedgerTypes'
  BY <1>1, <1>2, <1>3, <1>10 DEF LedgerInv, LedgerTypes
<1>17. BooksOK(cycle, credit)' /\ SettledOK' /\ RewardSpentOnce'
  <2>1. BooksOK(cycle, credit)'
    BY <1>2 DEF LedgerInv, BooksOK, OneOpen, CountedIn, CycleAddsUp
  <2>2. SettledOK'
    BY <1>2 DEF LedgerInv, SettledOK
  <2>3. RewardSpentOnce'
    BY <1>2 DEF LedgerInv, RewardSpentOnce
  <2>4. QED
    BY <2>1, <2>2, <2>3
<1>18. \A k \in DOMAIN campaign' : CampaignFine(campaign[k])'
  BY <1>2 DEF LedgerInv, CampaignFine
<1>19. QED
  BY <1>14, <1>15, <1>16, <1>17, <1>18 DEF LedgerInv

(* A completion is projected, whenever and however often.                  *)
LEMMA CompletionKeeps ==
  ASSUME LedgerInv, NEW o \in Purchases, ProjectCompletion(o)
  PROVE  LedgerInv'
<1>1. purchase[o].status = "DELIVERED" /\ UNCHANGED <<today, program, purchase, verified>>
  BY DEF ProjectCompletion
<1>2. CASE verified
  <2> DEFINE m == CreditOrder(Ledger, o)
  <2>1. /\ cycle' = m.cycle /\ credit' = m.credit /\ campaign' = Relate(Relationship, o).campaign
        /\ settled' = settled \cup {o}
    BY <1>2 DEF ProjectCompletion
  <2>2. Ledger.cycle = cycle /\ Ledger.credit = credit /\ Relationship.campaign = campaign
    BY DEF Ledger, Relationship
  <2>3. CountedRight(Ledger, m, o)
    <3>1. BooksOK(Ledger.cycle, Ledger.credit)
      BY <2>2, LedgerNow
    <3>2. QED
      BY <1>1, <3>1, CreditDoes, LedgerNow
  <2>4. CampaignTable(campaign')
    <3>1. CampaignTable(Relationship.campaign)
      BY <2>2, LedgerNow
    <3>2. QED
      BY <2>1, <3>1, RelationIsFine, LedgerNow
  <2> HIDE DEF m
  <2>5. BooksOK(cycle', credit') /\ CyclesGrow(cycle, cycle')
    BY <2>1, <2>2, <2>3 DEF CountedRight
  <2>6. ASSUME NEW p \in settled'
        PROVE  purchase[p].status = "DELIVERED" /\ (purchase[p].due => credit'[p] # 0)
    <3>1. CASE p = o
      BY <1>1, <2>1, <2>3, <3>1 DEF CountedRight
    <3>2. CASE p # o
      <4>1. p \in settled /\ p \in Purchases
        BY <2>1, <2>6, <3>2, LedgerNow
      <4>2. credit'[p] = credit[p]
        BY <2>1, <2>2, <2>3, <3>2, <4>1 DEF CountedRight
      <4>3. QED
        BY <4>1, <4>2, LedgerNow DEF SettledOK
    <3>3. QED
      BY <3>1, <3>2
  <2>7. settled' \subseteq Purchases
    BY <2>1, LedgerNow
  <2>8. today' \in Nat /\ today <= today'
    BY <1>1, LedgerNow
  <2>9. campaign' \in Seq(Campaign) /\ \A k \in DOMAIN campaign' : CampaignFine(campaign'[k])
    BY <2>4 DEF CampaignTable
  <2>10. QED
    BY <1>1, <2>5, <2>6, <2>7, <2>8, <2>9, BooksStep
<1>3. CASE ~verified
  <2>1. UNCHANGED <<cycle, credit, snapshot, campaign, settled>>
    BY <1>3 DEF ProjectCompletion
  <2>2. CampaignTable(campaign')
    BY <2>1, LedgerNow
  <2>3. QED
    BY <1>1, <2>1, <2>2, OtherwiseKeeps
<1>4. QED
  BY <1>2, <1>3

(* The claim counts what the customer bought before the identity was       *)
(* confirmed, in the order of delivery, each order once.                   *)
LEMMA LoyaltyClaimKeeps ==
  ASSUME LedgerInv, ClaimLoyalty
  PROVE  LedgerInv'
<1> DEFINE S == {o \in Delivered : credit[o] = 0}
<1>1. PICK queue \in InOrder(S) :
        /\ cycle' = Credited(queue)[Len(queue)].cycle /\ credit' = Credited(queue)[Len(queue)].credit
        /\ settled' = settled \cup Delivered
        /\ UNCHANGED <<today, program, purchase, snapshot, campaign, verified>>
  BY DEF ClaimLoyalty
<1>2. S \subseteq Purchases /\ IsFiniteSet(S)
  <2>1. S \subseteq Purchases
    BY DEF Delivered
  <2>2. QED
    BY <2>1, LedgerConstants, FS_Subset
<1>3. queue \in Seq(S) /\ \A o \in S : \E i \in 1..Len(queue) : queue[i] = o
  <2>1. queue \in SetToSeqs(S)
    BY <1>1 DEF InOrder
  <2> HIDE DEF S
  <2>2. QED
    BY <1>2, <2>1, Enumerates
<1>4. \A j \in 1..Len(queue) : queue[j] \in S
  BY <1>3, ElementOfSeq, LenProperties
<1>5. queue \in Seq(Purchases)
  <2> HIDE DEF S
  <2>1. \A s \in Seq(S) : s \in Seq(Purchases)
    BY <1>2, SeqDef
  <2>2. QED
    BY <1>3, <2>1
<1>6. \A j \in 1..Len(queue) : purchase[queue[j]].status = "DELIVERED"
  BY <1>4 DEF Delivered
<1> DEFINE m == Credited(queue)[Len(queue)]
<1>7. /\ BooksOK(m.cycle, m.credit) /\ CyclesGrow(cycle, m.cycle)
      /\ \A p \in Purchases : credit[p] # 0 => m.credit[p] = credit[p]
      /\ \A j \in 1..Len(queue) : purchase[queue[j]].due => m.credit[queue[j]] # 0
  BY <1>5, <1>6, ClaimedRight
<1>8. cycle' = m.cycle /\ credit' = m.credit
  BY <1>1
<1> HIDE DEF m
<1>9. ASSUME NEW p \in settled'
      PROVE  purchase[p].status = "DELIVERED" /\ (purchase[p].due => credit'[p] # 0)
  <2>1. p \in settled \/ p \in Delivered
    BY <1>1
  <2>2. p \in Purchases /\ purchase[p].status = "DELIVERED"
    BY <2>1, LedgerNow DEF Delivered, SettledOK
  <2>3. CASE credit[p] # 0
    BY <1>7, <1>8, <2>2, <2>3
  <2>4. CASE credit[p] = 0
    <3>1. p \in S
      BY <2>2, <2>4 DEF Delivered
    <3>2. PICK i \in 1..Len(queue) : queue[i] = p
      BY <1>3, <3>1
    <3>3. QED
      BY <1>7, <1>8, <2>2, <3>2
  <2>5. QED
    BY <2>3, <2>4
<1>10. settled' \subseteq Purchases /\ today' \in Nat /\ today <= today'
  BY <1>1, LedgerNow DEF Delivered
<1>11. campaign' \in Seq(Campaign) /\ \A k \in DOMAIN campaign' : CampaignFine(campaign'[k])
  BY <1>1, LedgerNow DEF CampaignTable
<1>12. UNCHANGED <<purchase, program>> /\ BooksOK(cycle', credit') /\ CyclesGrow(cycle, cycle')
  BY <1>1, <1>7, <1>8
<1>13. QED
  BY <1>9, <1>10, <1>11, <1>12, BooksStep

(* The claim of the relationship.                                          *)
LEMMA RelationshipClaimKeeps ==
  ASSUME LedgerInv, ClaimRelationship
  PROVE  LedgerInv'
<1> DEFINE S == Delivered \ snapshot.orders
<1>1. PICK queue \in InOrder(S) :
        /\ campaign' = Related(queue)[Len(queue)].campaign
        /\ UNCHANGED <<today, program, cycle, credit, purchase, verified, settled>>
  BY DEF ClaimRelationship
<1>2. S \subseteq Purchases /\ IsFiniteSet(S)
  <2>1. S \subseteq Purchases
    BY DEF Delivered
  <2>2. QED
    BY <2>1, LedgerConstants, FS_Subset
<1>3. queue \in Seq(Purchases)
  <2>1. queue \in SetToSeqs(S)
    BY <1>1 DEF InOrder
  <2> HIDE DEF S
  <2>2. queue \in Seq(S)
    BY <1>2, <2>1, Enumerates
  <2>3. \A s \in Seq(S) : s \in Seq(Purchases)
    BY <1>2, SeqDef
  <2>4. QED
    BY <2>2, <2>3
<1>4. CampaignTable(campaign')
  BY <1>1, <1>3, RelationsAreFine, LedgerNow
<1>5. QED
  BY <1>1, <1>4, OtherwiseKeeps

(* A campaign starts: its recipient gets a cycle that is full and its      *)
(* reward, which is the last cycle there is.                               *)
LEMMA CampaignStartKeeps ==
  ASSUME LedgerInv, StartCampaign
  PROVE  LedgerInv'
<1> DEFINE active == {i \in DOMAIN program : program[i].active}
           terms == program[Max(active)]
           Paid(t) == [status |-> "AVAILABLE", expires |-> t + CampaignDays, order |-> 0]
           Full(t) == [kind |-> "CAMPAIGN", required |-> terms.required, progress |-> terms.required,
                       validity |-> CampaignDays, status |-> "COMPLETED", reward |-> Paid(t)]
           Sent(t, c) == [status |-> "ACTIVE", created |-> t, ends |-> t + CampaignDays, reward |-> c,
                          recipient |-> "REWARDED", orders |-> {}, used |-> {}]
<1>1. PICK t \in Days :
        /\ t > today /\ today' = t /\ active # {}
        /\ cycle' = Append(cycle, Full(t)) /\ campaign' = Append(campaign, Sent(t, Len(cycle')))
  BY DEF StartCampaign, Later
<1>2. UNCHANGED <<program, credit, purchase, verified, settled>>
  BY DEF StartCampaign
<1>3. t \in Nat /\ today \in Nat /\ CampaignDays \in Nat /\ today' \in Nat /\ today <= today'
  <2>1. t \in Nat /\ today \in Nat /\ CampaignDays \in Nat
    BY LedgerConstants, LedgerNow
  <2>2. QED
    BY <1>1, <2>1
<1>4. terms \in Program
  BY <1>1, LedgerNow, TermsInForce
<1> HIDE DEF active, terms
<1>5. Full(t) \in Cycle /\ CycleAddsUp(Full(t), 0) /\ Full(t).status = "COMPLETED"
  <2>1. terms.required \in Nat \ {0}
    BY <1>4, LedgerConstants DEF Program
  <2>2. /\ Paid(t) \in [status : {"NONE", "AVAILABLE", "REDEEMED", "EXPIRED"}, expires : Nat,
                         order : Purchases \cup {0}]
        /\ Paid(t).status = "AVAILABLE"
    BY <1>3
  <2> HIDE DEF Paid
  <2>3. Full(t) \in Cycle
    BY <1>3, <2>1, <2>2 DEF Cycle
  <2>4. QED
    BY <2>1, <2>2, <2>3 DEF CycleAddsUp
<1> HIDE DEF Full
<1>6. /\ BooksOK(cycle', credit) /\ CyclesGrow(cycle, cycle') /\ Len(cycle') \in DOMAIN cycle'
      /\ Len(cycle') \in Nat
  <2>1. /\ BooksOK(Append(cycle, Full(t)), credit) /\ CyclesGrow(cycle, Append(cycle, Full(t)))
        /\ Len(Append(cycle, Full(t))) = Len(cycle) + 1 /\ Len(cycle) \in Nat
        /\ DOMAIN Append(cycle, Full(t)) = 1..Len(cycle) + 1
    BY <1>5, LedgerNow, AddedCycle
  <2>2. QED
    BY <1>1, <2>1
<1> DEFINE row == Sent(t, Len(cycle'))
<1>7. /\ row \in Campaign /\ Unanswered(row, cycle')
  BY <1>3, <1>6 DEF Campaign, Unanswered
<1>8. campaign' = Append(campaign, row)
  BY <1>1
<1> HIDE DEF row
<1>9. /\ campaign' \in Seq(Campaign)
      /\ \A k \in DOMAIN campaign' : CampaignFine(campaign'[k]) \/ Unanswered(campaign'[k], cycle')
  <2>1. campaign \in Seq(Campaign) /\ \A k \in DOMAIN campaign : CampaignFine(campaign[k])
    BY LedgerNow DEF CampaignTable
  <2>2. /\ campaign' \in Seq(Campaign) /\ Len(campaign) \in Nat /\ DOMAIN campaign = 1..Len(campaign)
        /\ DOMAIN campaign' = 1..Len(campaign) + 1 /\ campaign'[Len(campaign) + 1] = row
        /\ \A k \in 1..Len(campaign) : campaign'[k] = campaign[k]
    BY <1>7, <1>8, <2>1, AppendRow
  <2>3. \A k \in DOMAIN campaign' : k = Len(campaign) + 1 \/ k \in 1..Len(campaign)
    BY <2>2
  <2>4. QED
    BY <1>7, <2>1, <2>2, <2>3
<1>10. \A o \in settled' : purchase[o].status = "DELIVERED" /\ (purchase[o].due => credit'[o] # 0)
  BY <1>2, LedgerNow DEF SettledOK
<1>11. settled' \subseteq Purchases /\ BooksOK(cycle', credit')
  BY <1>2, <1>6, LedgerNow
<1>12. QED
  BY <1>2, <1>3, <1>6, <1>9, <1>10, <1>11, BooksStep

(* The campaigns are read: those that end do so whatever was used.         *)
LEMMA CampaignReadingKeeps ==
  ASSUME LedgerInv, ReadCampaigns
  PROVE  LedgerInv'
<1> DEFINE Ended(k) == IF campaign[k].ends <= today THEN "ENDED" ELSE campaign[k].status
           lost(k) == campaign[k].recipient = "REWARDED" /\ cycle[campaign[k].reward].reward.status = "EXPIRED"
           Role(k) == IF lost(k) THEN "EXPIRED" ELSE campaign[k].recipient
           one(k) == [campaign[k] EXCEPT !.status = Ended(k)]
           Read(k) == [one(k) EXCEPT !.recipient = Role(k)]
           rows == [k \in DOMAIN campaign |-> Read(k)]
<1>1. campaign \in Seq(Campaign) /\ \A k \in DOMAIN campaign : campaign[k] \in Campaign /\ CampaignFine(campaign[k])
  BY ElementOfSeq, LedgerNow DEF CampaignTable
<1>2. UNCHANGED <<today, program, cycle, credit, purchase, verified, settled>>
  BY DEF ReadCampaigns
<1>3. ASSUME NEW k \in DOMAIN campaign
      PROVE  /\ Read(k) \in Campaign /\ Read(k).used = campaign[k].used /\ Read(k).orders = campaign[k].orders
             /\ Read(k).reward = campaign[k].reward /\ Read(k).recipient = Role(k)
             /\ Read(k) = [campaign[k] EXCEPT
                  !.status = IF campaign[k].ends <= today THEN "ENDED" ELSE @,
                  !.recipient = IF @ = "REWARDED" /\ cycle[campaign[k].reward].reward.status = "EXPIRED"
                                THEN "EXPIRED" ELSE @]
  <2>1. campaign[k] \in Campaign
    BY <1>1
  <2>2. Ended(k) \in {"ENDED", "ACTIVE"} /\ Role(k) \in {"REWARDED", "RETURNED", "CONVERTED", "EXPIRED"}
    BY <2>1 DEF Campaign
  <2>3. [campaign[k] EXCEPT
           !.status = IF campaign[k].ends <= today THEN "ENDED" ELSE @,
           !.recipient = IF @ = "REWARDED" /\ cycle[campaign[k].reward].reward.status = "EXPIRED"
                         THEN "EXPIRED" ELSE @] = Read(k)
    BY <2>1 DEF Campaign
  <2> HIDE DEF Ended, Role
  <2>4. /\ one(k) \in Campaign /\ one(k).used = campaign[k].used /\ one(k).orders = campaign[k].orders
        /\ one(k).reward = campaign[k].reward
    BY <2>1, <2>2 DEF Campaign
  <2> HIDE DEF one
  <2>5. QED
    BY <2>2, <2>3, <2>4 DEF Campaign
<1>4. campaign' = rows
  <2>1. campaign' = [k \in DOMAIN campaign |->
          [campaign[k] EXCEPT
             !.status = IF campaign[k].ends <= today THEN "ENDED" ELSE @,
             !.recipient = IF @ = "REWARDED" /\ cycle[campaign[k].reward].reward.status = "EXPIRED"
                           THEN "EXPIRED" ELSE @]]
    BY DEF ReadCampaigns
  <2> HIDE DEF Read
  <2>2. QED
    BY <1>3, <2>1
<1>5. \A k \in DOMAIN campaign : Role(k) = campaign[k].recipient \/ (campaign[k].recipient = "REWARDED" /\ Role(k) = "EXPIRED")
  OBVIOUS
<1> HIDE DEF Read, Role
<1>6. DOMAIN rows = DOMAIN campaign /\ rows = [k \in DOMAIN rows |-> rows[k]] /\ \A k \in DOMAIN campaign : rows[k] = Read(k)
  OBVIOUS
<1> HIDE DEF rows
<1>7. rows \in Seq(Campaign)
  <2>1. \A k \in DOMAIN campaign : rows[k] \in Campaign
    BY <1>3, <1>6
  <2>2. QED
    BY <1>1, <1>6, <2>1, RewrittenRows
<1>8. ASSUME NEW k \in DOMAIN rows PROVE CampaignFine(rows[k])
  <2>1. /\ k \in DOMAIN campaign /\ rows[k].used = campaign[k].used /\ rows[k].orders = campaign[k].orders
        /\ rows[k].reward = campaign[k].reward /\ rows[k].recipient = Role(k)
    BY <1>3, <1>6
  <2>2. CampaignFine(campaign[k])
    BY <1>1, <2>1
  <2>3. QED
    BY <1>5, <2>1, <2>2 DEF CampaignFine
<1>9. CampaignTable(campaign')
  BY <1>4, <1>7, <1>8 DEF CampaignTable
<1>10. QED
  BY <1>2, <1>9, OtherwiseKeeps

(* The invariant of the ledger says what the store promises.               *)
LEMMA LedgerPromises ==
  ASSUME LedgerInv
  PROVE  CreditWhereDue /\ CyclesAddUp /\ RewardSpentOnce /\ ConversionIsUse
<1>1. CreditWhereDue
  <2>1. ASSUME NEW o \in settled PROVE (credit[o] # 0) <=> purchase[o].due
    <3>1. o \in Purchases /\ (purchase[o].due => credit[o] # 0)
      BY LedgerNow DEF SettledOK
    <3>2. credit[o] # 0 => purchase[o].due
      BY <3>1, LedgerNow DEF BooksOK
    <3>3. purchase[o].due \in BOOLEAN
      BY <3>1, LedgerNow, Zenon DEF LedgerTypes, Purchase
    <3>4. QED
      BY <3>1, <3>2, <3>3
  <2>2. QED
    BY <2>1 DEF CreditWhereDue
<1>2. CyclesAddUp
  <2>1. ASSUME NEW c \in DOMAIN cycle
        PROVE  LET counted == Cardinality({o \in Purchases : credit[o] = c})
               IN  /\ cycle[c].kind = "ORDERS" => cycle[c].progress = counted
                   /\ cycle[c].kind = "CAMPAIGN" => counted = 0
                   /\ (cycle[c].status = "COMPLETED") <=> (cycle[c].progress = cycle[c].required)
                   /\ (cycle[c].status = "COMPLETED") <=> (cycle[c].reward.status # "NONE")
    BY LedgerNow DEF BooksOK, CycleAddsUp, CountedIn
  <2> DEFINE open == {c \in DOMAIN cycle : cycle[c].status = "ACTIVE"}
  <2>2. IsFiniteSet(open)
    BY LedgerNow, FiniteRows
  <2>3. \A c, d \in open : c = d
    BY LedgerNow DEF BooksOK, OneOpen
  <2> HIDE DEF open
  <2>4. Cardinality(open) <= 1
    BY <2>2, <2>3, AtMostOneMember
  <2>5. QED
    BY <2>1, <2>4 DEF CyclesAddUp, open
<1>3. ConversionIsUse
  BY LedgerNow DEF CampaignTable, CampaignFine, ConversionIsUse
<1>4. QED
  BY <1>1, <1>2, <1>3 DEF LedgerInv

(* At first there is nothing.                                              *)
LEMMA LedgerStarts == LedgerInit => LedgerInv
<1> SUFFICES ASSUME LedgerInit PROVE LedgerInv
  OBVIOUS
<1>1. /\ today = 0 /\ program = <<>> /\ cycle = <<>> /\ campaign = <<>> /\ settled = {}
      /\ credit = [o \in Purchases |-> 0]
      /\ purchase = [o \in Purchases |-> [status |-> "NONE", at |-> 0, paid |-> FALSE,
                                          by |-> "NONE", reward |-> 0, due |-> FALSE]]
  BY DEF LedgerInit
<1>2. Len(cycle) = 0 /\ DOMAIN cycle = {} /\ DOMAIN campaign = {} /\ DOMAIN program = {}
      /\ cycle \in Seq(Cycle) /\ campaign \in Seq(Campaign) /\ program \in Seq(Program)
  BY <1>1, EmptySeq
<1>3. LedgerTypes
  <2>1. purchase \in [Purchases -> Purchase]
    BY <1>1 DEF Purchase
  <2>2. QED
    BY <1>1, <1>2, <2>1 DEF LedgerTypes
<1>4. BooksOK(cycle, credit)
  BY <1>1, <1>2 DEF BooksOK, OneOpen
<1>5. PurchasesOK
  BY <1>1, <1>2 DEF PurchasesOK
<1>6. ProgramsOK /\ SettledOK
  BY <1>1, <1>2 DEF ProgramsOK, SettledOK
<1>7. RewardSpentOnce
  BY <1>2 DEF RewardSpentOnce
<1>8. QED
  BY <1>2, <1>3, <1>4, <1>5, <1>6, <1>7 DEF LedgerInv

(* Every step of the ledger keeps its invariant.                           *)
LEMMA LedgerSteps == LedgerInv /\ [LedgerNext]_ledgerVars => LedgerInv'
<1> SUFFICES ASSUME LedgerInv, [LedgerNext]_ledgerVars PROVE LedgerInv'
  OBVIOUS
<1>1. ASSUME NEW required \in Required, NEW validity \in Validities, NEW active \in BOOLEAN,
             SaveProgram(required, validity, active)
      PROVE  LedgerInv'
  BY <1>1, PublishingKeeps
<1>2. ASSUME NEW o \in Purchases, NEW r \in 0..Len(cycle), Checkout(o, r) PROVE LedgerInv'
  BY <1>2, CheckoutKeeps
<1>3. ASSUME NEW o \in Purchases, Deliver(o) PROVE LedgerInv'
  BY <1>3, DeliveryKeeps
<1>4. ASSUME NEW o \in Purchases, Refund(o) PROVE LedgerInv'
  BY <1>4, RefundKeeps
<1>5. ASSUME NEW o \in Purchases, NEW by \in {"STAFF", "GATEWAY"}, CancelPurchase(o, by) PROVE LedgerInv'
  BY <1>5, CancellingKeeps
<1>6. ASSUME NEW o \in Purchases, ProjectCompletion(o) PROVE LedgerInv'
  BY <1>6, CompletionKeeps
<1>7. ASSUME NEW o \in Purchases, ProjectCancellation(o) PROVE LedgerInv'
  BY <1>7, RestorationKeeps
<1>8. CASE ConfirmIdentity
  <2>1. UNCHANGED <<today, program, cycle, credit, purchase, campaign, settled>>
    BY <1>8 DEF ConfirmIdentity
  <2>2. QED
    BY <2>1, OtherwiseKeeps, LedgerNow
<1>9. CASE ClaimLoyalty
  BY <1>9, LoyaltyClaimKeeps
<1>10. CASE ClaimRelationship
  BY <1>10, RelationshipClaimKeeps
<1>11. CASE StartCampaign
  BY <1>11, CampaignStartKeeps
<1>12. CASE ReadRewards
  BY <1>12, ReadingKeeps
<1>13. CASE ReadCampaigns
  BY <1>13, CampaignReadingKeeps
<1>14. CASE UNCHANGED ledgerVars
  <2>1. UNCHANGED <<today, program, cycle, credit, purchase, campaign, settled>>
    BY <1>14 DEF ledgerVars
  <2>2. QED
    BY <2>1, OtherwiseKeeps, LedgerNow
<1>15. QED
  BY <1>1, <1>2, <1>3, <1>4, <1>5, <1>6, <1>7, <1>8, <1>9, <1>10, <1>11, <1>12, <1>13, <1>14
  DEF LedgerNext

(* The books of the ledger balance in every reachable state.               *)
THEOREM LedgerInvariance == LedgerSpec => []LedgerInv
BY LedgerStarts, LedgerSteps, PTL DEF LedgerSpec

(* An order whose completion was projected for a confirmed customer counts *)
(* exactly if a program was active when it was delivered: whatever the     *)
(* order in which completions, repetitions and claims of old orders come.  *)
THEOREM CreditedWhereDue == LedgerSpec => []CreditWhereDue
BY LedgerInvariance, LedgerPromises, PTL

(* A cycle counts the orders credited to it, pays its reward exactly when  *)
(* it is full, and one cycle at most is open: for any versions of the      *)
(* program and any number of orders.                                       *)
THEOREM EveryCycleAddsUp == LedgerSpec => []CyclesAddUp
BY LedgerInvariance, LedgerPromises, PTL

(* A reward is spent by one living order, which it names, and comes back   *)
(* with the cancellation of that order only.                               *)
THEOREM NoRewardSpentTwice == LedgerSpec => []RewardSpentOnce
BY LedgerInvariance, LedgerPromises, PTL

(* A campaign's recipient has converted exactly by the use of the          *)
(* campaign's reward, in whatever order completions and cancellations are  *)
(* projected.                                                              *)
THEOREM ConvertedByUse == LedgerSpec => []ConversionIsUse
BY LedgerInvariance, LedgerPromises, PTL

-----------------------------------------------------------------------------
(* Segments.                                                               *)

(* The greatest of two and of three numbers.                               *)
LEMMA GreatestOfTwo ==
  ASSUME NEW a \in Int, NEW b \in Int
  PROVE  Greatest({a, b}) = IF a >= b THEN a ELSE b
<1>1. \A x \in {a, b} : (\A y \in {a, b} : x >= y) => x = IF a >= b THEN a ELSE b
  OBVIOUS
<1>2. \E x \in {a, b} : \A y \in {a, b} : x >= y
  OBVIOUS
<1>3. QED
  BY <1>1, <1>2 DEF Greatest, Max

(* The greatest of three is one of them.                                   *)
LEMMA GreatestOfThree ==
  ASSUME NEW a \in Int, NEW b \in Int, NEW c \in Int
  PROVE  /\ Greatest({a, b, c}) \in {a, b, c}
         /\ Greatest({a, b, c}) >= a /\ Greatest({a, b, c}) >= b /\ Greatest({a, b, c}) >= c
<1>1. \E x \in {a, b, c} : \A y \in {a, b, c} : x >= y
  OBVIOUS
<1>2. QED
  BY <1>1 DEF Greatest, Max

(* A quotient rounded up.                                                  *)
LEMMA RoundedUp ==
  ASSUME NEW a \in Nat, NEW b \in Nat \ {0}
  PROVE  CeilDiv(a, b) \in Nat /\ a <= b * CeilDiv(a, b) /\ b * CeilDiv(a, b) < a + b
<1> DEFINE x == a + b - 1
           q == x \div b
<1>1. x \in Nat
  OBVIOUS
<1> HIDE DEF x
<1>2. q \in Int /\ x = b * q + (x % b) /\ x % b \in 0..b - 1
  BY <1>1
<1> HIDE DEF q
<1>3. b * q \in Int
  BY <1>2
<1>4. b * q <= x /\ x < b * q + b
  BY <1>1, <1>2, <1>3
<1>5. q >= 0
  <2>1. ASSUME q < 0 PROVE FALSE
    <3>1. q <= -1
      BY <1>2, <2>1
    <3>2. b * q <= -b
      BY <1>2, <3>1
    <3>3. QED
      BY <1>1, <1>3, <1>4, <3>2
  <2>2. QED
    BY <1>2, <2>1
<1>6. CeilDiv(a, b) = q
  BY DEF CeilDiv, q, x
<1>7. a <= b * q /\ b * q < a + b
  BY <1>3, <1>4 DEF x
<1>8. QED
  BY <1>2, <1>5, <1>6, <1>7

(* Of a long habit, five halves lie beyond three halves.                   *)
LEMMA HalvesApart ==
  ASSUME NEW g \in Nat, NEW i \in Nat \ {0}, CeilDiv(3 * g, 2 * i) >= 14
  PROVE  CeilDiv(5 * g, 2 * i) > CeilDiv(3 * g, 2 * i)
<1> DEFINE p == CeilDiv(3 * g, 2 * i)
           q == CeilDiv(5 * g, 2 * i)
           d == 2 * i
<1>1. d \in Nat \ {0} /\ 3 * g \in Nat /\ 5 * g \in Nat
  OBVIOUS
<1>2. p \in Nat /\ d * p < 3 * g + d /\ q \in Nat /\ 5 * g <= d * q
  <2> HIDE DEF d
  <2>1. CeilDiv(3 * g, d) \in Nat /\ d * CeilDiv(3 * g, d) < 3 * g + d
    BY <1>1, RoundedUp
  <2>2. CeilDiv(5 * g, d) \in Nat /\ 5 * g <= d * CeilDiv(5 * g, d)
    BY <1>1, RoundedUp
  <2>3. QED
    BY <2>1, <2>2 DEF d
<1>3. p >= 14
  OBVIOUS
<1> HIDE DEF p, q, d
<1>4. ASSUME q <= p PROVE FALSE
  <2>1. d * q <= d * p /\ d * 14 <= d * p /\ d * p \in Nat /\ d * q \in Nat
    BY <1>1, <1>2, <1>3, <1>4
  <2>2. 5 * g < 3 * g + d
    BY <1>1, <1>2, <2>1
  <2>3. 14 * d < 3 * g + d
    BY <1>1, <1>2, <2>1
  <2>4. QED
    BY <1>1, <2>2, <2>3
<1>5. q > p
  BY <1>2, <1>4
<1>6. QED
  BY <1>5 DEF p, q

(* The limits of the database, for a customer with a habit.                *)
InactiveLimit(gaps, intervals) == Greatest({14, CeilDiv(5 * gaps, 2 * intervals)})
CoolingLimit(gaps, intervals) == Greatest({7, CeilDiv(3 * gaps, 2 * intervals)})

(* The limits of the application are those of the database.                *)
LEMMA LimitsAgree ==
  ASSUME NEW count \in Nat, NEW gaps \in Nat, NEW intervals \in Nat
  PROVE  LET limit == Thresholds(count, gaps, intervals)
         IN  /\ limit.cooling \in Nat /\ limit.inactive \in Nat
             /\ 7 <= limit.cooling /\ limit.cooling < limit.inactive
             /\ Habit(count, gaps, intervals) =>
                  /\ limit.inactive = InactiveLimit(gaps, intervals)
                  /\ limit.cooling = CoolingLimit(gaps, intervals)
             /\ ~Habit(count, gaps, intervals) => limit.inactive = 30 /\ limit.cooling = 21
<1>1. CASE ~Habit(count, gaps, intervals)
  <2>1. (30 * 7) \div 10 = 21
    OBVIOUS
  <2>2. Greatest({7, 21}) = 21
    BY GreatestOfTwo
  <2>3. Thresholds(count, gaps, intervals) = [cooling |-> 21, inactive |-> 30]
    BY <1>1, <2>1, <2>2 DEF Thresholds, DefaultInactive
  <2>4. QED
    BY <1>1, <2>3
<1>2. CASE Habit(count, gaps, intervals)
  <2> DEFINE p == CeilDiv(3 * gaps, 2 * intervals)
             q == CeilDiv(5 * gaps, 2 * intervals)
             cooling == Greatest({7, p})
             inactive == Greatest({14, cooling + 1, q})
  <2>1. Thresholds(count, gaps, intervals) = [cooling |-> cooling, inactive |-> inactive]
    BY <1>2 DEF Thresholds
  <2>2. intervals \in Nat \ {0}
    BY <1>2 DEF Habit
  <2>3. p \in Nat /\ q \in Nat
    <3>1. 2 * intervals \in Nat \ {0} /\ 3 * gaps \in Nat /\ 5 * gaps \in Nat
      BY <2>2
    <3>2. QED
      BY <3>1, RoundedUp
  <2>4. p >= 14 => q > p
    BY <2>2, HalvesApart
  <2> HIDE DEF p, q
  <2>5. cooling = IF 7 >= p THEN 7 ELSE p
    BY <2>3, GreatestOfTwo
  <2> HIDE DEF cooling
  <2>6. cooling \in Nat /\ 7 <= cooling /\ cooling + 1 \in Int
    BY <2>3, <2>5
  <2>7. /\ inactive \in {14, cooling + 1, q}
        /\ inactive >= 14 /\ inactive >= cooling + 1 /\ inactive >= q
    <3> DEFINE next == cooling + 1
    <3>1. 14 \in Int /\ next \in Int /\ q \in Int
      BY <2>3, <2>6
    <3> HIDE DEF next
    <3>2. /\ Greatest({14, next, q}) \in {14, next, q}
          /\ Greatest({14, next, q}) >= 14 /\ Greatest({14, next, q}) >= next /\ Greatest({14, next, q}) >= q
      BY <3>1, GreatestOfThree
    <3>3. QED
      BY <3>2 DEF next
  <2> HIDE DEF inactive
  <2>8. Greatest({14, q}) = IF 14 >= q THEN 14 ELSE q
    BY <2>3, GreatestOfTwo
  <2>9. inactive \in Nat /\ inactive = IF 14 >= q THEN 14 ELSE q
    BY <2>3, <2>4, <2>5, <2>6, <2>7
  <2>10. /\ inactive = InactiveLimit(gaps, intervals)
         /\ cooling = CoolingLimit(gaps, intervals)
    BY <2>8, <2>9 DEF p, q, cooling, InactiveLimit, CoolingLimit
  <2>11. QED
    BY <1>2, <2>1, <2>6, <2>7, <2>9, <2>10
<1>3. QED
  BY <1>1, <1>2

(* How long a customer has been away.                                      *)
LEMMA TimeAway ==
  ASSUME NEW from \in Int, NEW now \in Int
  PROVE  Elapsed(from, now) = IF 0 >= now - from THEN 0 ELSE now - from
BY GreatestOfTwo DEF Elapsed

(* Application and database put a customer into the same segment.          *)
LEMMA SameSegment ==
  ASSUME NEW count \in Nat \ {0}, NEW last \in Nat, NEW gaps \in Nat, NEW intervals \in Nat,
         NEW recovered \in SUBSET Nat, NEW now \in Nat
  PROVE  DeriveSegment(count, last, gaps, intervals, recovered, now)
         = RefreshedSegment(count, last, gaps, intervals, recovered, now)
<1> DEFINE limit == Thresholds(count, gaps, intervals)
           away == Elapsed(last, now)
           derived == DeriveSegment(count, last, gaps, intervals, recovered, now)
           refreshed == RefreshedSegment(count, last, gaps, intervals, recovered, now)
<1>1. /\ count \in Nat \ {0} /\ count \in Nat /\ last \in Nat /\ gaps \in Nat /\ intervals \in Nat
      /\ recovered \in SUBSET Nat /\ now \in Nat
  OBVIOUS
<1>2. away = IF 0 >= now - last THEN 0 ELSE now - last
  BY <1>1, TimeAway
<1>3. (\E r \in recovered : Elapsed(r, now) < 30) <=> (\E r \in recovered : r > now - 30)
  <2>1. ASSUME NEW r \in recovered PROVE Elapsed(r, now) < 30 <=> r > now - 30
    <3>1. r \in Nat
      BY <1>1
    <3>2. QED
      BY <1>1, <3>1, TimeAway
  <2>2. QED
    BY <2>1
<1>4. /\ limit.cooling \in Nat /\ limit.inactive \in Nat /\ 7 <= limit.cooling /\ limit.cooling < limit.inactive
  BY <1>1, LimitsAgree
<1>5. CASE \E r \in recovered : Elapsed(r, now) < 30
  BY <1>3, <1>5 DEF DeriveSegment, RefreshedSegment, RecoveredWindow
<1>6. CASE ~\E r \in recovered : Elapsed(r, now) < 30
  <2> DEFINE kind == IF away >= limit.inactive THEN "INACTIVE"
                     ELSE IF away >= limit.cooling THEN "COOLING"
                     ELSE IF count = 1 THEN "NEW"
                     ELSE IF count = 2 THEN "RETURNING"
                     ELSE IF count >= 5 /\ intervals > 0 /\ gaps <= 14 * intervals THEN "FREQUENT"
                     ELSE "RECURRING"
  <2>1. derived = kind
    <3>1. derived = CASE away >= limit.inactive -> "INACTIVE"
             [] away \in limit.cooling .. limit.inactive - 1 -> "COOLING"
             [] away < limit.cooling /\ count <= 1 -> "NEW"
             [] away < limit.cooling /\ count = 2 -> "RETURNING"
             [] away < limit.cooling /\ count > 2 ->
                IF count >= FrequentOrders /\ intervals > 0 /\ gaps <= FrequentDays * intervals
                THEN "FREQUENT" ELSE "RECURRING"
      BY <1>6 DEF DeriveSegment, RecoveredWindow
    <3> HIDE DEF derived, limit, away
    <3>2. QED
      BY <1>1, <1>2, <1>4, <3>1 DEF FrequentOrders, FrequentDays
  <2>2. refreshed = kind
    <3> DEFINE habit == count >= 3 /\ intervals > 0 /\ gaps > 0
               inactive == IF habit THEN InactiveLimit(gaps, intervals) ELSE 30
               cooling  == IF habit THEN CoolingLimit(gaps, intervals) ELSE 21
    <3>1. inactive = limit.inactive /\ cooling = limit.cooling
      <4>1. /\ Habit(count, gaps, intervals) =>
                 /\ limit.inactive = InactiveLimit(gaps, intervals)
                 /\ limit.cooling = CoolingLimit(gaps, intervals)
            /\ ~Habit(count, gaps, intervals) => limit.inactive = 30 /\ limit.cooling = 21
        BY <1>1, LimitsAgree
      <4>2. habit <=> Habit(count, gaps, intervals)
        BY DEF Habit
      <4> HIDE DEF limit, habit
      <4>3. QED
        BY <4>1, <4>2
    <3>2. refreshed = IF \E r \in recovered : r > now - 30 THEN "RECOVERED"
      ELSE IF now - last >= inactive THEN "INACTIVE"
      ELSE IF now - last >= cooling THEN "COOLING"
      ELSE IF count = 1 THEN "NEW"
      ELSE IF count = 2 THEN "RETURNING"
      ELSE IF count >= 5 /\ intervals > 0 /\ gaps <= 14 * intervals THEN "FREQUENT"
      ELSE "RECURRING"
      BY DEF RefreshedSegment, InactiveLimit, CoolingLimit
    <3> HIDE DEF refreshed, inactive, cooling, limit, away
    <3>3. (away >= limit.inactive <=> now - last >= limit.inactive)
          /\ (away >= limit.cooling <=> now - last >= limit.cooling)
      BY <1>1, <1>2, <1>4
    <3>4. QED
      BY <1>3, <1>6, <3>1, <3>2, <3>3
  <2>3. QED
    BY <2>1, <2>2
<1>7. QED
  BY <1>5, <1>6

(* What a segment depends on.                                              *)
Situation == [count : Nat \ {0}, last : Nat, gaps : Nat, intervals : Nat, recovered : SUBSET Nat, now : Nat]

(* deriveCustomerRelationshipSegment and the refresh in SQL put a customer *)
(* who has ordered into the same segment: for any number of orders, any    *)
(* intervals, any return and any moment, with all their roundings.         *)
THEOREM SegmentsNeverDiffer == \A c \in Situation : AgreeOn(c)
<1> SUFFICES ASSUME NEW c \in Situation PROVE AgreeOn(c)
  OBVIOUS
<1>1. /\ c.count \in Nat \ {0} /\ c.last \in Nat /\ c.gaps \in Nat /\ c.intervals \in Nat
      /\ c.recovered \in SUBSET Nat /\ c.now \in Nat
  BY DEF Situation
<1>2. QED
  BY <1>1, SameSegment DEF AgreeOn

-----------------------------------------------------------------------------
(* The snapshot.                                                           *)

(* What a snapshot says of the orders it was told of.                      *)
Tells(snap) ==
  /\ snap.orders # {} /\ snap.count = Cardinality(snap.orders)
  /\ snap.total = SumFunctionOnSet(Worth, snap.orders)
  /\ \A o \in snap.orders : snap.first <= purchase[o].at /\ purchase[o].at <= snap.last
  /\ \E o \in snap.orders : purchase[o].at = snap.first
  /\ \E o \in snap.orders : purchase[o].at = snap.last
  /\ snap.intervals = snap.count - 1 /\ snap.gaps = snap.last - snap.first

SnapshotFine(snap) ==
  /\ snap \in Snapshot
  /\ \A o \in snap.orders : purchase[o].status = "DELIVERED"
  /\ IF snap.orders = {} THEN snap.count = 0 ELSE Tells(snap)

(* What the sums and counts of a set of orders are.                        *)
LEMMA OrdersCounted ==
  ASSUME NEW S \in SUBSET Purchases
  PROVE  /\ IsFiniteSet(S) /\ Cardinality(S) \in Nat /\ (Cardinality(S) = 0 <=> S = {})
         /\ Worth \in [Purchases -> Nat] /\ Worth \in [Purchases -> Int]
         /\ \A o \in Purchases : Worth[o] \in Nat
<1>1. IsFiniteSet(S)
  BY LedgerConstants, FS_Subset
<1>2. Worth \in [Purchases -> Nat] /\ Worth \in [Purchases -> Int] /\ \A o \in Purchases : Worth[o] \in Nat
  BY LedgerAssumption
<1>3. QED
  BY <1>1, <1>2, FS_EmptySet, FS_CardinalityType

(* One order more.                                                         *)
LEMMA OneOrderMore ==
  ASSUME NEW S \in SUBSET Purchases, NEW o \in Purchases, o \notin S
  PROVE  /\ S \cup {o} \in SUBSET Purchases
         /\ Cardinality(S \cup {o}) = Cardinality(S) + 1
         /\ SumFunctionOnSet(Worth, S \cup {o}) = SumFunctionOnSet(Worth, S) + Worth[o]
         /\ SumFunctionOnSet(Worth, S) \in Int
<1> DEFINE R == S \cup {o}
<1>1. R \in SUBSET Purchases /\ o \in R /\ R \ {o} = S
  OBVIOUS
<1>2. Cardinality(R) = IF o \in S THEN Cardinality(S) ELSE Cardinality(S) + 1
  BY OrdersCounted, FS_AddElement
<1> HIDE DEF R
<1>3. IsFiniteSet(R) /\ Worth \in [Purchases -> Int] /\ Worth[o] \in Nat
  BY <1>1, OrdersCounted
<1>4. SumFunctionOnSet(Worth, R) \in Int /\ SumFunctionOnSet(Worth, R) = Worth[o] + SumFunctionOnSet(Worth, R \ {o})
  BY <1>1, <1>3, SumWithout
<1>5. SumFunctionOnSet(Worth, S) \in Int
  <2>1. CASE S = {}
    BY <1>3, <2>1, SumOfNone
  <2>2. CASE S # {}
    <3>1. PICK x \in S : TRUE
      BY <2>2
    <3>2. QED
      BY <1>3, <3>1, OrdersCounted, SumWithout
  <2>3. QED
    BY <2>1, <2>2
<1>6. SumFunctionOnSet(Worth, R) = Worth[o] + SumFunctionOnSet(Worth, S)
  BY <1>1, <1>4
<1>7. SumFunctionOnSet(Worth, R) = SumFunctionOnSet(Worth, S) + Worth[o]
  BY <1>3, <1>5, <1>6
<1>8. QED
  BY <1>1, <1>2, <1>5, <1>7 DEF R

(* The sum of any orders is a number.                                      *)
LEMMA SumOfWorth ==
  ASSUME NEW S \in SUBSET Purchases
  PROVE  SumFunctionOnSet(Worth, S) \in Nat
<1> DEFINE T == {n \in 0..MaxPurchases : \A R \in SUBSET Purchases :
                   Cardinality(R) <= n => SumFunctionOnSet(Worth, R) \in Nat}
<1>1. MaxPurchases \in Nat /\ \A R \in SUBSET Purchases : Cardinality(R) \in 0..MaxPurchases
  <2>1. MaxPurchases \in Nat
    BY LedgerConstants
  <2>2. Cardinality(Purchases) = IF 1 > MaxPurchases THEN 0 ELSE MaxPurchases - 1 + 1
    BY <2>1, FS_Interval DEF Purchases
  <2>3. \A R \in SUBSET Purchases : Cardinality(R) <= Cardinality(Purchases) /\ Cardinality(R) \in Nat
    BY LedgerConstants, OrdersCounted, FS_Subset
  <2>4. Cardinality(Purchases) = MaxPurchases
    BY <2>1, <2>2
  <2>5. QED
    BY <2>1, <2>3, <2>4
<1>2. 0 \in T
  <2>1. ASSUME NEW R \in SUBSET Purchases, Cardinality(R) <= 0 PROVE SumFunctionOnSet(Worth, R) \in Nat
    <3>1. R = {}
      BY <1>1, <2>1, OrdersCounted
    <3>2. SumFunctionOnSet(Worth, {}) = 0
      BY OrdersCounted, SumOfNone
    <3>3. QED
      BY <3>1, <3>2
  <2>2. QED
    BY <1>1, <2>1
<1>3. ASSUME NEW n \in 0..MaxPurchases, n < MaxPurchases, n \in T PROVE n + 1 \in T
  <2>1. ASSUME NEW R \in SUBSET Purchases, Cardinality(R) <= n + 1 PROVE SumFunctionOnSet(Worth, R) \in Nat
    <3>1. CASE R = {}
      BY <3>1, OrdersCounted, SumOfNone
    <3>2. CASE R # {}
      <4>1. PICK o \in R : TRUE
        BY <3>2
      <4> DEFINE others == R \ {o}
      <4>2. others \in SUBSET Purchases /\ o \in Purchases /\ o \notin others /\ R = others \cup {o}
        BY <4>1
      <4> HIDE DEF others
      <4>3. Cardinality(R) = Cardinality(others) + 1 /\ SumFunctionOnSet(Worth, R) = SumFunctionOnSet(Worth, others) + Worth[o]
        BY <4>2, OneOrderMore
      <4>4. Cardinality(others) <= n
        <5>1. Cardinality(others) \in Nat
          BY <4>2, OrdersCounted
        <5>2. QED
          BY <1>1, <2>1, <4>3, <5>1
      <4>5. SumFunctionOnSet(Worth, others) \in Nat /\ Worth[o] \in Nat
        BY <1>3, <4>2, <4>4, OrdersCounted
      <4>6. QED
        BY <4>3, <4>5
    <3>3. QED
      BY <3>1, <3>2
  <2>2. QED
    BY <1>1, <1>3, <2>1
<1> HIDE DEF T
<1>4. MaxPurchases \in T
  <2>1. 0..MaxPurchases \subseteq T
    BY <1>1, <1>2, <1>3, UpTo
  <2>2. QED
    BY <1>1, <2>1
<1>5. QED
  BY <1>1, <1>4 DEF T

(* Any orders can be put into the order of their delivery.                 *)
LEMMA Sortable ==
  ASSUME LedgerTypes, NEW S \in SUBSET Purchases, \A o \in S : purchase[o].at \in 0..today
  PROVE  InOrder(S) # {}
<1> DEFINE Dated(R) == R \in SUBSET Purchases /\ \A o \in R : purchase[o].at \in 0..today
           T == {n \in 0..MaxPurchases : \A R : Dated(R) /\ Cardinality(R) <= n => InOrder(R) # {}}
<1>1. MaxPurchases \in Nat /\ \A R \in SUBSET Purchases : Cardinality(R) \in 0..MaxPurchases
  <2>1. MaxPurchases \in Nat
    BY LedgerConstants
  <2>2. Cardinality(Purchases) = IF 1 > MaxPurchases THEN 0 ELSE MaxPurchases - 1 + 1
    BY <2>1, FS_Interval DEF Purchases
  <2>3. \A R \in SUBSET Purchases : Cardinality(R) <= Cardinality(Purchases) /\ Cardinality(R) \in Nat
    BY LedgerConstants, OrdersCounted, FS_Subset
  <2>4. Cardinality(Purchases) = MaxPurchases
    BY <2>1, <2>2
  <2>5. QED
    BY <2>1, <2>3, <2>4
<1>2. 0 \in T
  <2>1. ASSUME NEW R, Dated(R), Cardinality(R) <= 0 PROVE InOrder(R) # {}
    <3>1. R = {} /\ Cardinality(R) = 0
      BY <1>1, <2>1, OrdersCounted
    <3> DEFINE q == [i \in 1..Cardinality(R) |-> i]
    <3>2. 1..Cardinality(R) = {}
      BY <3>1
    <3>3. q \in SetToSeqs(R) /\ DOMAIN q = {}
      BY <3>2 DEF SetToSeqs
    <3> HIDE DEF q
    <3>4. q \in InOrder(R)
      BY <3>3 DEF InOrder
    <3>5. QED
      BY <3>4
  <2>2. QED
    BY <1>1, <2>1
<1>3. ASSUME NEW n \in 0..MaxPurchases, n < MaxPurchases, n \in T PROVE n + 1 \in T
  <2>1. ASSUME NEW R, Dated(R), Cardinality(R) <= n + 1, R # {} PROVE InOrder(R) # {}
    <3>1. PICK x \in R : \A o \in R : purchase[o].at <= purchase[x].at
      <4> DEFINE times == {purchase[o].at : o \in R}
      <4>1. times \in SUBSET (0..today) /\ times # {} /\ today \in Nat
        BY <2>1 DEF LedgerTypes
      <4>2. \E t \in times : \A u \in times : u <= t
        <5> HIDE DEF times
        <5>1. QED
          BY <4>1, Largest
      <4>3. QED
        BY <4>2
    <3> DEFINE S0 == R \ {x}
               k == Cardinality(S0)
    <3>2. Dated(S0) /\ R = S0 \cup {x} /\ x \notin S0 /\ R \in SUBSET Purchases /\ x \in Purchases
      BY <2>1
    <3>3. Cardinality(R) = k + 1 /\ k \in Nat
      <4> HIDE DEF S0
      <4>1. Cardinality(S0 \cup {x}) = Cardinality(S0) + 1 /\ Cardinality(S0) \in Nat
        BY <3>2, OneOrderMore, OrdersCounted
      <4>2. QED
        BY <3>2, <4>1
    <3> HIDE DEF S0, k
    <3>4. k <= n
      BY <1>1, <2>1, <3>3
    <3>5. PICK q : q \in InOrder(S0)
      BY <1>3, <3>2, <3>4 DEF k
    <3>6. /\ q \in [1..k -> S0] /\ \A i, j \in 1..k : i # j => q[i] # q[j]
          /\ \A i, j \in 1..k : i < j => purchase[q[i]].at <= purchase[q[j]].at
      BY <3>5 DEF InOrder, SetToSeqs, k
    <3> DEFINE p == [i \in 1..k + 1 |-> IF i = k + 1 THEN x ELSE q[i]]
    <3>7. DOMAIN p = 1..k + 1 /\ p[k + 1] = x /\ \A i \in 1..k + 1 : i # k + 1 => i \in 1..k /\ p[i] = q[i]
      BY <3>3
    <3>8. p = [i \in 1..k + 1 |-> p[i]]
      OBVIOUS
    <3> HIDE DEF p
    <3>9. \A i \in 1..k + 1 : p[i] \in R
      BY <3>2, <3>6, <3>7
    <3>10. p \in [1..k + 1 -> R]
      BY <3>8, <3>9
    <3>11. ASSUME NEW i \in 1..k + 1, NEW j \in 1..k + 1, i # j PROVE p[i] # p[j]
      <4>1. \A m \in 1..k : q[m] # x
        BY <3>2, <3>6
      <4>2. QED
        BY <3>6, <3>7, <3>11, <4>1
    <3>12. ASSUME NEW i \in 1..k + 1, NEW j \in 1..k + 1, i < j PROVE purchase[p[i]].at <= purchase[p[j]].at
      <4>1. i # k + 1
        BY <3>3, <3>12
      <4>2. CASE j = k + 1
        BY <3>1, <3>7, <3>9, <4>2
      <4>3. CASE j # k + 1
        BY <3>6, <3>7, <3>12, <4>1, <4>3
      <4>4. QED
        BY <4>2, <4>3
    <3>13. p \in InOrder(R)
      <4>1. p \in SetToSeqs(R)
        BY <3>3, <3>10, <3>11 DEF SetToSeqs
      <4>2. QED
        BY <3>7, <3>12, <4>1 DEF InOrder
    <3>14. QED
      BY <3>13
  <2>2. ASSUME NEW R, Dated(R), R = {} PROVE InOrder(R) # {}
    <3>1. Cardinality(R) = 0
      BY <2>2, OrdersCounted
    <3>2. QED
      BY <1>2, <2>2, <3>1
  <2>3. \A R : Dated(R) /\ Cardinality(R) <= n + 1 => InOrder(R) # {}
    BY <2>1, <2>2
  <2>4. n + 1 \in 0..MaxPurchases
    BY <1>1, <1>3
  <2>5. QED
    BY <2>3, <2>4
<1> HIDE DEF T
<1>4. MaxPurchases \in T
  <2>1. 0..MaxPurchases \subseteq T
    BY <1>1, <1>2, <1>3, UpTo
  <2>2. QED
    BY <1>1, <2>1
<1>5. Dated(S) /\ Cardinality(S) <= MaxPurchases
  BY <1>1
<1>6. QED
  BY <1>4, <1>5 DEF T

(* A snapshot with seven of its columns written.                           *)
Columns(snap, orders, count, total, first, last, gaps, intervals) ==
  [snap EXCEPT !.orders = orders, !.count = count, !.total = total, !.first = first,
               !.last = last, !.intervals = intervals, !.gaps = gaps]

(* What such a snapshot is.                                                *)
LEMMA RewrittenSnapshot ==
  ASSUME NEW snap \in Snapshot, NEW orders \in SUBSET Purchases, NEW count \in Nat, NEW total \in Nat,
         NEW first \in Nat, NEW last \in Nat, NEW gaps \in Nat, NEW intervals \in Nat, NEW row,
         row = Columns(snap, orders, count, total, first, last, gaps, intervals)
  PROVE  /\ row \in Snapshot /\ row.orders = orders /\ row.count = count /\ row.total = total
         /\ row.first = first /\ row.last = last /\ row.gaps = gaps /\ row.intervals = intervals
<1> DEFINE one == [snap EXCEPT !.orders = orders]
           two == [one EXCEPT !.count = count]
           three == [two EXCEPT !.total = total]
           four == [three EXCEPT !.first = first]
           five == [four EXCEPT !.last = last]
           six == [five EXCEPT !.intervals = intervals]
           seven == [six EXCEPT !.gaps = gaps]
<1>0. row = seven
  BY Zenon DEF Columns
<1>1. one \in Snapshot /\ one.orders = orders
  BY DEF Snapshot
<1> HIDE DEF one
<1>2. two \in Snapshot /\ two.orders = orders /\ two.count = count
  BY <1>1 DEF Snapshot
<1> HIDE DEF two
<1>3. three \in Snapshot /\ three.orders = orders /\ three.count = count /\ three.total = total
  BY <1>2 DEF Snapshot
<1> HIDE DEF three
<1>4. /\ four \in Snapshot /\ four.orders = orders /\ four.count = count /\ four.total = total
      /\ four.first = first
  BY <1>3 DEF Snapshot
<1> HIDE DEF four
<1>5. /\ five \in Snapshot /\ five.orders = orders /\ five.count = count /\ five.total = total
      /\ five.first = first /\ five.last = last
  BY <1>4 DEF Snapshot
<1> HIDE DEF five
<1>6. /\ six \in Snapshot /\ six.orders = orders /\ six.count = count /\ six.total = total
      /\ six.first = first /\ six.last = last /\ six.intervals = intervals
  BY <1>5 DEF Snapshot
<1> HIDE DEF six
<1>7. /\ seven \in Snapshot /\ seven.orders = orders /\ seven.count = count /\ seven.total = total
      /\ seven.first = first /\ seven.last = last /\ seven.intervals = intervals /\ seven.gaps = gaps
  BY <1>6 DEF Snapshot
<1> HIDE DEF seven
<1>8. QED
  BY <1>0, <1>7

(* The columns that Tells is about decide it.                            *)
LEMMA FiguresAre ==
  ASSUME NEW a, NEW b, Tells(a), b.orders = a.orders, b.count = a.count, b.total = a.total,
         b.first = a.first, b.last = a.last, b.gaps = a.gaps, b.intervals = a.intervals
  PROVE  Tells(b)
BY DEF Tells

(* The segment that is derived is a segment.                               *)
LEMMA SegmentDerived ==
  ASSUME NEW count \in Nat \ {0}, NEW last \in Nat, NEW gaps \in Nat, NEW intervals \in Nat,
         NEW recovered \in SUBSET Nat, NEW now \in Nat
  PROVE  /\ DeriveSegment(count, last, gaps, intervals, recovered, now) \in Segments
         /\ RefreshedSegment(count, last, gaps, intervals, recovered, now) \in Segments
<1>1. RefreshedSegment(count, last, gaps, intervals, recovered, now) \in Segments
  BY DEF RefreshedSegment, Segments
<1>2. QED
  BY <1>1, SameSegment

(* An order that is not before the last one.                               *)
LEMMA ChronologicalTells ==
  ASSUME LedgerTypes, NEW snap \in Snapshot, Tells(snap), NEW o \in Purchases, o \notin snap.orders,
         purchase[o].at >= snap.last, \A p \in Purchases : purchase[p].at \in Nat
  PROVE  /\ Chronological(snap, o) \in Snapshot /\ Tells(Chronological(snap, o))
         /\ Chronological(snap, o).orders = snap.orders \cup {o}
<1> DEFINE t == purchase[o].at
           orders == snap.orders \cup {o}
           row == Chronological(snap, o)
<1>1. /\ snap.orders \in SUBSET Purchases /\ snap.count \in Nat /\ snap.total \in Nat
      /\ snap.first \in Nat /\ snap.last \in Nat /\ snap.gaps \in Nat /\ snap.intervals \in Nat
      /\ t \in Nat /\ Worth[o] \in Nat
  BY OrdersCounted DEF Snapshot
<1>2. snap.count \in Nat \ {0}
  BY <1>1, OrdersCounted DEF Tells
<1>3. Greatest({0, t - snap.last}) = t - snap.last /\ Greatest({1, snap.count}) = snap.count
  <2>1. Greatest({0, t - snap.last}) = IF 0 >= t - snap.last THEN 0 ELSE t - snap.last
    BY <1>1, GreatestOfTwo
  <2>2. Greatest({1, snap.count}) = IF 1 >= snap.count THEN 1 ELSE snap.count
    BY <1>2, GreatestOfTwo
  <2>3. QED
    BY <1>1, <1>2, <2>1, <2>2
<1>4. row = [snap EXCEPT !.orders = orders, !.count = snap.count + 1, !.total = snap.total + Worth[o],
                         !.last = t, !.gaps = snap.gaps + (t - snap.last), !.intervals = snap.count]
  BY <1>3 DEF Chronological
<1>5. /\ row \in Snapshot /\ row.orders = orders /\ row.count = snap.count + 1
      /\ row.total = snap.total + Worth[o] /\ row.first = snap.first /\ row.last = t
      /\ row.gaps = snap.gaps + (t - snap.last) /\ row.intervals = snap.count
  <2> HIDE DEF row
  <2> DEFINE one == [snap EXCEPT !.orders = orders]
             two == [one EXCEPT !.count = snap.count + 1]
             three == [two EXCEPT !.total = snap.total + Worth[o]]
             four == [three EXCEPT !.last = t]
             five == [four EXCEPT !.gaps = snap.gaps + (t - snap.last)]
             six == [five EXCEPT !.intervals = snap.count]
  <2>1. row = six
    BY <1>4
  <2>2. one \in Snapshot /\ one.orders = orders /\ one.first = snap.first
    BY <1>1 DEF Snapshot
  <2> HIDE DEF one
  <2>3. two \in Snapshot /\ two.orders = orders /\ two.first = snap.first /\ two.count = snap.count + 1
    BY <1>1, <2>2 DEF Snapshot
  <2> HIDE DEF two
  <2>4. /\ three \in Snapshot /\ three.orders = orders /\ three.first = snap.first /\ three.count = snap.count + 1
        /\ three.total = snap.total + Worth[o]
    BY <1>1, <2>3 DEF Snapshot
  <2> HIDE DEF three
  <2>5. /\ four \in Snapshot /\ four.orders = orders /\ four.first = snap.first /\ four.count = snap.count + 1
        /\ four.total = snap.total + Worth[o] /\ four.last = t
    BY <1>1, <2>4 DEF Snapshot
  <2> HIDE DEF four
  <2>6. /\ five \in Snapshot /\ five.orders = orders /\ five.first = snap.first /\ five.count = snap.count + 1
        /\ five.total = snap.total + Worth[o] /\ five.last = t /\ five.gaps = snap.gaps + (t - snap.last)
    <3>1. snap.gaps + (t - snap.last) \in Nat
      BY <1>1
    <3>2. QED
      BY <2>5, <3>1 DEF Snapshot
  <2> HIDE DEF five
  <2>7. /\ six \in Snapshot /\ six.orders = orders /\ six.first = snap.first /\ six.count = snap.count + 1
        /\ six.total = snap.total + Worth[o] /\ six.last = t /\ six.gaps = snap.gaps + (t - snap.last)
        /\ six.intervals = snap.count
    BY <1>1, <2>6 DEF Snapshot
  <2> HIDE DEF six
  <2>8. QED
    BY <2>1, <2>7
<1> HIDE DEF row
<1>6. Tells(row)
  <2>1. row.count = Cardinality(row.orders) /\ row.total = SumFunctionOnSet(Worth, row.orders)
    <3>1. snap.count = Cardinality(snap.orders) /\ snap.total = SumFunctionOnSet(Worth, snap.orders)
      BY DEF Tells
    <3>2. QED
      BY <1>1, <1>5, <3>1, OneOrderMore
  <2>2. \A p \in row.orders : row.first <= purchase[p].at /\ purchase[p].at <= row.last
    <3>1. \A p \in snap.orders : p \in Purchases /\ snap.first <= purchase[p].at /\ purchase[p].at <= snap.last
      BY <1>1 DEF Tells
    <3>2. snap.first <= snap.last
      BY <1>1, <3>1 DEF Tells
    <3>3. QED
      BY <1>1, <1>5, <3>1, <3>2
  <2>3. (\E p \in row.orders : purchase[p].at = row.first) /\ (\E p \in row.orders : purchase[p].at = row.last)
    <3>1. \E p \in snap.orders : purchase[p].at = snap.first
      BY DEF Tells
    <3>2. QED
      BY <1>5, <3>1
  <2>4. row.intervals = row.count - 1 /\ row.gaps = row.last - row.first
    <3>1. snap.gaps = snap.last - snap.first
      BY DEF Tells
    <3>2. QED
      BY <1>1, <1>5, <3>1
  <2>5. row.orders # {}
    BY <1>5
  <2>6. QED
    BY <2>1, <2>2, <2>3, <2>4, <2>5 DEF Tells
<1>7. QED
  BY <1>5, <1>6 DEF row

(* An order that arrives after a later one: everything is counted again.   *)
LEMMA RebuiltTells ==
  ASSUME LedgerTypes, NEW snap \in Snapshot, NEW o \in Purchases,
         \A p \in snap.orders \cup {o} : purchase[p].at \in 0..today
  PROVE  /\ Rebuilt(snap, o) \in Snapshot /\ Tells(Rebuilt(snap, o))
         /\ Rebuilt(snap, o).orders = snap.orders \cup {o}
<1> DEFINE orders == snap.orders \cup {o}
           queue == CHOOSE q \in InOrder(orders) : TRUE
           at == [i \in DOMAIN queue |-> purchase[queue[i]].at]
           n == Len(at)
           total == SumFunctionOnSet(Worth, orders)
           gaps == SumFunctionOnSet([i \in 1..n - 1 |-> at[i + 1] - at[i]], 1..n - 1)
           row == Rebuilt(snap, o)
<1>1. row = [snap EXCEPT !.orders = orders, !.count = n, !.total = total, !.first = at[1], !.last = at[n],
                         !.intervals = n - 1, !.gaps = gaps]
  BY Zenon DEF Rebuilt
<1>2. orders \in SUBSET Purchases /\ orders # {} /\ IsFiniteSet(orders) /\ Cardinality(orders) \in Nat \ {0}
  BY OrdersCounted DEF Snapshot
<1>3. queue \in InOrder(orders)
  <2>1. InOrder(orders) # {}
    BY <1>2, Sortable
  <2>2. QED
    BY <2>1
<1>4. /\ queue \in Seq(orders) /\ Len(queue) = Cardinality(orders) /\ DOMAIN queue = 1..Cardinality(orders)
      /\ \A i \in DOMAIN queue : queue[i] \in orders
      /\ \A x \in orders : \E i \in DOMAIN queue : queue[i] = x
      /\ \A i, j \in DOMAIN queue : i < j => purchase[queue[i]].at <= purchase[queue[j]].at
  <2> HIDE DEF queue, orders
  <2>1. /\ queue \in SetToSeqs(orders)
        /\ \A i, j \in DOMAIN queue : i < j => purchase[queue[i]].at <= purchase[queue[j]].at
    BY <1>3 DEF InOrder
  <2>2. queue \in [1..Cardinality(orders) -> orders]
    BY <2>1 DEF SetToSeqs
  <2>3. queue \in Seq(orders) /\ \A x \in orders : \E i \in 1..Len(queue) : queue[i] = x
    BY <1>2, <2>1, Enumerates
  <2>4. DOMAIN queue = 1..Cardinality(orders) /\ \A i \in DOMAIN queue : queue[i] \in orders
    BY <2>2
  <2>5. Len(queue) = Cardinality(orders)
    BY <1>2, <2>3, <2>4, LenProperties
  <2>6. QED
    BY <2>1, <2>3, <2>4, <2>5
<1> HIDE DEF queue
<1>5. today \in Nat
  BY DEF LedgerTypes
<1>6. /\ n = Cardinality(orders) /\ at \in [1..n -> 0..today]
      /\ \A i, j \in 1..n : i <= j => at[i] <= at[j]
      /\ \A x \in orders : \E i \in 1..n : at[i] = purchase[x].at
      /\ \A i \in 1..n : \E x \in orders : at[i] = purchase[x].at
  <2> DEFINE m == Cardinality(orders)
  <2>0. m \in Nat
    BY <1>2
  <2>1. at \in [1..m -> 0..today]
    BY <1>4
  <2>2. at \in Seq(0..today) /\ DOMAIN at = 1..m
    <3> HIDE DEF at, m
    <3>1. QED
      BY <2>0, <2>1, SeqDef
  <2>3. n = m
    <3> HIDE DEF at, m
    <3>1. DOMAIN at = 1..Len(at) /\ Len(at) \in Nat
      BY <2>2, LenProperties
    <3>2. QED
      BY <2>0, <2>2, <3>1
  <2>4. ASSUME NEW i \in 1..m, NEW j \in 1..m, i <= j PROVE at[i] <= at[j]
    <3>1. at[i] = purchase[queue[i]].at /\ at[j] = purchase[queue[j]].at /\ at[i] \in Nat
      BY <1>4, <1>5, <2>1
    <3>2. CASE i = j
      BY <3>1, <3>2
    <3>3. CASE i < j
      BY <1>4, <3>1, <3>3
    <3>4. QED
      BY <2>4, <3>2, <3>3
  <2>5. \A x \in orders : \E i \in 1..m : at[i] = purchase[x].at
    BY <1>4
  <2>6. \A i \in 1..m : \E x \in orders : at[i] = purchase[x].at
    BY <1>4
  <2> HIDE DEF at, m, orders
  <2>7. QED
    BY <2>1, <2>3, <2>4, <2>5, <2>6 DEF m
<1> HIDE DEF at, n
<1>7. n \in Nat \ {0}
  BY <1>2, <1>6
<1>8. gaps = at[n] - at[1]
  <2>1. 0..today \subseteq Int
    BY <1>5
  <2>2. at \in [1..n -> Int]
    BY <1>6, <2>1
  <2>3. QED
    BY <1>7, <2>2, SumOfSteps
<1>9. total \in Nat
  BY <1>2, SumOfWorth
<1> HIDE DEF orders, total, gaps, row
<1>10. at[1] \in Nat /\ at[n] \in Nat /\ at[1] <= at[n]
  <2>1. 1 \in 1..n /\ n \in 1..n
    BY <1>7
  <2>2. at[1] \in 0..today /\ at[n] \in 0..today /\ at[1] <= at[n]
    BY <1>6, <1>7, <2>1
  <2>3. QED
    BY <1>5, <2>2
<1>11. gaps \in Nat /\ n - 1 \in Nat
  BY <1>7, <1>8, <1>10
<1>12. /\ row \in Snapshot /\ row.orders = orders /\ row.count = n /\ row.total = total
       /\ row.first = at[1] /\ row.last = at[n] /\ row.gaps = gaps /\ row.intervals = n - 1
  <2> DEFINE first == at[1]
             last == at[n]
             intervals == n - 1
  <2>1. /\ orders \in SUBSET Purchases /\ n \in Nat /\ total \in Nat
        /\ first \in Nat /\ last \in Nat /\ gaps \in Nat /\ intervals \in Nat
    BY <1>2, <1>7, <1>9, <1>10, <1>11
  <2>2. row = Columns(snap, orders, n, total, first, last, gaps, intervals)
    BY <1>1, Zenon DEF Columns
  <2> HIDE DEF first, last, intervals
  <2>3. /\ row \in Snapshot /\ row.orders = orders /\ row.count = n /\ row.total = total
        /\ row.first = first /\ row.last = last /\ row.gaps = gaps /\ row.intervals = intervals
    BY <2>1, <2>2, RewrittenSnapshot
  <2>4. QED
    BY <2>3 DEF first, last, intervals
<1>13. Tells(row)
  <2>1. \A x \in orders : at[1] <= purchase[x].at /\ purchase[x].at <= at[n]
    BY <1>6, <1>7
  <2>2. (\E x \in orders : purchase[x].at = at[1]) /\ (\E x \in orders : purchase[x].at = at[n])
    BY <1>6, <1>7
  <2>3. QED
    BY <1>2, <1>6, <1>8, <1>12, <2>1, <2>2 DEF Tells, total
<1>14. QED
  BY <1>12, <1>13 DEF row, orders

(* Delivered orders are of the past.                                       *)
LEMMA DeliveredDates ==
  ASSUME LedgerInv
  PROVE  \A p \in Purchases : /\ purchase[p].at \in Nat
                              /\ purchase[p].status = "DELIVERED" => purchase[p].at \in 0..today
<1>1. ASSUME NEW p \in Purchases
      PROVE  purchase[p].at \in Nat /\ (purchase[p].status = "DELIVERED" => purchase[p].at \in 0..today)
  <2>1. purchase[p].at \in Nat /\ today \in Nat
    BY LedgerNow, LedgerNumbers
  <2>2. purchase[p].status = "DELIVERED" => purchase[p].at <= today
    BY LedgerNow DEF PurchasesOK
  <2>3. QED
    BY <2>1, <2>2
<1>2. QED
  BY <1>1

(* A first order.                                                          *)
LEMMA FirstTells ==
  ASSUME LedgerTypes, NEW snap, snap.count = 0, NEW o \in Purchases, purchase[o].at \in Nat
  PROVE  /\ Projected(snap, o) \in Snapshot /\ Tells(Projected(snap, o))
         /\ Projected(snap, o).orders = {o}
<1> DEFINE row == Projected(snap, o)
           t == purchase[o].at
<1>1. row = [NoSnapshot EXCEPT !.orders = {o}, !.count = 1, !.total = Worth[o], !.first = t, !.last = t]
  BY Zenon DEF Projected
<1> HIDE DEF row, t
<1>2. /\ row.orders = {o} /\ row.count = 1 /\ row.total = Worth[o] /\ row.first = t /\ row.last = t
      /\ row.gaps = 0 /\ row.intervals = 0
  BY <1>1 DEF NoSnapshot
<1>3. row \in Snapshot
  <2>1. t \in Nat /\ Worth[o] \in Nat
    BY OrdersCounted DEF t
  <2>2. QED
    BY <1>1, <2>1 DEF NoSnapshot, Snapshot, Segments
<1>4. Cardinality({o}) = 1 /\ SumFunctionOnSet(Worth, {o}) = Worth[o]
  <2>1. {} \cup {o} = {o} /\ Cardinality({}) = 0 /\ SumFunctionOnSet(Worth, {}) = 0 /\ Worth[o] \in Nat
    BY OrdersCounted, SumOfNone, FS_EmptySet
  <2>2. /\ Cardinality({} \cup {o}) = Cardinality({}) + 1
        /\ SumFunctionOnSet(Worth, {} \cup {o}) = SumFunctionOnSet(Worth, {}) + Worth[o]
    BY OneOrderMore
  <2>3. QED
    BY <2>1, <2>2
<1>5. Tells(row)
  <2>1. t \in Nat
    BY DEF t
  <2>2. QED
    BY <1>2, <1>4, <2>1 DEF Tells, t
<1>6. QED
  BY <1>2, <1>3, <1>5 DEF row

(* A segment and a return are written over the figures.                    *)
LEMMA Resegmented ==
  ASSUME NEW snap \in Snapshot, Tells(snap), NEW recovered \in SUBSET Nat, NEW segment \in Segments
  PROVE  LET row == [snap EXCEPT !.recovered = recovered, !.segment = segment]
         IN  row \in Snapshot /\ Tells(row) /\ row.orders = snap.orders
<1> DEFINE one == [snap EXCEPT !.recovered = recovered]
           two == [one EXCEPT !.segment = segment]
<1>1. /\ one \in Snapshot /\ one.orders = snap.orders /\ one.count = snap.count /\ one.total = snap.total
      /\ one.first = snap.first /\ one.last = snap.last /\ one.gaps = snap.gaps
      /\ one.intervals = snap.intervals
  BY DEF Snapshot
<1>2. [snap EXCEPT !.recovered = recovered, !.segment = segment] = two
  BY Zenon
<1> HIDE DEF one
<1>3. /\ two \in Snapshot /\ two.orders = snap.orders /\ two.count = snap.count /\ two.total = snap.total
      /\ two.first = snap.first /\ two.last = snap.last /\ two.gaps = snap.gaps
      /\ two.intervals = snap.intervals
  BY <1>1 DEF Snapshot
<1> HIDE DEF two
<1>4. Tells(two)
  BY <1>3, FiguresAre
<1>5. QED
  BY <1>2, <1>3, <1>4

(* Whatever order the projection takes in, and whenever.                   *)
LEMMA ProjectedTells ==
  ASSUME LedgerInv, NEW snap, SnapshotFine(snap), NEW o \in Purchases, o \notin snap.orders,
         purchase[o].status = "DELIVERED"
  PROVE  SnapshotFine(Projected(snap, o))
<1> DEFINE t == purchase[o].at
           before == DeriveSegment(snap.count, snap.last, snap.gaps, snap.intervals, snap.recovered, t)
           metrics == IF t >= snap.last THEN Chronological(snap, o) ELSE Rebuilt(snap, o)
           returned == IF NeedsAttention(before) THEN {t} ELSE snap.recovered
           segment == DeriveSegment(metrics.count, metrics.last, metrics.gaps, metrics.intervals, returned, t)
           row == [metrics EXCEPT !.recovered = returned, !.segment = segment]
<1>1. /\ LedgerTypes /\ snap \in Snapshot /\ snap.orders \in SUBSET Purchases
      /\ \A p \in snap.orders : purchase[p].status = "DELIVERED"
      /\ \A p \in Purchases : purchase[p].at \in Nat
      /\ \A p \in snap.orders \cup {o} : p \in Purchases /\ purchase[p].at \in 0..today
      /\ t \in Nat
  BY DeliveredDates, LedgerNow DEF SnapshotFine, Snapshot
<1>2. CASE snap.count = 0
  <2>1. snap.orders = {}
    BY <1>1, <1>2, OrdersCounted DEF SnapshotFine, Tells
  <2>2. QED
    BY <1>1, <1>2, FirstTells DEF SnapshotFine
<1>3. CASE snap.count # 0
  <2>1. Tells(snap)
    BY <1>3 DEF SnapshotFine
  <2>2. metrics \in Snapshot /\ Tells(metrics) /\ metrics.orders = snap.orders \cup {o}
    <3>1. CASE t >= snap.last
      BY <1>1, <2>1, <3>1, ChronologicalTells
    <3>2. CASE ~(t >= snap.last)
      BY <1>1, <2>1, <3>2, RebuiltTells
    <3>3. QED
      BY <3>1, <3>2
  <2>3. returned \in SUBSET Nat
    BY <1>1 DEF Snapshot
  <2>4. Projected(snap, o) = row
    BY <1>3, Zenon DEF Projected
  <2> HIDE DEF metrics, returned, t
  <2>5. segment \in Segments
    <3>1. /\ metrics.count \in Nat /\ metrics.last \in Nat /\ metrics.gaps \in Nat /\ metrics.intervals \in Nat
          /\ metrics.orders \in SUBSET Purchases
      BY <2>2 DEF Snapshot
    <3>2. metrics.count \in Nat \ {0}
      BY <2>2, <3>1, OrdersCounted DEF Tells
    <3>3. QED
      BY <1>1, <2>3, <3>1, <3>2, SegmentDerived
  <2> HIDE DEF segment
  <2>6. row \in Snapshot /\ Tells(row) /\ row.orders = metrics.orders
    BY <2>2, <2>3, <2>5, Resegmented
  <2> HIDE DEF row
  <2>7. QED
    BY <1>1, <2>2, <2>4, <2>6 DEF SnapshotFine
<1>4. QED
  BY <1>2, <1>3

(* What the relationship takes of an order.                                *)
LEMMA RelateTells ==
  ASSUME LedgerInv, NEW rel, SnapshotFine(rel.snapshot), NEW o \in Purchases
  PROVE  SnapshotFine(Relate(rel, o).snapshot)
<1>1. CASE purchase[o].status = "DELIVERED" /\ purchase[o].paid /\ o \notin rel.snapshot.orders
  <2>1. Relate(rel, o).snapshot = Projected(rel.snapshot, o)
    BY <1>1 DEF Relate
  <2>2. QED
    BY <1>1, <2>1, ProjectedTells
<1>2. CASE ~(purchase[o].status = "DELIVERED" /\ purchase[o].paid /\ o \notin rel.snapshot.orders)
  <2>1. Relate(rel, o) = rel
    BY <1>2, Zenon DEF Relate
  <2>2. QED
    BY <2>1
<1>3. QED
  BY <1>1, <1>2

(* Of any number of orders, one after the other.                           *)
LEMMA RelatedTells ==
  ASSUME LedgerInv, SnapshotFine(snapshot), NEW queue \in Seq(Purchases)
  PROVE  SnapshotFine(Related(queue)[Len(queue)].snapshot)
<1> DEFINE n == Len(queue)
           Right(i) == SnapshotFine(Related(queue)[i].snapshot)
           T == {i \in 0..n : Right(i)}
<1>1. n \in Nat /\ \A j \in 1..n : queue[j] \in Purchases
  BY LenProperties, ElementOfSeq
<1>2. 0 \in T
  <2>1. Relationship.snapshot = snapshot
    BY DEF Relationship
  <2>2. Right(0)
    BY <2>1, RelatedAlong
  <2>3. QED
    BY <1>1, <2>2
<1>3. ASSUME NEW i \in 0..n, i < n, i \in T PROVE i + 1 \in T
  <2>1. i + 1 \in 1..n /\ i + 1 \in 0..n /\ (i + 1) - 1 = i /\ i \in Nat
    BY <1>1, <1>3
  <2>2. Related(queue)[i + 1] = Relate(Related(queue)[i], queue[i + 1]) /\ queue[i + 1] \in Purchases
    BY <1>1, <2>1, RelatedAlong
  <2>3. Right(i + 1)
    BY <1>3, <2>2, RelateTells
  <2> HIDE DEF Right
  <2>4. QED
    BY <2>1, <2>3
<1>4. n \in T
  <2> HIDE DEF T
  <2>1. 0..n \subseteq T
    BY <1>1, <1>2, <1>3, UpTo
  <2>2. QED
    BY <1>1, <2>1
<1>5. QED
  BY <1>4

(* A page refreshes the segment only.                                      *)
LEMMA RefreshedTells ==
  ASSUME NEW snap, SnapshotFine(snap), NEW now \in Nat
  PROVE  SnapshotFine(Refreshed(snap, now))
<1>1. CASE snap.count = 0
  <2>1. Refreshed(snap, now) = snap
    BY <1>1 DEF Refreshed
  <2>2. QED
    BY <2>1
<1>2. CASE snap.count # 0
  <2> DEFINE segment == RefreshedSegment(snap.count, snap.last, snap.gaps, snap.intervals, snap.recovered, now)
             one == [snap EXCEPT !.segment = segment]
  <2>1. /\ snap \in Snapshot /\ Tells(snap) /\ snap.recovered \in SUBSET Nat /\ snap.count \in Nat \ {0}
        /\ snap.last \in Nat /\ snap.gaps \in Nat /\ snap.intervals \in Nat
    BY <1>2 DEF SnapshotFine, Snapshot
  <2>2. Refreshed(snap, now) = one
    BY <1>2, Zenon DEF Refreshed
  <2>3. segment \in Segments
    BY <2>1, SegmentDerived
  <2> HIDE DEF segment
  <2>4. /\ one \in Snapshot /\ one.orders = snap.orders /\ one.count = snap.count /\ one.total = snap.total
        /\ one.first = snap.first /\ one.last = snap.last /\ one.gaps = snap.gaps
        /\ one.intervals = snap.intervals
    BY <2>1, <2>3 DEF Snapshot
  <2> HIDE DEF one
  <2>5. Tells(one)
    BY <2>1, <2>4, FiguresAre
  <2>6. QED
    BY <2>2, <2>4, <2>5 DEF SnapshotFine
<1>3. QED
  BY <1>1, <1>2

(* What keeps the delivered orders as they are keeps the snapshot right.   *)
LEMMA SnapshotStays ==
  ASSUME NEW snap, SnapshotFine(snap), snapshot' = snap,
         \A p \in Purchases : purchase[p].status = "DELIVERED" =>
           purchase'[p].status = "DELIVERED" /\ purchase'[p].at = purchase[p].at
  PROVE  SnapshotFine(snapshot)'
<1>1. /\ snap \in Snapshot
      /\ \A p \in snap.orders : /\ purchase[p].status = "DELIVERED" /\ purchase'[p].status = "DELIVERED"
                                /\ purchase'[p].at = purchase[p].at
  BY DEF SnapshotFine, Snapshot
<1>2. CASE snap.orders = {}
  BY <1>1, <1>2 DEF SnapshotFine
<1>3. CASE snap.orders # {}
  <2>1. Tells(snap)
    BY <1>3 DEF SnapshotFine
  <2>2. /\ \A p \in snap.orders : snap.first <= purchase'[p].at /\ purchase'[p].at <= snap.last
        /\ \E p \in snap.orders : purchase'[p].at = snap.first
        /\ \E p \in snap.orders : purchase'[p].at = snap.last
    BY <1>1, <2>1 DEF Tells
  <2>3. Tells(snapshot)'
    BY <2>1, <2>2 DEF Tells
  <2>4. QED
    BY <1>1, <1>3, <2>3 DEF SnapshotFine
<1>4. QED
  BY <1>2, <1>3

(* One order changes and stays delivered, if it was.                       *)
LEMMA OrderChanges ==
  ASSUME LedgerTypes, SnapshotFine(snapshot), UNCHANGED snapshot, NEW o \in Purchases, NEW row,
         purchase' = [purchase EXCEPT ![o] = row],
         purchase[o].status = "DELIVERED" => row.status = "DELIVERED" /\ row.at = purchase[o].at
  PROVE  SnapshotFine(snapshot)'
<1>1. \A p \in Purchases : purchase'[p] = IF p = o THEN row ELSE purchase[p]
  BY DEF LedgerTypes
<1>2. PICK snap : snap = snapshot
  OBVIOUS
<1>3. QED
  BY <1>1, <1>2, SnapshotStays

(* The snapshot is rewritten and the orders are left alone.                *)
LEMMA SnapshotWritten ==
  ASSUME NEW snap, SnapshotFine(snap), snapshot' = snap, UNCHANGED purchase
  PROVE  SnapshotFine(snapshot)'
BY SnapshotStays

(* A snapshot with the orders it was told of is what their history says.   *)
LEMMA TellsHistory ==
  ASSUME LedgerInv, SnapshotFine(snapshot)
  PROVE  SnapshotMatchesHistory
<1> DEFINE at == {purchase[o].at : o \in snapshot.orders}
<1> SUFFICES ASSUME snapshot.orders # {}
             PROVE  /\ snapshot.count = Cardinality(snapshot.orders)
                    /\ snapshot.total = SumFunctionOnSet(Worth, snapshot.orders)
                    /\ snapshot.first = Min(at) /\ snapshot.last = Max(at)
                    /\ snapshot.intervals = snapshot.count - 1 /\ snapshot.gaps = Max(at) - Min(at)
  BY DEF SnapshotMatchesHistory
<1>1. Tells(snapshot) /\ snapshot \in Snapshot
  BY DEF SnapshotFine
<1>2. snapshot.orders \subseteq Purchases /\ snapshot.first \in Nat /\ snapshot.last \in Nat
  BY <1>1 DEF Snapshot
<1>3. /\ \A x \in at : x \in Nat /\ snapshot.first <= x /\ x <= snapshot.last
      /\ snapshot.first \in at /\ snapshot.last \in at
  BY <1>1, <1>2, DeliveredDates DEF Tells
<1> HIDE DEF at
<1>4. Min(at) = snapshot.first
  <2>1. Min(at) \in at /\ \A y \in at : Min(at) <= y
    BY <1>3 DEF Min
  <2>2. QED
    BY <1>2, <1>3, <2>1
<1>5. Max(at) = snapshot.last
  <2>1. Max(at) \in at /\ \A y \in at : Max(at) >= y
    BY <1>3 DEF Max
  <2>2. QED
    BY <1>2, <1>3, <2>1
<1>6. QED
  BY <1>1, <1>4, <1>5 DEF Tells

(* The rest of the ledger's types.                                         *)
TellsInv == LedgerInv /\ SnapshotFine(snapshot) /\ today \in Days \cup {0} /\ verified \in BOOLEAN

(* At first there are no orders to tell of.                                *)
LEMMA TellsStarts == LedgerInit => TellsInv
<1> SUFFICES ASSUME LedgerInit PROVE TellsInv
  OBVIOUS
<1>1. snapshot = NoSnapshot /\ today = 0 /\ verified \in BOOLEAN
  BY DEF LedgerInit
<1>2. NoSnapshot \in Snapshot /\ NoSnapshot.orders = {} /\ NoSnapshot.count = 0
  BY DEF NoSnapshot, Snapshot, Segments
<1>3. SnapshotFine(snapshot)
  BY <1>1, <1>2 DEF SnapshotFine
<1>4. QED
  BY <1>1, <1>3, LedgerStarts DEF TellsInv

(* What a claim takes the orders in by.                                    *)
LEMMA RelationshipClaimTells ==
  ASSUME LedgerInv, SnapshotFine(snapshot), ClaimRelationship
  PROVE  SnapshotFine(snapshot)'
<1> DEFINE S == Delivered \ snapshot.orders
<1>1. PICK queue \in InOrder(S) : snapshot' = Related(queue)[Len(queue)].snapshot /\ UNCHANGED purchase
  BY DEF ClaimRelationship
<1>2. S \subseteq Purchases /\ IsFiniteSet(S)
  <2>1. S \subseteq Purchases
    BY DEF Delivered
  <2>2. QED
    BY <2>1, LedgerConstants, FS_Subset
<1>3. queue \in Seq(Purchases)
  <2>1. queue \in SetToSeqs(S)
    BY <1>1 DEF InOrder
  <2> HIDE DEF S
  <2>2. queue \in Seq(S)
    BY <1>2, <2>1, Enumerates
  <2>3. \A s \in Seq(S) : s \in Seq(Purchases)
    BY <1>2, SeqDef
  <2>4. QED
    BY <2>2, <2>3
<1>4. PICK snap : snap = Related(queue)[Len(queue)].snapshot
  OBVIOUS
<1>5. SnapshotFine(snap)
  BY <1>3, <1>4, RelatedTells
<1>6. QED
  BY <1>1, <1>4, <1>5, SnapshotWritten

(* Every step leaves the snapshot right.                                   *)
LEMMA SnapshotSteps ==
  ASSUME LedgerInv, SnapshotFine(snapshot), [LedgerNext]_ledgerVars
  PROVE  SnapshotFine(snapshot)'
<1>1. ASSUME UNCHANGED <<purchase, snapshot>> PROVE SnapshotFine(snapshot)'
  <2>1. PICK snap : snap = snapshot
    OBVIOUS
  <2>2. QED
    BY <1>1, <2>1, SnapshotWritten
<1>2. ASSUME NEW required \in Required, NEW validity \in Validities, NEW active \in BOOLEAN,
             SaveProgram(required, validity, active)
      PROVE  SnapshotFine(snapshot)'
  BY <1>1, <1>2 DEF SaveProgram
<1>3. ASSUME NEW o \in Purchases, NEW r \in 0..Len(cycle), Checkout(o, r) PROVE SnapshotFine(snapshot)'
  <2>1. /\ purchase[o].status = "NONE" /\ UNCHANGED snapshot
        /\ purchase' = [purchase EXCEPT ![o].status = "OPEN", ![o].reward = r]
    BY <1>3 DEF Checkout
  <2> DEFINE row == [purchase[o] EXCEPT !.status = "OPEN", !.reward = r]
  <2>2. purchase' = [purchase EXCEPT ![o] = row]
    BY <2>1, LedgerNow, Zenon DEF LedgerTypes
  <2> HIDE DEF row
  <2>3. QED
    BY <2>1, <2>2, LedgerNow, OrderChanges
<1>4. ASSUME NEW o \in Purchases, Deliver(o) PROVE SnapshotFine(snapshot)'
  <2>1. PICK t : /\ purchase[o].status = "OPEN" /\ UNCHANGED snapshot
                 /\ purchase' = [purchase EXCEPT ![o].status = "DELIVERED", ![o].at = t, ![o].paid = TRUE,
                                        ![o].due = \E i \in DOMAIN program : program[i].active]
    BY <1>4 DEF Deliver
  <2> DEFINE due == \E i \in DOMAIN program : program[i].active
             row == [purchase[o] EXCEPT !.status = "DELIVERED", !.at = t, !.paid = TRUE, !.due = due]
  <2>2. purchase' = [purchase EXCEPT ![o].status = "DELIVERED", ![o].at = t, ![o].paid = TRUE, ![o].due = due]
    BY <2>1
  <2> HIDE DEF due
  <2>3. purchase' = [purchase EXCEPT ![o] = row]
    BY <2>2, LedgerNow, Zenon DEF LedgerTypes
  <2> HIDE DEF row
  <2>4. QED
    BY <2>1, <2>3, LedgerNow, OrderChanges
<1>5. ASSUME NEW o \in Purchases, Refund(o) PROVE SnapshotFine(snapshot)'
  <2> DEFINE row == [purchase[o] EXCEPT !.paid = FALSE]
  <2>1. purchase' = [purchase EXCEPT ![o] = row] /\ UNCHANGED snapshot
    BY <1>5 DEF Refund
  <2>2. purchase[o] \in Purchase
    BY LedgerNow DEF LedgerTypes
  <2>3. row.status = purchase[o].status /\ row.at = purchase[o].at
    BY <2>2 DEF Purchase
  <2> HIDE DEF row
  <2>4. QED
    BY <2>1, <2>3, LedgerNow, OrderChanges
<1>6. ASSUME NEW o \in Purchases, NEW by \in {"STAFF", "GATEWAY"}, CancelPurchase(o, by)
      PROVE  SnapshotFine(snapshot)'
  <2> DEFINE row == [purchase[o] EXCEPT !.status = "CANCELLED", !.by = by]
  <2>1. /\ purchase[o].status = "OPEN" /\ UNCHANGED snapshot
        /\ purchase' = [purchase EXCEPT ![o].status = "CANCELLED", ![o].by = by]
    BY <1>6 DEF CancelPurchase
  <2>2. purchase' = [purchase EXCEPT ![o] = row]
    BY <2>1, LedgerNow, Zenon DEF LedgerTypes
  <2> HIDE DEF row
  <2>3. QED
    BY <2>1, <2>2, LedgerNow, OrderChanges
<1>7. ASSUME NEW o \in Purchases, ProjectCompletion(o) PROVE SnapshotFine(snapshot)'
  <2>1. CASE verified
    <3>1. UNCHANGED purchase /\ snapshot' = Relate(Relationship, o).snapshot
      BY <1>7, <2>1 DEF ProjectCompletion
    <3>2. PICK snap : snap = Relate(Relationship, o).snapshot
      OBVIOUS
    <3>3. Relationship.snapshot = snapshot
      BY DEF Relationship
    <3>4. SnapshotFine(snap)
      BY <3>2, <3>3, RelateTells
    <3>5. QED
      BY <3>1, <3>2, <3>4, SnapshotWritten
  <2>2. CASE ~verified
    BY <1>1, <1>7, <2>2 DEF ProjectCompletion
  <2>3. QED
    BY <2>1, <2>2
<1>8. ASSUME NEW o \in Purchases, ProjectCancellation(o) PROVE SnapshotFine(snapshot)'
  BY <1>1, <1>8 DEF ProjectCancellation
<1>9. CASE ConfirmIdentity
  BY <1>1, <1>9 DEF ConfirmIdentity
<1>10. CASE ClaimLoyalty
  BY <1>1, <1>10 DEF ClaimLoyalty
<1>11. CASE ClaimRelationship
  BY <1>11, RelationshipClaimTells
<1>12. CASE StartCampaign
  <2>1. PICK t \in Days : snapshot' = Refreshed(snapshot, t) /\ UNCHANGED purchase
    BY <1>12 DEF StartCampaign
  <2>2. PICK snap : snap = Refreshed(snapshot, t)
    OBVIOUS
  <2>3. SnapshotFine(snap)
    BY <2>1, <2>2, LedgerConstants, RefreshedTells
  <2>4. QED
    BY <2>1, <2>2, <2>3, SnapshotWritten
<1>13. CASE ReadRewards
  BY <1>1, <1>13 DEF ReadRewards
<1>14. CASE ReadCampaigns
  <2>1. snapshot' = Refreshed(snapshot, today) /\ UNCHANGED purchase
    BY <1>14 DEF ReadCampaigns
  <2>2. PICK snap : snap = Refreshed(snapshot, today)
    OBVIOUS
  <2>3. SnapshotFine(snap)
    BY <2>2, LedgerNow, RefreshedTells
  <2>4. QED
    BY <2>1, <2>2, <2>3, SnapshotWritten
<1>15. CASE UNCHANGED ledgerVars
  BY <1>1, <1>15 DEF ledgerVars
<1>16. QED
  BY <1>2, <1>3, <1>4, <1>5, <1>6, <1>7, <1>8, <1>9, <1>10, <1>11, <1>12, <1>13, <1>14, <1>15
  DEF LedgerNext

(* The clock of the store and the customer's link to an identity.          *)
LEMMA ClockStep ==
  ASSUME today \in Days \cup {0}, verified \in BOOLEAN, [LedgerNext]_ledgerVars
  PROVE  today' \in Days \cup {0} /\ verified' \in BOOLEAN
<1>1. ASSUME today' = today \/ today' \in Days, verified' = verified \/ verified' = TRUE
      PROVE  today' \in Days \cup {0} /\ verified' \in BOOLEAN
  BY <1>1
<1>2. CASE \E required \in Required, validity \in Validities, active \in BOOLEAN :
             SaveProgram(required, validity, active)
  BY <1>1, <1>2 DEF SaveProgram, Later
<1>3. CASE \E o \in Purchases : \/ \E r \in 0..Len(cycle) : Checkout(o, r)
                                \/ Refund(o) \/ \E by \in {"STAFF", "GATEWAY"} : CancelPurchase(o, by)
                                \/ ProjectCompletion(o) \/ ProjectCancellation(o)
  BY <1>1, <1>3 DEF Checkout, Refund, CancelPurchase, ProjectCompletion, ProjectCancellation
<1>4. CASE \E o \in Purchases : Deliver(o)
  BY <1>1, <1>4 DEF Deliver, Later
<1>5. CASE ConfirmIdentity \/ ClaimLoyalty \/ ClaimRelationship \/ ReadCampaigns
  BY <1>1, <1>5 DEF ConfirmIdentity, ClaimLoyalty, ClaimRelationship, ReadCampaigns
<1>6. CASE StartCampaign
  BY <1>1, <1>6 DEF StartCampaign, Later
<1>7. CASE ReadRewards
  BY <1>1, <1>7 DEF ReadRewards
<1>8. CASE UNCHANGED ledgerVars
  BY <1>1, <1>8 DEF ledgerVars
<1>9. QED
  BY <1>2, <1>3, <1>4, <1>5, <1>6, <1>7, <1>8 DEF LedgerNext

(* Every step of the ledger keeps the snapshot and the types right.        *)
LEMMA TellsSteps == TellsInv /\ [LedgerNext]_ledgerVars => TellsInv'
<1> SUFFICES ASSUME TellsInv, [LedgerNext]_ledgerVars PROVE TellsInv'
  OBVIOUS
<1>1. LedgerInv'
  BY LedgerSteps DEF TellsInv
<1>2. SnapshotFine(snapshot)'
  BY SnapshotSteps DEF TellsInv
<1>3. today' \in Days \cup {0} /\ verified' \in BOOLEAN
  BY ClockStep DEF TellsInv
<1>4. QED
  BY <1>1, <1>2, <1>3 DEF TellsInv

(* The types of the ledger.                                                *)
LEMMA TellsTypes == TellsInv => LedgerTypeOK
<1> SUFFICES ASSUME TellsInv PROVE LedgerTypeOK
  OBVIOUS
<1>1. /\ settled \subseteq Purchases /\ program \in Seq(Program) /\ campaign \in Seq(Campaign)
      /\ purchase \in [Purchases -> Purchase]
  BY LedgerNow DEF TellsInv, LedgerTypes
<1>2. cycle \in Seq(Cycle) /\ credit \in [Purchases -> 0..Len(cycle)]
  BY LedgerNow DEF TellsInv, BooksOK
<1>3. \A o \in Purchases : purchase[o].reward <= Len(cycle)
  BY LedgerNow DEF TellsInv, PurchasesOK
<1>4. \A k \in DOMAIN campaign : campaign[k].reward \in DOMAIN cycle
  BY DEF TellsInv, LedgerInv, CampaignFine
<1>5. snapshot \in Snapshot /\ today \in Days \cup {0} /\ verified \in BOOLEAN
  BY DEF TellsInv, SnapshotFine
<1>6. QED
  BY <1>1, <1>2, <1>3, <1>4, <1>5 DEF LedgerTypeOK

(* The ledger, the snapshot and the campaigns have the types given to them *)
(* in every reachable state.                                               *)
THEOREM LedgerTypeInvariance == LedgerSpec => []LedgerTypeOK
BY TellsStarts, TellsSteps, TellsTypes, PTL DEF LedgerSpec

(* The snapshot is a function of the orders it took in: count, total, first*)
(* and last order and the sum of the gaps are those of their history, no   *)
(* matter in which order, how often and how late completions are projected *)
(* and claims made (nextAverageDays, rebuildSnapshotMetrics).              *)
THEOREM SnapshotIsHistory == LedgerSpec => []SnapshotMatchesHistory
<1>1. TellsInv => SnapshotMatchesHistory
  BY TellsHistory DEF TellsInv
<1>2. QED
  BY <1>1, TellsStarts, TellsSteps, PTL DEF LedgerSpec
=============================================================================
