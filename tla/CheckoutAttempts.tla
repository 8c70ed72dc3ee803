--------------------------- MODULE CheckoutAttempts ---------------------------
(***************************************************************************)
(* A shopper's checkout from the first confirmation to the order: the key  *)
(* that names an attempt, kept in memory and, where the browser allows it, *)
(* in the session storage, answers that never come, quotes that change and *)
(* payments that fail. The browser's print of an attempt is its cart and   *)
(* the quote it confirms; the server's adds what the browser may not keep, *)
(* here the notes. A quote is a cart and the price it had; createOrder is  *)
(* one serializable step under the lock of the key.                        *)
(***************************************************************************)
EXTENDS Sequences, SequencesExt, FiniteSetsExt

CONSTANTS
  Carts,       \* what can be ordered
  Notes,       \* what can be written beside it
  Prices,      \* what the catalogue can ask for a cart
  MaxSubmits   \* bound: confirmations, one more for every one forgotten

ASSUME AttemptsAssumption == MaxSubmits \in Nat

VARIABLES
  shopper,     \* the form, what it shows and the records of its attempt
  requests,    \* confirmations on their way: places in the log
  answer,      \* the answer on its way, at most one
  placed,      \* the orders created
  asked,       \* the price in force
  log          \* what the shopper confirmed, and where an attempt was forgotten

attemptVars == <<shopper, requests, answer, placed, asked, log>>

Quote == [cart : Carts, price : Prices]
Attempt == [cart : Carts, notes : Notes, seen : Quote, key : Nat]
Forgotten == [forgotten |-> TRUE]
Record == [key : Nat, print : [cart : Carts, seen : Quote]]
Results == {"OK", "QUOTE_CHANGED", "CART_INVALID", "PAYMENT_CREATION_FAILED"}
Shopper == [cart : Carts, notes : Notes, quote : Quote, accepted : SUBSET Quote, changed : SUBSET Quote,
            phase : {"ready", "waiting", "done"}, storage : BOOLEAN,
            memory : SUBSET Record, stored : SUBSET Record, lost : BOOLEAN, told : SUBSET Nat]

AttemptsTypeOK ==
  /\ shopper \in Shopper
  /\ requests \subseteq DOMAIN log /\ asked \in Prices /\ log \in Seq(Attempt \cup {Forgotten})
  /\ answer \subseteq [result : Results, key : Nat, quote : Quote]
  /\ placed \subseteq [attempt : Attempt, live : BOOLEAN]

AttemptsInit ==
  /\ \E cart \in Carts, notes \in Notes, price \in Prices, storage \in BOOLEAN :
       /\ asked = price
       /\ shopper = [cart |-> cart, notes |-> notes, quote |-> [cart |-> cart, price |-> price],
                     accepted |-> {}, changed |-> {}, phase |-> "ready", storage |-> storage,
                     memory |-> {}, stored |-> {}, lost |-> FALSE, told |-> {}]
  /\ requests = {} /\ answer = {} /\ placed = {} /\ log = <<>>

Submitted == Len(SelectSeq(log, LAMBDA a : a # Forgotten))
Latest == log[Len(log)]

(*------------------------------- The form --------------------------------*)
ChangePrice == \E price \in Prices \ {asked} :
  asked' = price /\ UNCHANGED <<shopper, requests, answer, placed, log>>

(* A quote may still be that of the cart before: it is asked for after a   *)
(* pause, and the confirmation does not wait for it to begin.              *)
EditCart == \E cart \in Carts \ {shopper.cart} :
  /\ shopper.phase = "ready"
  /\ shopper' = [shopper EXCEPT !.cart = cart, !.accepted = {}, !.changed = {}]
  /\ UNCHANGED <<requests, answer, placed, asked, log>>

EditNotes == \E notes \in Notes \ {shopper.notes} :
  /\ shopper.phase = "ready"
  /\ shopper' = [shopper EXCEPT !.notes = notes]
  /\ UNCHANGED <<requests, answer, placed, asked, log>>

RefreshQuote ==
  /\ shopper.phase # "done"
  /\ shopper' = [shopper EXCEPT !.quote = [cart |-> shopper.cart, price |-> asked]]
  /\ UNCHANGED <<requests, answer, placed, asked, log>>

(* Only the storage outlives the page, the memory and a changed quote.     *)
Forget(s) == log' = IF s.storage \/ s.memory = {} THEN log ELSE Append(log, Forgotten)

AcceptChange ==
  /\ shopper.phase = "ready" /\ shopper.changed # {}
  /\ shopper' = [shopper EXCEPT !.accepted = shopper.changed, !.changed = {}, !.memory = {}]
  /\ Forget(shopper)
  /\ UNCHANGED <<requests, answer, placed, asked>>

Reload ==
  /\ shopper.phase # "done"
  /\ shopper' = [shopper EXCEPT !.quote = [cart |-> shopper.cart, price |-> asked], !.accepted = {},
                                !.changed = {}, !.phase = "ready", !.memory = {},
                                !.lost = shopper.lost \/ shopper.phase = "waiting"]
  /\ answer' = {} /\ Forget(shopper)
  /\ UNCHANGED <<requests, placed, asked>>

(*---------------------------- The confirmation ---------------------------*)
EffectiveQuote(s) == IF s.accepted # {} THEN CHOOSE q \in s.accepted : TRUE ELSE s.quote
PrintOf(s) == [cart |-> s.cart, seen |-> EffectiveQuote(s)]

(* Faulty: what is stored is not looked at.                                *)
KnownInMemory(s) == {r \in s.memory : r.print = PrintOf(s)}

(* resolveCheckoutIdempotency: the record in memory, or else the stored    *)
(* one, when it is of the same attempt.                                    *)
Known(s) ==
  LET same(records) == {r \in records : r.print = PrintOf(s)}
  IN  IF same(s.memory) # {} THEN same(s.memory) ELSE same(s.stored)

(* handleValidSubmit. A key is the place in the log of the confirmation    *)
(* that made it.                                                           *)
Submit ==
  /\ shopper.phase = "ready" /\ shopper.changed = {} /\ Submitted < MaxSubmits
  /\ LET known   == Known(shopper)
         records == IF known = {} THEN {[key |-> Len(log) + 1, print |-> PrintOf(shopper)]} ELSE known
         writes  == known = {} /\ shopper.storage
     IN  \E record \in records :
           /\ log' = Append(log, [cart |-> shopper.cart, notes |-> shopper.notes,
                                  seen |-> EffectiveQuote(shopper), key |-> record.key])
           /\ shopper' = [shopper EXCEPT !.phase = "waiting", !.memory = {record},
                                         !.stored = IF writes THEN {record} ELSE @]
  /\ requests' = requests \cup {Len(log) + 1}
  /\ UNCHANGED <<answer, placed, asked>>

(* The shopper hears nothing; the request may be lost, or still arrive.    *)
LoseAnswer ==
  /\ shopper.phase = "waiting"
  /\ shopper' = [shopper EXCEPT !.phase = "ready", !.lost = TRUE]
  /\ answer' = {}
  /\ UNCHANGED <<requests, placed, asked, log>>

(*------------------------------ createOrder ------------------------------*)
Fingerprint(a) == [cart |-> a.cart, notes |-> a.notes, seen |-> a.seen]

(* assertMatchingOrderFingerprint                                          *)
Matches(order, attempt) == Fingerprint(order.attempt) = Fingerprint(attempt)

(* The order that holds the key, or a new one when the quote still stands; *)
(* an online payment may be refused, which cancels the order it is for.    *)
Serve ==
  \E n \in requests :
    LET attempt  == log[n]
        existing == {o \in placed : o.attempt.key = attempt.key}
        current  == [cart |-> attempt.cart, price |-> asked]
        Answers(result) ==
          answer' = IF shopper.phase = "waiting" /\ n = Len(log)
                    THEN {[result |-> result, key |-> attempt.key, quote |-> current]} ELSE answer
        Outcome(live) == Answers(IF live THEN "OK" ELSE "PAYMENT_CREATION_FAILED")
    IN  /\ requests' = requests \ {n}
        /\ UNCHANGED <<shopper, asked, log>>
        /\ \/ \E o \in existing : ~Matches(o, attempt) /\ Answers("CART_INVALID") /\ UNCHANGED placed
           \/ \E o \in existing : Matches(o, attempt) /\ Outcome(o.live) /\ UNCHANGED placed
           \/ existing = {} /\ attempt.seen # current /\ Answers("QUOTE_CHANGED") /\ UNCHANGED placed
           \/ \E live \in BOOLEAN :
                /\ existing = {} /\ attempt.seen = current
                /\ placed' = placed \cup {[attempt |-> attempt, live |-> live]}
                /\ Outcome(live)

(*------------------------------- The answer ------------------------------*)
Receive ==
  /\ shopper.phase = "waiting"
  /\ answer' = {}
  /\ \E a \in answer :
       shopper' =
         CASE a.result = "OK" ->
                [shopper EXCEPT !.phase = "done", !.memory = {}, !.stored = {}, !.told = {a.key}]
           [] a.result = "QUOTE_CHANGED" ->
                [shopper EXCEPT !.phase = "ready", !.changed = {a.quote}, !.accepted = {}]
           [] a.result = "PAYMENT_CREATION_FAILED" ->
                [shopper EXCEPT !.phase = "ready", !.memory = {}, !.stored = {}]
           [] OTHER -> [shopper EXCEPT !.phase = "ready"]
  /\ UNCHANGED <<requests, placed, asked, log>>

AttemptsNext ==
  \/ ChangePrice \/ EditCart \/ EditNotes \/ RefreshQuote \/ AcceptChange \/ Reload
  \/ Submit \/ LoseAnswer \/ Serve \/ Receive

AttemptsSpec == AttemptsInit /\ [][AttemptsNext]_attemptVars

(*------------------------------ Properties -------------------------------*)
LiveOrders == {o \in placed : o.live}
SamePurchase(a, b) == a.attempt.cart = b.attempt.cart /\ a.attempt.seen = b.attempt.seen

(* Between two keys the shopper confirmed something else, or the browser   *)
(* that keeps no storage forgot the attempt.                               *)
TurnedAway(a, b) ==
  \E m \in a.attempt.key + 1 .. b.attempt.key - 1 :
    log[m] = Forgotten \/ log[m].cart # a.attempt.cart \/ log[m].seen # a.attempt.seen

(* However answers and requests are lost or late, repeating a confirmation *)
(* makes no second order of the same purchase; the order that the shopper  *)
(* is told of is, in every detail, the one confirmed last, and the only    *)
(* one unless an answer was lost.                                          *)
OneOrderPerCheckout ==
  /\ \A a, b \in LiveOrders :
       a.attempt.key < b.attempt.key /\ SamePurchase(a, b) => TurnedAway(a, b)
  /\ shopper.phase = "done" =>
       \E o \in LiveOrders :
         /\ shopper.told = {o.attempt.key} /\ Fingerprint(o.attempt) = Fingerprint(Latest)
         /\ ~shopper.lost => LiveOrders = {o}
=============================================================================
