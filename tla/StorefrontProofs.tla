--------------------------- MODULE StorefrontProofs ---------------------------
(***************************************************************************)
(* Promises to the shopper, for any customers, addresses, carts, offers    *)
(* and limits. Who is signed in proved the address that stands for them,   *)
(* and no change of address leaves a session behind. A checkout makes one  *)
(* order, whatever is confirmed again, forgotten, lost or answered late.   *)
(* Two offers are found to meet exactly when they do, and a cart has the   *)
(* price that its offers, coupon and reward advertise.                     *)
(*                                                                         *)
(* The first goes through the proof each session carries; the second       *)
(* through the log of confirmations, in which a key is the place of the    *)
(* first confirmation that carries it. The scan of two schedules rests on  *)
(* the days of the week coming round, the price of a cart on counting its  *)
(* units one by one, by groups.                                            *)
(***************************************************************************)
EXTENDS ConsumerAccess, CheckoutAttempts, OfferSchedule, QuotePricing, DataLemmas

-----------------------------------------------------------------------------
(* Consumer access.                                                        *)

ChallengeRows == [email : Addresses, purpose : Purposes, customer : SUBSET Customers, owner : Nat,
         before : SUBSET Addresses, status : {"PENDING", "VERIFIED", "FAILED", "CANCELLED"},
         change : {"NONE", "PENDING", "CANCELLED", "FAILED", "COMPLETED"}, code : 1..MaxCodes,
         guesses : 0..MaxGuesses, sending : {"NONE", "START", "RESEND"}, told : BOOLEAN]
Signins == [owner : Nat, live : BOOLEAN, from : Nat, proof : Nat, code : 1..MaxCodes]

(* A challenge is of an identity there is and for one customer at most,    *)
(* and only a change of address has a change request, which is complete    *)
(* only by the challenge that was consumed for it.                         *)
RowSound(row) ==
  /\ row.owner \in 0..Len(identity)
  /\ row.change # "NONE" => row.purpose = "EMAIL_CHANGE_NEW"
  /\ row.change = "COMPLETED" => row.status = "VERIFIED"
  /\ \A j, k \in row.customer : j = k
  /\ row.status = "PENDING" => row.guesses < MaxGuesses

AccessTyped ==
  /\ challenge \in Seq(ChallengeRows) /\ identity \in Seq(Addresses) /\ signin \in Seq(Signins)
  /\ link \in [Customers -> 0..Len(identity)]
  /\ \A c \in DOMAIN challenge : RowSound(challenge[c])
  /\ \A s \in DOMAIN signin :
       /\ signin[s].owner \in DOMAIN identity
       /\ signin[s].from \in DOMAIN challenge /\ signin[s].proof \in DOMAIN challenge

Admits(row) == row.status = "VERIFIED" /\ row.change # "COMPLETED"

(* A challenge that was consumed stays so, with its address and its code,  *)
(* and does not turn from one use to the other.                            *)
StaysUsed(before, after) ==
  before.status = "VERIFIED" =>
    /\ after.status = "VERIFIED" /\ after.email = before.email /\ after.code = before.code
    /\ Admits(before) => Admits(after)

(* A device is signed in with the address its identity has, its challenge  *)
(* admits no other device, and every challenge that admits one did.        *)
SigninsProved ==
  /\ \A s \in DOMAIN signin :
       /\ signin[s].live => identity[signin[s].owner] = challenge[signin[s].proof].email
       /\ challenge[signin[s].proof].status = "VERIFIED" /\ signin[s].code = challenge[signin[s].proof].code
       /\ Admits(challenge[signin[s].from])
  /\ \A s, n \in DOMAIN signin : signin[s].from = signin[n].from => s = n
  /\ \A c \in DOMAIN challenge : Admits(challenge[c]) => \E s \in DOMAIN signin : signin[s].from = c

LiveSessions(i) == {s \in DOMAIN signin : signin[s].live /\ signin[s].owner = i}

IdentitiesSound ==
  /\ \A i, j \in DOMAIN identity : identity[i] = identity[j] => i = j
  /\ \A j, k \in Customers : link[j] = link[k] /\ link[j] # 0 => j = k
  /\ \A i \in DOMAIN identity : Cardinality(LiveSessions(i)) <= MaxActive

AccessInv == AccessTyped /\ SigninsProved /\ IdentitiesSound

(* At first nobody is known.                                               *)
LEMMA AccessInvInit == AccessInit => AccessInv
<1> SUFFICES ASSUME AccessInit PROVE AccessInv
  OBVIOUS
<1>1. \A S : <<>> \in Seq(S)
  BY EmptySeq
<1>2. Len(<<>>) = 0 /\ DOMAIN <<>> = {}
  BY EmptySeq, LenProperties
<1>3. AccessTyped
  BY <1>1, <1>2 DEF AccessInit, AccessTyped
<1>4. QED
  BY <1>2, <1>3 DEF AccessInit, AccessInv, SigninsProved, IdentitiesSound

(* The domains of the tables.                                              *)
LEMMA AccessTables ==
  ASSUME AccessTyped
  PROVE  /\ DOMAIN challenge = 1..Len(challenge) /\ Len(challenge) \in Nat
         /\ DOMAIN identity = 1..Len(identity) /\ Len(identity) \in Nat
         /\ DOMAIN signin = 1..Len(signin) /\ Len(signin) \in Nat
         /\ \A c \in DOMAIN challenge : challenge[c] \in ChallengeRows
         /\ \A s \in DOMAIN signin : signin[s] \in Signins
         /\ \A i \in DOMAIN identity : identity[i] \in Addresses
  BY LenProperties, ElementOfSeq DEF AccessTyped

(* A step that signs nobody in: the challenges go on, none becomes one     *)
(* that admits, and one that was consumed is kept.                         *)
LEMMA QuietStep ==
  ASSUME AccessInv, UNCHANGED <<identity, link, signin>>, challenge' \in Seq(ChallengeRows),
         DOMAIN challenge \subseteq DOMAIN challenge',
         \A c \in DOMAIN challenge' : RowSound(challenge'[c]),
         \A c \in DOMAIN challenge : StaysUsed(challenge[c], challenge'[c]),
         \A c \in DOMAIN challenge' : Admits(challenge'[c]) => c \in DOMAIN challenge /\ Admits(challenge[c])
  PROVE  AccessInv'
<1>1. AccessTyped /\ SigninsProved /\ IdentitiesSound
  BY DEF AccessInv
<1>2. AccessTyped'
  BY <1>1 DEF AccessTyped, RowSound
<1>a. signin' = signin /\ identity' = identity
  OBVIOUS
<1>3. SigninsProved'
  <2>1. ASSUME NEW s \in DOMAIN signin
        PROVE  /\ signin'[s].live => identity'[signin'[s].owner] = challenge'[signin'[s].proof].email
               /\ challenge'[signin'[s].proof].status = "VERIFIED"
               /\ signin'[s].code = challenge'[signin'[s].proof].code
               /\ Admits(challenge'[signin'[s].from])
    <3>1. /\ signin[s].live => identity[signin[s].owner] = challenge[signin[s].proof].email
          /\ challenge[signin[s].proof].status = "VERIFIED"
          /\ signin[s].code = challenge[signin[s].proof].code
          /\ Admits(challenge[signin[s].from])
          /\ signin[s].from \in DOMAIN challenge /\ signin[s].proof \in DOMAIN challenge
      BY <1>1 DEF SigninsProved, AccessTyped
    <3>2. /\ challenge'[signin[s].proof].status = "VERIFIED"
          /\ challenge'[signin[s].proof].email = challenge[signin[s].proof].email
          /\ challenge'[signin[s].proof].code = challenge[signin[s].proof].code
      BY <3>1 DEF StaysUsed
    <3>3. Admits(challenge'[signin[s].from])
      BY <3>1 DEF StaysUsed, Admits
    <3>4. QED
      BY <1>a, <3>1, <3>2, <3>3
  <2>2. \A s, n \in DOMAIN signin' : signin'[s].from = signin'[n].from => s = n
    BY <1>1, <1>a DEF SigninsProved
  <2>3. \A c \in DOMAIN challenge' : Admits(challenge'[c]) => \E s \in DOMAIN signin' : signin'[s].from = c
    BY <1>1, <1>a DEF SigninsProved
  <2>4. QED
    BY <1>a, <2>1, <2>2, <2>3 DEF SigninsProved, Admits
<1>4. IdentitiesSound'
  BY <1>1 DEF IdentitiesSound, LiveSessions
<1>5. QED
  BY <1>2, <1>3, <1>4 DEF AccessInv

(* A step that rewrites one challenge and signs nobody in.                 *)
LEMMA RewriteStep ==
  ASSUME AccessInv, UNCHANGED <<identity, link, signin>>, NEW c \in DOMAIN challenge, NEW row \in ChallengeRows,
         challenge' = [challenge EXCEPT ![c] = row], RowSound(row), challenge[c].status # "VERIFIED", ~Admits(row)
  PROVE  AccessInv'
<1>1. AccessTyped
  BY DEF AccessInv
<1>2. /\ DOMAIN challenge' = DOMAIN challenge /\ challenge'[c] = row
      /\ \A d \in DOMAIN challenge \ {c} : challenge'[d] = challenge[d]
      /\ challenge' = [d \in DOMAIN challenge' |-> challenge'[d]]
  BY Zenon
<1>3. \A d \in DOMAIN challenge : challenge'[d] \in ChallengeRows /\ RowSound(challenge'[d])
  BY <1>1, <1>2, AccessTables DEF AccessTyped
<1>4. challenge' \in Seq(ChallengeRows)
  BY <1>1, <1>2, <1>3, RewrittenRows DEF AccessTyped
<1>5. QED
  BY <1>2, <1>3, <1>4, QuietStep DEF StaysUsed

(* While there is a code left, each challenge has one left.                *)
LEMMA CodeLeft ==
  ASSUME AccessTyped, Cardinality(Codes) < MaxCodes, NEW c \in DOMAIN challenge
  PROVE  challenge[c].code + 1 \in 1..MaxCodes
<1> DEFINE n == challenge[c].code
<1>1. n \in 1..MaxCodes /\ MaxCodes \in Nat
  BY AccessTables, AccessAssumption DEF ChallengeRows
<1>2. IsFiniteSet(Codes)
  <2>1. \A d \in DOMAIN challenge : challenge[d].code \in 1..MaxCodes
    BY AccessTables DEF ChallengeRows
  <2>2. IsFiniteSet(DOMAIN challenge) /\ IsFiniteSet(1..MaxCodes)
    BY <1>1, AccessTables, FS_Interval
  <2>3. IsFiniteSet((DOMAIN challenge) \X (1..MaxCodes))
    BY <2>2, FS_Product
  <2>4. Codes \subseteq (DOMAIN challenge) \X (1..MaxCodes)
    <3>1. ASSUME NEW d \in DOMAIN challenge
          PROVE  {d} \X (1..challenge[d].code) \subseteq (DOMAIN challenge) \X (1..MaxCodes)
      BY <1>1, <2>1
    <3>2. QED
      BY <3>1 DEF Codes
  <2>5. QED
    BY <2>3, <2>4, FS_Subset
<1>3. {c} \X (1..n) \subseteq Codes
  BY DEF Codes
<1>4. Cardinality({c} \X (1..n)) = n
  <2>1. IsFiniteSet(1..n) /\ Cardinality(1..n) = n
    BY <1>1, FS_Interval
  <2>2. Cardinality({c}) = 1 /\ IsFiniteSet({c})
    BY FS_Singleton
  <2>3. Cardinality({c} \X (1..n)) = Cardinality({c}) * Cardinality(1..n)
    BY <2>1, <2>2, FS_Product
  <2>4. QED
    BY <1>1, <2>1, <2>2, <2>3
<1>5. n <= Cardinality(Codes) /\ Cardinality(Codes) \in Nat
  BY <1>2, <1>3, <1>4, FS_Subset, FS_CardinalityType
<1>6. QED
  BY <1>1, <1>5

(* A challenge that was just made admits nobody.                           *)
LEMMA NewChallenge ==
  ASSUME AccessTyped, NEW email \in Addresses, NEW purpose \in Purposes, NEW customer \in SUBSET Customers,
         \A j, k \in customer : j = k, NEW owner \in 0..Len(identity), NEW before \in SUBSET Addresses
  PROVE  LET new == Challenge(email, purpose, customer, owner, before) IN
         new \in ChallengeRows /\ RowSound(new) /\ ~Admits(new)
<1>1. 1 \in 1..MaxCodes /\ 0 \in 0..MaxGuesses
  BY AccessAssumption
<1>2. QED
  BY <1>1, AccessTables, AccessAssumption DEF Challenge, ChallengeRows, RowSound, Admits, Purposes

(* The requests of a code.                                                 *)
LEMMA RequestCodeStep == ASSUME AccessInv, RequestCode PROVE AccessInv'
<1>1. AccessTyped
  BY DEF AccessInv
<1>2. PICK email \in Addresses, customer \in {{}} \cup {{k} : k \in Customers} :
        challenge' = Append(challenge,
          Challenge(email, IF customer = {} THEN "LOGIN" ELSE "ORDER_CLAIM", customer, 0, {}))
    /\ UNCHANGED <<identity, link, signin>>
  BY DEF RequestCode
<1> DEFINE new == Challenge(email, IF customer = {} THEN "LOGIN" ELSE "ORDER_CLAIM", customer, 0, {})
<1>3. new \in ChallengeRows /\ RowSound(new) /\ ~Admits(new)
  <2>1. customer \in SUBSET Customers /\ \A j, k \in customer : j = k
    BY <1>2
  <2>2. (IF customer = {} THEN "LOGIN" ELSE "ORDER_CLAIM") \in Purposes
    BY DEF Purposes
  <2>3. 0 \in 0..Len(identity) /\ {} \in SUBSET Addresses
    BY <1>1, AccessTables
  <2>4. QED
    BY <1>1, <2>1, <2>2, <2>3, NewChallenge
<1>4. challenge' = Append(challenge, new) /\ UNCHANGED <<identity, link, signin>>
  BY <1>2
<1> HIDE DEF new
<1>5. /\ challenge' \in Seq(ChallengeRows) /\ DOMAIN challenge' = DOMAIN challenge \cup {Len(challenge) + 1}
      /\ \A c \in DOMAIN challenge : challenge'[c] = challenge[c]
      /\ challenge'[Len(challenge) + 1] = new
  BY <1>1, <1>3, <1>4, AppendRow DEF AccessTyped
<1>6. QED
  BY <1>1, <1>3, <1>4, <1>5, QuietStep DEF AccessTyped, StaysUsed

(* A code that was sent says so, and admits nobody more.                   *)
LEMMA CodeSentStep == ASSUME AccessInv, NEW c \in DOMAIN challenge, CodeSent(c) PROVE AccessInv'
<1>1. AccessTyped
  BY DEF AccessInv
<1>2. ASSUME NEW d \in DOMAIN challenge
      PROVE  challenge'[d] \in ChallengeRows /\ RowSound(challenge'[d]) /\ StaysUsed(challenge[d], challenge'[d])
             /\ (Admits(challenge'[d]) <=> Admits(challenge[d]))
  <2>1. challenge[d] \in ChallengeRows /\ RowSound(challenge[d])
    BY <1>1, AccessTables DEF AccessTyped
  <2>2. \/ challenge'[d] = [challenge[d] EXCEPT !.sending = "NONE", !.told = TRUE]
        \/ challenge[d].status = "PENDING" /\ challenge'[d] = [challenge[d] EXCEPT !.status = "CANCELLED"]
        \/ challenge'[d] = challenge[d]
    BY DEF CodeSent, Superseded
  <2>3. QED
    BY <2>1, <2>2 DEF ChallengeRows, RowSound, Admits, StaysUsed
<1>3. DOMAIN challenge' = DOMAIN challenge /\ challenge' = [d \in DOMAIN challenge' |-> challenge'[d]]
      /\ UNCHANGED <<identity, link, signin>>
  BY Zenon DEF CodeSent
<1>4. challenge' \in Seq(ChallengeRows)
  BY <1>1, <1>2, <1>3, RewrittenRows DEF AccessTyped
<1>5. QED
  BY <1>2, <1>3, <1>4, QuietStep

(* Sending again, failing to send and being killed while sending admit     *)
(* nobody more.                                                            *)
LEMMA SendStep ==
  ASSUME AccessInv, NEW c \in DOMAIN challenge,
         SendFailed(c) \/ SenderKilled(c) \/ ResendCode(c) \/ CodeResent(c) \/ ChangeCodeSent(c)
  PROVE  AccessInv'
<1>1. AccessTyped
  BY DEF AccessInv
<1>2. challenge[c] \in ChallengeRows /\ RowSound(challenge[c]) /\ UNCHANGED <<identity, link, signin>>
  BY <1>1, AccessTables DEF AccessTyped, SendFailed, SenderKilled, ResendCode, CodeResent, ChangeCodeSent
<1>3. \E row \in ChallengeRows :
        /\ challenge' = [d \in DOMAIN challenge |-> IF d = c THEN row ELSE challenge[d]]
        /\ RowSound(row) /\ (Admits(row) <=> Admits(challenge[c])) /\ StaysUsed(challenge[c], row)
  <2>1. CASE SendFailed(c)
    <3> DEFINE sent == [challenge EXCEPT ![c].sending = "NONE"]
               failed == [sent EXCEPT ![c].status = IF @ = "PENDING" THEN "FAILED" ELSE @]
               given == [failed EXCEPT ![c].change = IF @ = "PENDING" /\ challenge[c].sending = "START" THEN "FAILED" ELSE @]
    <3>1. challenge' = given
      BY <2>1, Zenon DEF SendFailed
    <3>2. /\ sent[c] = [challenge[c] EXCEPT !.sending = "NONE"]
          /\ sent = [d \in DOMAIN challenge |-> IF d = c THEN sent[c] ELSE challenge[d]]
      OBVIOUS
    <3>3. sent[c] \in ChallengeRows /\ RowSound(sent[c]) /\ (Admits(sent[c]) <=> Admits(challenge[c])) /\ StaysUsed(challenge[c], sent[c])
      BY <1>2, <3>2 DEF ChallengeRows, RowSound, Admits, StaysUsed
    <3> HIDE DEF sent
    <3>4. /\ failed[c] = [sent[c] EXCEPT !.status = IF @ = "PENDING" THEN "FAILED" ELSE @]
          /\ failed = [d \in DOMAIN challenge |-> IF d = c THEN failed[c] ELSE challenge[d]]
      BY <3>2
    <3>5. failed[c] \in ChallengeRows /\ RowSound(failed[c]) /\ (Admits(failed[c]) <=> Admits(challenge[c])) /\ StaysUsed(challenge[c], failed[c])
      BY <3>3, <3>4 DEF ChallengeRows, RowSound, Admits, StaysUsed
    <3> HIDE DEF failed
    <3>6. /\ given[c] = [failed[c] EXCEPT !.change = IF @ = "PENDING" /\ challenge[c].sending = "START" THEN "FAILED" ELSE @]
          /\ given = [d \in DOMAIN challenge |-> IF d = c THEN given[c] ELSE challenge[d]]
      BY <3>4
    <3>7. given[c] \in ChallengeRows /\ RowSound(given[c]) /\ (Admits(given[c]) <=> Admits(challenge[c])) /\ StaysUsed(challenge[c], given[c])
      BY <3>5, <3>6 DEF ChallengeRows, RowSound, Admits, StaysUsed
    <3> HIDE DEF given
    <3>8. QED
      BY <3>1, <3>6, <3>7
  <2>2. CASE SenderKilled(c) \/ CodeResent(c)
    <3> DEFINE sent == [challenge[c] EXCEPT !.sending = "NONE"]
    <3>1. challenge' = [d \in DOMAIN challenge |-> IF d = c THEN sent ELSE challenge[d]]
      BY <2>2 DEF SenderKilled, CodeResent
    <3>2. sent \in ChallengeRows /\ RowSound(sent) /\ (Admits(sent) <=> Admits(challenge[c])) /\ StaysUsed(challenge[c], sent)
      BY <1>2 DEF ChallengeRows, RowSound, Admits, StaysUsed
    <3> HIDE DEF sent
    <3>3. QED
      BY <3>1, <3>2
  <2>3. CASE ResendCode(c)
    <3> DEFINE again == [challenge EXCEPT ![c].code = @ + 1]
               sending == [again EXCEPT ![c].sending = "RESEND"]
    <3>1. challenge' = sending /\ challenge[c].status = "PENDING"
      BY <2>3, Zenon DEF ResendCode
    <3>2. /\ again[c] = [challenge[c] EXCEPT !.code = @ + 1]
          /\ again = [d \in DOMAIN challenge |-> IF d = c THEN again[c] ELSE challenge[d]]
      OBVIOUS
    <3>3. challenge[c].code + 1 \in 1..MaxCodes
      BY <1>1, <2>3, CodeLeft DEF ResendCode
    <3>4. again[c] \in ChallengeRows /\ RowSound(again[c]) /\ again[c].status = "PENDING"
      BY <1>2, <3>1, <3>2, <3>3 DEF ChallengeRows, RowSound
    <3> HIDE DEF again
    <3>5. /\ sending[c] = [again[c] EXCEPT !.sending = "RESEND"]
          /\ sending = [d \in DOMAIN challenge |-> IF d = c THEN sending[c] ELSE challenge[d]]
      BY <3>2
    <3>6. sending[c] \in ChallengeRows /\ RowSound(sending[c]) /\ sending[c].status = "PENDING"
      BY <3>4, <3>5 DEF ChallengeRows, RowSound
    <3> HIDE DEF sending
    <3>7. QED
      BY <3>1, <3>5, <3>6 DEF Admits, StaysUsed
  <2>4. CASE ChangeCodeSent(c)
    <3> DEFINE sent == [challenge EXCEPT ![c].sending = "NONE"]
               told == [sent EXCEPT ![c].told = TRUE]
    <3>1. challenge' = told
      BY <2>4, Zenon DEF ChangeCodeSent
    <3>2. /\ sent[c] = [challenge[c] EXCEPT !.sending = "NONE"]
          /\ sent = [d \in DOMAIN challenge |-> IF d = c THEN sent[c] ELSE challenge[d]]
      OBVIOUS
    <3>3. sent[c] \in ChallengeRows /\ RowSound(sent[c]) /\ (Admits(sent[c]) <=> Admits(challenge[c])) /\ StaysUsed(challenge[c], sent[c])
      BY <1>2, <3>2 DEF ChallengeRows, RowSound, Admits, StaysUsed
    <3> HIDE DEF sent
    <3>4. /\ told[c] = [sent[c] EXCEPT !.told = TRUE]
          /\ told = [d \in DOMAIN challenge |-> IF d = c THEN told[c] ELSE challenge[d]]
      BY <3>2
    <3>5. told[c] \in ChallengeRows /\ RowSound(told[c]) /\ (Admits(told[c]) <=> Admits(challenge[c])) /\ StaysUsed(challenge[c], told[c])
      BY <3>3, <3>4 DEF ChallengeRows, RowSound, Admits, StaysUsed
    <3> HIDE DEF told
    <3>6. QED
      BY <3>1, <3>4, <3>5
  <2>5. QED
    BY <2>1, <2>2, <2>3, <2>4
<1>4. PICK row \in ChallengeRows :
        /\ challenge' = [d \in DOMAIN challenge |-> IF d = c THEN row ELSE challenge[d]]
        /\ RowSound(row) /\ (Admits(row) <=> Admits(challenge[c])) /\ StaysUsed(challenge[c], row)
  BY <1>3
<1>5. /\ DOMAIN challenge' = DOMAIN challenge /\ challenge' = [d \in DOMAIN challenge' |-> challenge'[d]]
      /\ \A d \in DOMAIN challenge : challenge'[d] = IF d = c THEN row ELSE challenge[d]
  BY <1>4
<1>6. \A d \in DOMAIN challenge : challenge'[d] \in ChallengeRows /\ RowSound(challenge'[d])
  BY <1>1, <1>4, <1>5, AccessTables DEF AccessTyped
<1>7. challenge' \in Seq(ChallengeRows)
  BY <1>1, <1>5, <1>6, RewrittenRows DEF AccessTyped
<1>8. \A d \in DOMAIN challenge : StaysUsed(challenge[d], challenge'[d]) /\ (Admits(challenge'[d]) => Admits(challenge[d]))
  BY <1>4, <1>5 DEF StaysUsed
<1>9. QED
  BY <1>2, <1>5, <1>6, <1>7, <1>8, QuietStep

(* A wrong guess of a pending challenge, or one for a code replaced.       *)
LEMMA GuessedStep ==
  ASSUME AccessInv, NEW c \in DOMAIN challenge, challenge[c].status = "PENDING",
         challenge[c].guesses < MaxGuesses, challenge' = Guessed(c), UNCHANGED <<identity, link, signin>>
  PROVE  AccessInv'
<1>1. AccessTyped
  BY DEF AccessInv
<1>2. challenge[c] \in ChallengeRows /\ RowSound(challenge[c])
  BY <1>1, AccessTables DEF AccessTyped
<1> DEFINE state == IF challenge[c].guesses + 1 >= MaxGuesses THEN "FAILED" ELSE "PENDING"
           counted == [challenge EXCEPT ![c].guesses = @ + 1]
           row == [counted[c] EXCEPT !.status = state]
<1>3. challenge' = [counted EXCEPT ![c].status = state]
  BY Zenon DEF Guessed
<1>4. /\ counted[c] = [challenge[c] EXCEPT !.guesses = @ + 1]
      /\ counted = [d \in DOMAIN challenge |-> IF d = c THEN counted[c] ELSE challenge[d]]
  OBVIOUS
<1>5. challenge[c].guesses + 1 \in 0..MaxGuesses
  BY <1>2, AccessAssumption DEF ChallengeRows
<1>6. /\ counted[c] \in ChallengeRows /\ counted[c].guesses = challenge[c].guesses + 1
      /\ counted[c].owner \in 0..Len(identity) /\ \A j, k \in counted[c].customer : j = k
      /\ counted[c].change # "NONE" => counted[c].purpose = "EMAIL_CHANGE_NEW"
      /\ counted[c].change # "COMPLETED"
  BY <1>2, <1>4, <1>5 DEF ChallengeRows, RowSound
<1>7. /\ state \in {"FAILED", "PENDING"}
      /\ state = "PENDING" => counted[c].guesses < MaxGuesses
  BY <1>2, <1>6, AccessAssumption DEF ChallengeRows
<1> HIDE DEF counted, state
<1>8. row \in ChallengeRows /\ RowSound(row) /\ row.status = state
  BY <1>6, <1>7 DEF ChallengeRows, RowSound
<1>9. challenge' = [challenge EXCEPT ![c] = row]
  BY <1>3, <1>4
<1> HIDE DEF row
<1>10. QED
  BY <1>7, <1>8, <1>9, RewriteStep DEF Admits

(* A change of address is asked for in place of the one before.            *)
LEMMA RequestEmailChangeStep ==
  ASSUME AccessInv, NEW s \in DOMAIN signin, RequestEmailChange(s) PROVE AccessInv'
<1>1. AccessTyped
  BY DEF AccessInv
<1> DEFINE owner == signin[s].owner
           rest == [c \in DOMAIN challenge |->
               IF challenge[c].change = "PENDING" /\ challenge[c].owner = owner
               THEN [challenge[c] EXCEPT !.change = "CANCELLED"] ELSE challenge[c]]
<1>2. PICK email \in Addresses :
        challenge' = Append(rest, Challenge(email, "EMAIL_CHANGE_NEW", {}, owner, {identity[owner]}))
    /\ UNCHANGED <<identity, link, signin>>
  BY Zenon DEF RequestEmailChange
<1> DEFINE new == Challenge(email, "EMAIL_CHANGE_NEW", {}, owner, {identity[owner]})
<1>3. new \in ChallengeRows /\ RowSound(new) /\ ~Admits(new)
  <2>1. owner \in DOMAIN identity /\ owner \in 0..Len(identity) /\ identity[owner] \in Addresses
    BY <1>1, AccessTables DEF AccessTyped
  <2>2. {identity[owner]} \in SUBSET Addresses /\ {} \in SUBSET Customers /\ "EMAIL_CHANGE_NEW" \in Purposes
        /\ \A j, k \in {} : j = k
    BY <2>1 DEF Purposes
  <2>3. QED
    BY <1>1, <2>1, <2>2, NewChallenge
<1>4. challenge' = Append(rest, new) /\ UNCHANGED <<identity, link, signin>>
  BY <1>2
<1>5. ASSUME NEW c \in DOMAIN challenge
      PROVE  rest[c] \in ChallengeRows /\ RowSound(rest[c]) /\ StaysUsed(challenge[c], rest[c])
             /\ (Admits(rest[c]) <=> Admits(challenge[c]))
  <2>1. challenge[c] \in ChallengeRows /\ RowSound(challenge[c])
    BY <1>1, AccessTables DEF AccessTyped
  <2>2. \/ challenge[c].change = "PENDING" /\ rest[c] = [challenge[c] EXCEPT !.change = "CANCELLED"]
        \/ rest[c] = challenge[c]
    OBVIOUS
  <2> HIDE DEF rest
  <2>3. QED
    BY <2>1, <2>2 DEF ChallengeRows, RowSound, Admits, StaysUsed
<1>6. DOMAIN rest = DOMAIN challenge /\ rest = [c \in DOMAIN rest |-> rest[c]]
  OBVIOUS
<1> HIDE DEF rest, new, owner
<1>7. rest \in Seq(ChallengeRows) /\ Len(rest) = Len(challenge)
  BY <1>1, <1>5, <1>6, RewrittenRows DEF AccessTyped
<1>8. /\ challenge' \in Seq(ChallengeRows) /\ DOMAIN challenge' = DOMAIN challenge \cup {Len(challenge) + 1}
      /\ \A c \in DOMAIN challenge : challenge'[c] = rest[c]
      /\ challenge'[Len(challenge) + 1] = new
  BY <1>1, <1>3, <1>4, <1>6, <1>7, AppendRow DEF AccessTyped
<1>9. QED
  BY <1>1, <1>3, <1>4, <1>5, <1>8, QuietStep DEF AccessTyped

-----------------------------------------------------------------------------
(* Sessions of which some ended, so that few of the owner are left.        *)
Limited(kept, all, owner) ==
  /\ kept \in Seq(Signins) /\ DOMAIN kept = DOMAIN all
  /\ \A s \in DOMAIN all :
       /\ kept[s].owner = all[s].owner /\ kept[s].proof = all[s].proof /\ kept[s].from = all[s].from
       /\ kept[s].code = all[s].code /\ (kept[s].live => all[s].live)
       /\ all[s].owner # owner => kept[s] = all[s]
  /\ Cardinality({s \in DOMAIN all : kept[s].live /\ kept[s].owner = owner}) <= MaxActive

(* The oldest session beyond the limit counts what it and the younger ones *)
(* are: those that stay are at most as many.                               *)
LEMMA LimitHolds ==
  ASSUME NEW all \in Seq(Signins), NEW owner
  PROVE  Limited(WithinLimit(all, owner), all, owner)
<1> DEFINE kept == WithinLimit(all, owner)
<1> DEFINE younger(s) == {n \in s..Len(all) : all[n].live /\ all[n].owner = owner}
           few(s) == Cardinality(younger(s)) <= MaxActive
<1>1. DOMAIN all = 1..Len(all) /\ Len(all) \in Nat
  BY LenProperties
<1>2. ASSUME NEW s \in DOMAIN all
      PROVE  kept[s] = [all[s] EXCEPT !.live = @ /\ (all[s].owner = owner => few(s))]
  BY Zenon DEF WithinLimit
<1>3. DOMAIN kept = DOMAIN all /\ kept = [s \in DOMAIN kept |-> kept[s]]
  BY Zenon DEF WithinLimit
<1> HIDE DEF kept, few
<1>4. ASSUME NEW s \in DOMAIN all
      PROVE  /\ kept[s] \in Signins /\ kept[s].owner = all[s].owner /\ kept[s].proof = all[s].proof
             /\ kept[s].from = all[s].from /\ kept[s].code = all[s].code /\ kept[s].live \in BOOLEAN
             /\ kept[s].live = (all[s].live /\ (all[s].owner = owner => few(s)))
             /\ all[s].owner # owner => kept[s] = all[s]
  <2>1. all[s] \in Signins
    BY <1>1, ElementOfSeq
  <2> DEFINE live == all[s].live /\ (all[s].owner = owner => few(s))
  <2>2. live \in BOOLEAN /\ (all[s].owner # owner => live = all[s].live)
    BY <2>1 DEF Signins
  <2>3. kept[s] = [all[s] EXCEPT !.live = live]
    BY <1>2
  <2> HIDE DEF live
  <2>4. QED
    BY <2>1, <2>2, <2>3 DEF Signins, live
<1>5. kept \in Seq(Signins)
  BY <1>3, <1>4, RewrittenRows
<1> DEFINE left == {s \in DOMAIN all : kept[s].live /\ kept[s].owner = owner}
<1>6. Cardinality(left) <= MaxActive
  <2>1. CASE left = {}
    <3>1. Cardinality(left) = 0
      BY <2>1, FS_EmptySet
    <3> HIDE DEF left
    <3>2. QED
      BY <3>1, AccessAssumption
  <2>2. CASE left # {}
    <3>1. left \in SUBSET Nat
      BY <1>1
    <3>2. PICK s \in left : \A n \in left : s <= n
      BY <2>2, <3>1, Least
    <3>3. s \in 1..Len(all) /\ few(s)
      BY <1>1, <1>4, <3>2
    <3>4. left \subseteq younger(s)
      BY <1>1, <1>4, <3>2
    <3>5. IsFiniteSet(younger(s))
      <4>1. younger(s) \in SUBSET DOMAIN all
        BY <1>1, <3>3
      <4>2. QED
        BY <4>1, FiniteRows
    <3> HIDE DEF younger, left
    <3>6. Cardinality(left) <= Cardinality(younger(s)) /\ Cardinality(left) \in Nat /\ Cardinality(younger(s)) \in Nat
      BY <3>4, <3>5, FS_Subset, FS_CardinalityType
    <3>7. QED
      BY <3>3, <3>6, AccessAssumption DEF few
  <2>3. QED
    BY <2>1, <2>2
<1>7. QED
  BY <1>3, <1>4, <1>5, <1>6 DEF kept, Limited

(* The identity that a challenge confirms is one there was, or a new one   *)
(* for an address nobody had; its customer is the challenge's, or it has   *)
(* none.                                                                   *)
LEMMA AddressConfirmed ==
  ASSUME AccessInv, NEW c \in DOMAIN challenge, NEW h \in Confirmable(c)
  PROVE  /\ h.all \in Seq(Addresses) /\ h.one \in DOMAIN h.all /\ h.all[h.one] = challenge[c].email
         /\ DOMAIN identity \subseteq DOMAIN h.all /\ DOMAIN h.all \subseteq DOMAIN identity \cup {h.one}
         /\ Len(h.all) \in Nat /\ Len(h.all) >= Len(identity)
         /\ \A i \in DOMAIN identity : h.all[i] = identity[i]
         /\ \A i, j \in DOMAIN h.all : h.all[i] = h.all[j] => i = j
         /\ challenge[c].customer # {} =>
              (\E k \in challenge[c].customer : link[k] = h.one) \/ \A k \in Customers : link[k] # h.one
<1> DEFINE email == challenge[c].email
           linked == {link[k] : k \in challenge[c].customer} \ {0}
           held == IF Holders(email) = {} THEN {[all |-> Append(identity, email), one |-> Len(identity) + 1]}
                   ELSE {[all |-> identity, one |-> i] : i \in Holders(email)}
<1>1. AccessTyped /\ IdentitiesSound
  BY DEF AccessInv
<1>2. /\ DOMAIN identity = 1..Len(identity) /\ Len(identity) \in Nat /\ email \in Addresses
      /\ identity \in Seq(Addresses)
  BY <1>1, AccessTables DEF ChallengeRows, AccessTyped
<1>3. CASE \E i \in Holders(email) : h = [all |-> identity, one |-> i]
                  /\ (i \in linked \/ challenge[c].customer = {} \/ \A k \in Customers : link[k] # i)
  BY <1>1, <1>2, <1>3 DEF Holders, IdentitiesSound
<1>4. CASE /\ Holders(email) = {} /\ h = [all |-> Append(identity, email), one |-> Len(identity) + 1]
           /\ challenge[c].customer = {} \/ \A k \in Customers : link[k] # h.one
  <2> DEFINE more == Append(identity, email)
  <2>1. /\ more \in Seq(Addresses) /\ Len(more) = Len(identity) + 1 /\ DOMAIN more = 1..Len(identity) + 1
        /\ \A i \in 1..Len(identity) : more[i] = identity[i]
        /\ more[Len(identity) + 1] = email
    BY <1>2, AppendRow
  <2>2. h.all = more /\ h.one = Len(identity) + 1
    BY <1>4
  <2> HIDE DEF more
  <2>3. \A i \in 1..Len(identity) : more[i] # email
    BY <1>2, <1>4, <2>1 DEF Holders
  <2>4. \A i, j \in DOMAIN more : more[i] = more[j] => i = j
    BY <1>1, <1>2, <2>1, <2>3 DEF IdentitiesSound
  <2>5. QED
    BY <1>2, <1>4, <2>1, <2>2, <2>4
<1>5. CASE linked # {}
  <2>1. PICK i \in linked \cap Holders(email) : h = [all |-> identity, one |-> i]
    BY <1>5 DEF Confirmable
  <2>2. QED
    BY <1>3, <2>1
<1>6. CASE linked = {}
  <2>1. h \in held /\ (challenge[c].customer = {} \/ \A k \in Customers : link[k] # h.one)
    BY <1>6 DEF Confirmable
  <2>2. CASE Holders(email) = {}
    BY <1>4, <2>1, <2>2
  <2>3. CASE Holders(email) # {}
    BY <1>3, <2>1, <2>3
  <2>4. QED
    BY <2>2, <2>3
<1>7. QED
  BY <1>5, <1>6

(* A code that is confirmed verifies its challenge and no other.           *)
LEMMA ConsumedRow ==
  ASSUME AccessTyped, NEW c \in DOMAIN challenge, Pending(c)
  PROVE  /\ Consumed(c) \in Seq(ChallengeRows) /\ DOMAIN Consumed(c) = DOMAIN challenge
         /\ Consumed(c) = [d \in DOMAIN Consumed(c) |-> Consumed(c)[d]]
         /\ \A d \in DOMAIN challenge \ {c} : Consumed(c)[d] = challenge[d]
         /\ LET row == Consumed(c)[c] IN
            /\ row.status = "VERIFIED" /\ row.code = challenge[c].code /\ row.purpose = challenge[c].purpose
            /\ row.email = challenge[c].email
            /\ row.change = challenge[c].change /\ row.owner = challenge[c].owner /\ row.customer = challenge[c].customer
<1>1. challenge[c] \in ChallengeRows
  BY AccessTables
<1> DEFINE verified == [challenge EXCEPT ![c].status = "VERIFIED"]
           row == [verified[c] EXCEPT !.guesses = @ + 1]
<1>2. Consumed(c) = [verified EXCEPT ![c].guesses = @ + 1]
  BY Zenon DEF Consumed
<1>3. /\ verified[c] = [challenge[c] EXCEPT !.status = "VERIFIED"]
      /\ verified = [d \in DOMAIN challenge |-> IF d = c THEN verified[c] ELSE challenge[d]]
  OBVIOUS
<1>4. challenge[c].guesses + 1 \in 0..MaxGuesses
  BY <1>1, AccessAssumption DEF ChallengeRows, Pending
<1>5. /\ verified[c] \in ChallengeRows /\ verified[c].guesses = challenge[c].guesses /\ verified[c].status = "VERIFIED"
      /\ verified[c].code = challenge[c].code /\ verified[c].email = challenge[c].email /\ verified[c].purpose = challenge[c].purpose
      /\ verified[c].change = challenge[c].change /\ verified[c].owner = challenge[c].owner
      /\ verified[c].customer = challenge[c].customer
  BY <1>1, <1>3 DEF ChallengeRows
<1> HIDE DEF verified
<1>6. /\ row \in ChallengeRows /\ row.status = "VERIFIED"
      /\ row.code = challenge[c].code /\ row.email = challenge[c].email /\ row.purpose = challenge[c].purpose
      /\ row.change = challenge[c].change /\ row.owner = challenge[c].owner /\ row.customer = challenge[c].customer
  BY <1>4, <1>5 DEF ChallengeRows
<1>7. Consumed(c) = [d \in DOMAIN challenge |-> IF d = c THEN row ELSE challenge[d]]
  BY <1>2, <1>3
<1> HIDE DEF row
<1>8. /\ DOMAIN Consumed(c) = DOMAIN challenge
      /\ Consumed(c) = [d \in DOMAIN Consumed(c) |-> Consumed(c)[d]]
      /\ \A d \in DOMAIN challenge : Consumed(c)[d] = IF d = c THEN row ELSE challenge[d]
  BY <1>7
<1>9. \A d \in DOMAIN challenge : Consumed(c)[d] \in ChallengeRows
  BY <1>6, <1>8, AccessTables
<1>10. Consumed(c) \in Seq(ChallengeRows)
  BY <1>8, <1>9, RewrittenRows DEF AccessTyped
<1>11. QED
  BY <1>6, <1>8, <1>10

(* A code found right signs a device in.                                   *)
LEMMA VerifiedStep ==
  ASSUME AccessInv, NEW c \in DOMAIN challenge, NEW code \in 1..challenge[c].code, NEW h \in Confirmable(c),
         Pending(c), StillMatches(c, code),
         identity' = h.all,
         link' = [k \in Customers |-> IF k \in challenge[c].customer THEN h.one ELSE link[k]],
         signin' = WithinLimit(Append(signin,
           [owner |-> h.one, live |-> TRUE, from |-> c, proof |-> c, code |-> code]), h.one),
         challenge' = Consumed(c)
  PROVE  AccessInv'
<1> DEFINE device == [owner |-> h.one, live |-> TRUE, from |-> c, proof |-> c, code |-> code]
           all == Append(signin, device)
           last == Len(signin) + 1
<1>1. AccessTyped /\ SigninsProved /\ IdentitiesSound
  BY DEF AccessInv
<1>2. /\ challenge[c] \in ChallengeRows /\ RowSound(challenge[c]) /\ DOMAIN challenge = 1..Len(challenge)
      /\ DOMAIN identity = 1..Len(identity) /\ Len(identity) \in Nat
  BY <1>1, AccessTables DEF AccessTyped
<1>3. /\ identity' \in Seq(Addresses) /\ h.one \in DOMAIN identity' /\ identity'[h.one] = challenge[c].email
      /\ DOMAIN identity \subseteq DOMAIN identity' /\ DOMAIN identity' \subseteq DOMAIN identity \cup {h.one}
      /\ Len(identity') \in Nat /\ Len(identity') >= Len(identity) /\ DOMAIN identity' = 1..Len(identity')
      /\ \A i \in DOMAIN identity : identity'[i] = identity[i]
      /\ \A i, j \in DOMAIN identity' : identity'[i] = identity'[j] => i = j
  BY AddressConfirmed, LenProperties
<1>4. challenge[c].customer # {} =>
        (\E k \in challenge[c].customer : link[k] = h.one) \/ \A k \in Customers : link[k] # h.one
  BY AddressConfirmed
<1>5. /\ challenge' \in Seq(ChallengeRows) /\ DOMAIN challenge' = DOMAIN challenge
      /\ \A d \in DOMAIN challenge \ {c} : challenge'[d] = challenge[d]
      /\ challenge'[c].status = "VERIFIED" /\ challenge'[c].code = challenge[c].code
      /\ challenge'[c].email = challenge[c].email /\ challenge'[c].purpose = challenge[c].purpose /\ challenge'[c].change = challenge[c].change
      /\ challenge'[c].owner = challenge[c].owner /\ challenge'[c].customer = challenge[c].customer
  BY <1>1, ConsumedRow
<1>6. code = challenge[c].code
  BY DEF StillMatches
<1>7. device \in Signins
  BY <1>2, <1>3, <1>6 DEF ChallengeRows, Signins
<1>8. /\ all \in Seq(Signins) /\ DOMAIN all = 1..last /\ DOMAIN signin = 1..Len(signin) /\ Len(signin) \in Nat
      /\ \A s \in DOMAIN signin : all[s] = signin[s]
      /\ all[last] = device
  BY <1>1, <1>7, AppendRow DEF AccessTyped
<1>9. device.owner = h.one /\ device.proof = c /\ device.from = c /\ device.code = code
  OBVIOUS
<1> HIDE DEF device, all
<1>10. signin' = WithinLimit(all, h.one)
  BY DEF all, device
<1> DEFINE kept == WithinLimit(all, h.one)
<1>e. Limited(kept, all, h.one)
  BY <1>8, LimitHolds
<1> HIDE DEF kept
<1>a. /\ kept \in Seq(Signins) /\ DOMAIN kept = DOMAIN all
      /\ \A s \in DOMAIN all :
           /\ kept[s].owner = all[s].owner /\ kept[s].proof = all[s].proof /\ kept[s].from = all[s].from
           /\ kept[s].code = all[s].code /\ (kept[s].live => all[s].live)
           /\ all[s].owner # h.one => kept[s] = all[s]
      /\ Cardinality({s \in DOMAIN all : kept[s].live /\ kept[s].owner = h.one}) <= MaxActive
  BY <1>e DEF Limited
<1>b. signin' = kept
  BY <1>10 DEF kept
<1>11. /\ signin' \in Seq(Signins) /\ DOMAIN signin' = DOMAIN signin \cup {last} /\ DOMAIN signin' = DOMAIN all
       /\ Cardinality({s \in DOMAIN all : signin'[s].live /\ signin'[s].owner = h.one}) <= MaxActive
  <2>1. Cardinality({s \in DOMAIN all : signin'[s].live /\ signin'[s].owner = h.one}) <= MaxActive
    BY <1>a, <1>b, Zenon
  <2>2. DOMAIN all = DOMAIN signin \cup {last}
    BY <1>8
  <2>3. QED
    BY <1>a, <1>b, <2>1, <2>2
<1>c. \A s \in DOMAIN signin :
            /\ signin'[s].owner = signin[s].owner /\ signin'[s].proof = signin[s].proof
            /\ signin'[s].from = signin[s].from /\ signin'[s].code = signin[s].code
            /\ signin'[s].live => signin[s].live
            /\ signin[s].owner # h.one => signin'[s] = signin[s]
  BY <1>8, <1>a, <1>b
<1>d. /\ signin'[last].owner = h.one /\ signin'[last].proof = c
      /\ signin'[last].from = c /\ signin'[last].code = code
  BY <1>8, <1>9, <1>a, <1>b
<1>12. challenge[c].status # "VERIFIED" /\ ~Admits(challenge[c]) /\ Admits(challenge'[c])
  BY <1>2, <1>5 DEF Admits, Pending, RowSound
<1>13. last \notin DOMAIN signin
  BY <1>8
<1> HIDE DEF last
<1>14. AccessTyped'
  <2>1. ASSUME NEW d \in DOMAIN challenge' PROVE RowSound(challenge[d])'
    <3>1. /\ RowSound(challenge[d])
          /\ challenge'[d].owner = challenge[d].owner /\ challenge'[d].change = challenge[d].change
          /\ challenge'[d].purpose = challenge[d].purpose /\ challenge'[d].customer = challenge[d].customer
          /\ (challenge'[d].status = "VERIFIED" \/ challenge'[d] = challenge[d])
      BY <1>1, <1>5 DEF AccessTyped
    <3>2. QED
      BY <1>2, <1>3, <3>1 DEF RowSound
  <2>2. link' \in [Customers -> 0..Len(identity')]
    BY <1>1, <1>2, <1>3 DEF AccessTyped
  <2>3. ASSUME NEW s \in DOMAIN signin'
        PROVE  /\ signin'[s].owner \in DOMAIN identity'
               /\ signin'[s].from \in DOMAIN challenge' /\ signin'[s].proof \in DOMAIN challenge'
    <3>1. CASE s = last
      BY <1>3, <1>5, <1>d, <3>1
    <3>2. CASE s \in DOMAIN signin
      <4>1. /\ signin[s].owner \in DOMAIN identity
            /\ signin[s].from \in DOMAIN challenge /\ signin[s].proof \in DOMAIN challenge
        BY <1>1, <3>2 DEF AccessTyped
      <4>2. QED
        BY <1>3, <1>5, <1>c, <3>2, <4>1
    <3>3. QED
      BY <1>11, <3>1, <3>2
  <2>4. QED
    BY <1>3, <1>5, <1>11, <2>1, <2>2, <2>3, Zenon DEF AccessTyped
<1>15. SigninsProved'
  <2>1. \A s \in DOMAIN signin : signin[s].from # c /\ signin[s].proof # c
    BY <1>1, <1>12 DEF SigninsProved
  <2>2. ASSUME NEW s \in DOMAIN signin'
        PROVE  /\ signin'[s].live => identity'[signin'[s].owner] = challenge'[signin'[s].proof].email
               /\ challenge'[signin'[s].proof].status = "VERIFIED"
               /\ signin'[s].code = challenge'[signin'[s].proof].code
               /\ Admits(challenge'[signin'[s].from])
    <3>1. CASE s = last
      BY <1>3, <1>5, <1>6, <1>d, <1>12, <3>1
    <3>2. CASE s \in DOMAIN signin
      <4>1. /\ signin[s].live => identity[signin[s].owner] = challenge[signin[s].proof].email
            /\ challenge[signin[s].proof].status = "VERIFIED"
            /\ signin[s].code = challenge[signin[s].proof].code
            /\ Admits(challenge[signin[s].from]) /\ signin[s].owner \in DOMAIN identity
            /\ signin[s].from \in DOMAIN challenge \ {c} /\ signin[s].proof \in DOMAIN challenge \ {c}
        BY <1>1, <2>1, <3>2 DEF SigninsProved, AccessTyped
      <4>2. /\ challenge'[signin[s].from] = challenge[signin[s].from]
            /\ challenge'[signin[s].proof] = challenge[signin[s].proof]
            /\ identity'[signin[s].owner] = identity[signin[s].owner]
        BY <1>3, <1>5, <4>1
      <4>3. /\ signin'[s].live => signin[s].live
            /\ signin'[s].owner = signin[s].owner /\ signin'[s].code = signin[s].code
            /\ signin'[s].proof = signin[s].proof /\ signin'[s].from = signin[s].from
        BY <1>c, <3>2
      <4>4. QED
        BY <4>1, <4>2, <4>3
    <3>3. QED
      BY <1>11, <3>1, <3>2
  <2>3. ASSUME NEW s \in DOMAIN signin', NEW n \in DOMAIN signin', signin'[s].from = signin'[n].from PROVE s = n
    <3>1. \A x \in DOMAIN signin : signin'[x].from = signin[x].from /\ signin'[x].from # c
      BY <1>c, <2>1
    <3>2. CASE s \in DOMAIN signin /\ n \in DOMAIN signin
      BY <1>1, <2>3, <3>1, <3>2 DEF SigninsProved
    <3>3. CASE s = last \/ n = last
      BY <1>11, <1>d, <2>3, <3>1, <3>3
    <3>4. QED
      BY <1>11, <3>2, <3>3
  <2>4. ASSUME NEW d \in DOMAIN challenge', Admits(challenge'[d]) PROVE \E s \in DOMAIN signin' : signin'[s].from = d
    <3>1. CASE d = c
      BY <1>11, <1>d, <3>1
    <3>2. CASE d # c
      <4>1. PICK s \in DOMAIN signin : signin[s].from = d
        BY <1>1, <1>5, <2>4, <3>2 DEF SigninsProved
      <4>2. QED
        BY <1>11, <1>c, <4>1
    <3>3. QED
      BY <3>1, <3>2
  <2>5. QED
    BY <2>2, <2>3, <2>4 DEF SigninsProved, Admits
<1>16. IdentitiesSound'
  <2>1. \A j, k \in Customers : link'[j] = link'[k] /\ link'[j] # 0 => j = k
    <3>1. \A j, k \in challenge[c].customer : j = k
      BY <1>2 DEF RowSound
    <3>2. \A j, k \in Customers : link[j] = link[k] /\ link[j] # 0 => j = k
      BY <1>1 DEF IdentitiesSound
    <3>3. h.one # 0
      BY <1>3
    <3>4. QED
      BY <1>4, <3>1, <3>2, <3>3
  <2>2. ASSUME NEW i \in DOMAIN identity' PROVE Cardinality(LiveSessions(i)') <= MaxActive
    <3>1. CASE i = h.one
      <4>1. LiveSessions(i)' = {s \in DOMAIN all : signin'[s].live /\ signin'[s].owner = h.one}
        BY <1>11, <3>1 DEF LiveSessions
      <4>2. QED
        BY <1>11, <4>1
    <3>2. CASE i # h.one
      <4>1. ASSUME NEW s PROVE s \in LiveSessions(i)' <=> s \in LiveSessions(i)
        <5>1. CASE s = last
          BY <1>d, <1>13, <3>2, <5>1 DEF LiveSessions
        <5>2. CASE s \in DOMAIN signin
          BY <1>11, <1>c, <3>2, <5>2 DEF LiveSessions
        <5>3. CASE s \notin DOMAIN signin'
          BY <1>11, <5>3 DEF LiveSessions
        <5>4. QED
          BY <1>11, <5>1, <5>2, <5>3
      <4>2. LiveSessions(i)' = LiveSessions(i)
        BY <4>1 DEF LiveSessions
      <4>3. QED
        BY <1>1, <1>3, <3>2, <4>2 DEF IdentitiesSound
    <3>3. QED
      BY <3>1, <3>2
  <2>3. QED
    BY <1>3, <2>1, <2>2 DEF IdentitiesSound
<1>17. QED
  BY <1>14, <1>15, <1>16 DEF AccessInv

(* Fewer sessions are within the limit.                                    *)
LEMMA FewerRows ==
  ASSUME NEW now, IsFiniteSet(now), NEW then \in SUBSET now, Cardinality(now) <= MaxActive
  PROVE  Cardinality(then) <= MaxActive
<1>1. Cardinality(then) <= Cardinality(now) /\ IsFiniteSet(then)
  BY FS_Subset
<1>2. Cardinality(then) \in Nat /\ Cardinality(now) \in Nat
  BY <1>1, FS_CardinalityType
<1>3. QED
  BY <1>1, <1>2, AccessAssumption

(* Sessions end.                                                           *)
LEMMA SessionsEndStep ==
  ASSUME AccessInv, UNCHANGED <<challenge, identity, link>>, signin' \in Seq(Signins), DOMAIN signin' = DOMAIN signin,
         \A s \in DOMAIN signin :
            /\ signin'[s].owner = signin[s].owner /\ signin'[s].proof = signin[s].proof
            /\ signin'[s].from = signin[s].from /\ signin'[s].code = signin[s].code
            /\ signin'[s].live => signin[s].live
  PROVE  AccessInv'
<1>1. AccessTyped /\ SigninsProved /\ IdentitiesSound
  BY DEF AccessInv
<1>2. AccessTyped'
  BY <1>1 DEF AccessTyped, RowSound
<1>a. challenge' = challenge /\ identity' = identity
  OBVIOUS
<1>3. SigninsProved'
  <2>1. ASSUME NEW s \in DOMAIN signin
        PROVE  /\ signin'[s].live => identity'[signin'[s].owner] = challenge'[signin'[s].proof].email
               /\ challenge'[signin'[s].proof].status = "VERIFIED"
               /\ signin'[s].code = challenge'[signin'[s].proof].code
               /\ Admits(challenge'[signin'[s].from])
    <3>1. /\ signin[s].live => identity[signin[s].owner] = challenge[signin[s].proof].email
          /\ challenge[signin[s].proof].status = "VERIFIED"
          /\ signin[s].code = challenge[signin[s].proof].code
          /\ Admits(challenge[signin[s].from])
      BY <1>1 DEF SigninsProved
    <3>2. QED
      BY <1>a, <3>1
  <2>2. \A s, n \in DOMAIN signin' : signin'[s].from = signin'[n].from => s = n
    BY <1>1 DEF SigninsProved
  <2>3. \A c \in DOMAIN challenge' : Admits(challenge'[c]) => \E s \in DOMAIN signin' : signin'[s].from = c
    BY <1>1, <1>a DEF SigninsProved
  <2>4. QED
    BY <2>1, <2>2, <2>3 DEF SigninsProved, Admits
<1>4. ASSUME NEW i \in DOMAIN identity PROVE Cardinality(LiveSessions(i)') <= MaxActive
  <2>1. LiveSessions(i)' \subseteq LiveSessions(i) /\ LiveSessions(i) \in SUBSET DOMAIN signin
    BY DEF LiveSessions
  <2>2. IsFiniteSet(LiveSessions(i))
    BY <1>1, <2>1, FiniteRows DEF AccessTyped
  <2>3. Cardinality(LiveSessions(i)) <= MaxActive
    BY <1>1 DEF IdentitiesSound
  <2>4. QED
    BY <2>1, <2>2, <2>3, FewerRows
<1>5. IdentitiesSound'
  BY <1>1, <1>4 DEF IdentitiesSound
<1>6. QED
  BY <1>2, <1>3, <1>5 DEF AccessInv

(* The other devices of an identity are signed out.                        *)
LEMMA RevokedRows ==
  ASSUME AccessTyped, NEW s \in DOMAIN signin, NEW kept, kept = OthersRevoked(s)
  PROVE  /\ kept \in Seq(Signins) /\ DOMAIN kept = DOMAIN signin /\ kept = [n \in DOMAIN kept |-> kept[n]]
         /\ \A n \in DOMAIN signin :
              /\ kept[n].owner = signin[n].owner /\ kept[n].proof = signin[n].proof
              /\ kept[n].from = signin[n].from /\ kept[n].code = signin[n].code
              /\ kept[n].live => signin[n].live
              /\ n # s /\ signin[n].owner = signin[s].owner => ~kept[n].live
         /\ kept[s] = signin[s]
<1>1. DOMAIN kept = DOMAIN signin /\ kept = [n \in DOMAIN kept |-> kept[n]]
  BY Zenon DEF OthersRevoked
<1>2. ASSUME NEW n \in DOMAIN signin
      PROVE  /\ kept[n] \in Signins
             /\ kept[n].owner = signin[n].owner /\ kept[n].proof = signin[n].proof
             /\ kept[n].from = signin[n].from /\ kept[n].code = signin[n].code
             /\ kept[n].live => signin[n].live
             /\ n # s /\ signin[n].owner = signin[s].owner => ~kept[n].live
  <2>1. signin[n] \in Signins
    BY AccessTables
  <2>2. kept[n] = IF n # s /\ signin[n].owner = signin[s].owner THEN [signin[n] EXCEPT !.live = FALSE] ELSE signin[n]
    BY DEF OthersRevoked
  <2>3. QED
    BY <2>1, <2>2 DEF Signins
<1>3. kept[s] = signin[s]
  BY DEF OthersRevoked
<1>4. kept \in Seq(Signins)
  BY <1>1, <1>2, RewrittenRows DEF AccessTyped
<1>5. QED
  BY <1>1, <1>2, <1>3, <1>4

(* Sessions end and admit nobody more.                                     *)
LEMMA SessionEndStep ==
  ASSUME AccessInv, NEW s \in DOMAIN signin, SessionEnds(s) \/ RevokeOthers(s) PROVE AccessInv'
<1>1. AccessTyped
  BY DEF AccessInv
<1>2. CASE SessionEnds(s)
  <2> DEFINE row == [signin[s] EXCEPT !.live = FALSE]
  <2>1. /\ row \in Signins /\ row.owner = signin[s].owner /\ row.proof = signin[s].proof
        /\ row.from = signin[s].from /\ row.code = signin[s].code /\ ~row.live
    BY <1>1, AccessTables DEF Signins
  <2>2. signin' = [signin EXCEPT ![s] = row] /\ UNCHANGED <<challenge, identity, link>>
    BY <1>2 DEF SessionEnds
  <2> HIDE DEF row
  <2>3. DOMAIN signin = 1..Len(signin)
    BY <1>1, AccessTables
  <2>4. /\ signin' \in Seq(Signins) /\ Len(signin') = Len(signin)
        /\ \A n \in 1..Len(signin) : signin'[n] = IF n = s THEN row ELSE signin[n]
    BY <1>1, <2>1, <2>2, <2>3, ExceptSeq DEF AccessTyped
  <2>5. DOMAIN signin' = DOMAIN signin
    BY <2>2
  <2>6. QED
    BY <2>1, <2>2, <2>3, <2>4, <2>5, SessionsEndStep
<1>3. CASE RevokeOthers(s)
  <2>1. signin' = OthersRevoked(s) /\ UNCHANGED <<challenge, identity, link>>
    BY <1>3 DEF RevokeOthers
  <2>2. /\ signin' \in Seq(Signins) /\ DOMAIN signin' = DOMAIN signin
        /\ \A n \in DOMAIN signin :
             /\ signin'[n].owner = signin[n].owner /\ signin'[n].proof = signin[n].proof
             /\ signin'[n].from = signin[n].from /\ signin'[n].code = signin[n].code
             /\ signin'[n].live => signin[n].live
    BY <1>1, <2>1, RevokedRows
  <2>3. QED
    BY <2>1, <2>2, SessionsEndStep
<1>4. QED
  BY <1>2, <1>3

(* A change of address is confirmed: the session that asked goes on, proved*)
(* by the new address; the others end.                                     *)
LEMMA ConfirmEmailChangeStep ==
  ASSUME AccessInv, NEW c \in DOMAIN challenge, NEW code \in 1..challenge[c].code, NEW s \in DOMAIN signin,
         ConfirmEmailChange(c, s, code)
  PROVE  AccessInv'
<1> DEFINE owner == signin[s].owner
           email == challenge[c].email
           kept == OthersRevoked(s)
           done == Consumed(c)
           row == [done[c] EXCEPT !.change = "COMPLETED"]
           proved == [kept[s] EXCEPT !.proof = c]
           mine == [proved EXCEPT !.code = code]
<1>1. AccessTyped /\ SigninsProved /\ IdentitiesSound
  BY DEF AccessInv
<1>2. /\ Changeable(c, s) /\ identity' = [identity EXCEPT ![owner] = email]
      /\ signin' = [[kept EXCEPT ![s].proof = c] EXCEPT ![s].code = code]
      /\ challenge' = [done EXCEPT ![c] = row] /\ link' = link
  BY Zenon DEF ConfirmEmailChange
<1>b. code = challenge[c].code
  BY DEF ConfirmEmailChange, StillMatches
<1>3. /\ challenge[c] \in ChallengeRows /\ RowSound(challenge[c]) /\ signin[s] \in Signins /\ owner \in DOMAIN identity
      /\ DOMAIN identity = 1..Len(identity) /\ email \in Addresses
  BY <1>1, AccessTables DEF AccessTyped, ChallengeRows
<1>4. /\ Pending(c) /\ challenge[c].change = "PENDING" /\ challenge[c].purpose = "EMAIL_CHANGE_NEW"
      /\ owner = challenge[c].owner /\ Holders(email) \subseteq {owner} /\ signin[s].live
  BY <1>2, <1>3 DEF Changeable, RowSound
<1>5. /\ done \in Seq(ChallengeRows) /\ DOMAIN done = DOMAIN challenge
      /\ \A d \in DOMAIN challenge \ {c} : done[d] = challenge[d]
      /\ done[c].status = "VERIFIED" /\ done[c].purpose = challenge[c].purpose
      /\ done[c].owner = challenge[c].owner /\ done[c].customer = challenge[c].customer
      /\ done[c].email = challenge[c].email /\ done[c].code = challenge[c].code
  BY <1>1, <1>4, ConsumedRow
<1> HIDE DEF done
<1>a. done[c] \in ChallengeRows
  BY <1>5, LenProperties, ElementOfSeq
<1>6. /\ row \in ChallengeRows /\ row.purpose = "EMAIL_CHANGE_NEW" /\ row.status = "VERIFIED" /\ row.owner = challenge[c].owner
      /\ row.customer = challenge[c].customer /\ row.email = challenge[c].email /\ row.code = challenge[c].code
      /\ row.change = "COMPLETED"
  BY <1>4, <1>5, <1>a DEF ChallengeRows
<1> HIDE DEF row
<1>7. /\ challenge' \in Seq(ChallengeRows) /\ DOMAIN challenge' = DOMAIN challenge
      /\ \A d \in DOMAIN challenge : challenge'[d] = IF d = c THEN row ELSE challenge[d]
  BY <1>2, <1>5, <1>6, ExceptSeq, LenProperties
<1>8. /\ kept \in Seq(Signins) /\ DOMAIN kept = DOMAIN signin /\ kept[s] = signin[s]
      /\ \A n \in DOMAIN signin :
           /\ kept[n].owner = signin[n].owner /\ kept[n].proof = signin[n].proof
           /\ kept[n].from = signin[n].from /\ kept[n].code = signin[n].code
           /\ kept[n].live => signin[n].live
           /\ n # s /\ signin[n].owner = owner => ~kept[n].live
  BY <1>1, RevokedRows
<1>c. signin' = [kept EXCEPT ![s] = mine]
  BY <1>2, <1>8
<1> HIDE DEF kept
<1>9. /\ mine \in Signins /\ mine.owner = owner /\ mine.proof = c /\ mine.from = signin[s].from
      /\ mine.code = challenge[c].code
  <2>1. c \in Nat /\ code \in 1..MaxCodes
    BY <1>1, <1>3, <1>b, AccessTables DEF ChallengeRows
  <2>2. kept[s] \in Signins
    BY <1>3, <1>8
  <2>3. /\ proved \in Signins /\ proved.owner = owner /\ proved.proof = c /\ proved.from = signin[s].from
    BY <1>8, <2>1, <2>2 DEF Signins
  <2> HIDE DEF proved
  <2>4. QED
    BY <1>b, <2>1, <2>3 DEF Signins
<1> HIDE DEF mine
<1>10. /\ signin' \in Seq(Signins) /\ DOMAIN signin' = DOMAIN signin
       /\ \A n \in DOMAIN signin : signin'[n] = IF n = s THEN mine ELSE kept[n]
  BY <1>8, <1>9, <1>c, ExceptSeq, LenProperties
<1>11. /\ identity' \in Seq(Addresses) /\ DOMAIN identity' = DOMAIN identity /\ Len(identity') = Len(identity)
       /\ \A i \in DOMAIN identity : identity'[i] = IF i = owner THEN email ELSE identity[i]
  BY <1>1, <1>2, <1>3, ExceptSeq, LenProperties DEF AccessTyped
<1> HIDE DEF owner, email
<1>12. AccessTyped'
  <2>1. ASSUME NEW d \in DOMAIN challenge' PROVE RowSound(challenge[d])'
    <3>1. RowSound(challenge[d])
      BY <1>1, <1>7 DEF AccessTyped
    <3>2. QED
      BY <1>3, <1>6, <1>7, <1>11, <3>1 DEF RowSound
  <2>2. \A n \in DOMAIN signin' :
          /\ signin'[n].owner \in DOMAIN identity'
          /\ signin'[n].from \in DOMAIN challenge' /\ signin'[n].proof \in DOMAIN challenge'
    BY <1>1, <1>3, <1>7, <1>8, <1>9, <1>10, <1>11 DEF AccessTyped
  <2>3. QED
    BY <1>1, <1>2, <1>7, <1>10, <1>11, <2>1, <2>2 DEF AccessTyped
<1>13. SigninsProved'
  <2>0. \A n \in DOMAIN signin : signin'[n].from = signin[n].from
    BY <1>8, <1>9, <1>10
  <2>1. challenge[c].status # "VERIFIED" /\ ~Admits(challenge[c]) /\ ~Admits(challenge'[c])
    BY <1>4, <1>6, <1>7 DEF Admits, Pending
  <2>2. \A d \in DOMAIN challenge : challenge[d].status = "VERIFIED" => challenge'[d] = challenge[d]
    BY <1>7, <2>1
  <2>3. ASSUME NEW n \in DOMAIN signin'
        PROVE  /\ signin'[n].live => identity'[signin'[n].owner] = challenge'[signin'[n].proof].email
               /\ challenge'[signin'[n].proof].status = "VERIFIED"
               /\ signin'[n].code = challenge'[signin'[n].proof].code
               /\ Admits(challenge'[signin'[n].from])
    <3>1. /\ signin[n].live => identity[signin[n].owner] = challenge[signin[n].proof].email
          /\ challenge[signin[n].proof].status = "VERIFIED"
          /\ signin[n].code = challenge[signin[n].proof].code
          /\ Admits(challenge[signin[n].from]) /\ signin[n].owner \in DOMAIN identity
          /\ signin[n].from \in DOMAIN challenge /\ signin[n].proof \in DOMAIN challenge
      BY <1>1, <1>10 DEF SigninsProved, AccessTyped
    <3>2. Admits(challenge'[signin'[n].from])
      BY <1>10, <2>0, <2>2, <3>1 DEF Admits
    <3>3. CASE n = s
      <4>1. signin'[n] = mine /\ challenge'[c] = row
        BY <1>7, <1>10, <3>3
      <4>2. identity'[owner] = email /\ row.email = email
        BY <1>3, <1>6, <1>11 DEF email
      <4>3. QED
        BY <1>6, <1>9, <3>2, <4>1, <4>2
    <3>4. CASE n # s
      <4>1. signin'[n] = kept[n]
        BY <1>10, <3>4
      <4>2. challenge'[signin[n].proof] = challenge[signin[n].proof]
        BY <2>2, <3>1
      <4>3. kept[n].live => signin[n].owner # owner /\ signin[n].live
        BY <1>8, <1>10, <3>4
      <4>4. signin[n].owner # owner => identity'[signin[n].owner] = identity[signin[n].owner]
        BY <1>11, <3>1
      <4>5. QED
        BY <1>8, <1>10, <3>1, <3>2, <4>1, <4>2, <4>3, <4>4
    <3>5. QED
      BY <3>3, <3>4
  <2>4. \A a, b \in DOMAIN signin' : signin'[a].from = signin'[b].from => a = b
    BY <1>1, <1>10, <2>0 DEF SigninsProved
  <2>5. ASSUME NEW d \in DOMAIN challenge', Admits(challenge'[d]) PROVE \E n \in DOMAIN signin' : signin'[n].from = d
    <3>1. Admits(challenge[d])
      BY <1>7, <2>1, <2>5
    <3>2. PICK n \in DOMAIN signin : signin[n].from = d
      BY <1>1, <1>7, <3>1 DEF SigninsProved
    <3>3. QED
      BY <1>10, <2>0, <3>2
  <2>6. QED
    BY <2>3, <2>4, <2>5 DEF SigninsProved, Admits
<1>14. IdentitiesSound'
  <2>1. \A i, j \in DOMAIN identity' : identity'[i] = identity'[j] => i = j
    BY <1>1, <1>4, <1>11 DEF IdentitiesSound, Holders
  <2>2. ASSUME NEW i \in DOMAIN identity' PROVE Cardinality(LiveSessions(i)') <= MaxActive
    <3>1. CASE i = owner
      <4>1. LiveSessions(i)' \subseteq {s}
        BY <1>8, <1>10, <3>1 DEF LiveSessions
      <4>2. LiveSessions(i)' = {} \/ LiveSessions(i)' = {s}
        BY <4>1
      <4>3. Cardinality(LiveSessions(i)') = 0 \/ Cardinality(LiveSessions(i)') = 1
        BY <4>2, FS_EmptySet, FS_Singleton
      <4>4. QED
        BY <4>3, AccessAssumption
    <3>2. CASE i # owner
      <4>1. LiveSessions(i)' \subseteq LiveSessions(i) /\ LiveSessions(i) \in SUBSET DOMAIN signin
        BY <1>8, <1>9, <1>10, <3>2 DEF LiveSessions
      <4>2. IsFiniteSet(LiveSessions(i))
        BY <1>1, <4>1, FiniteRows DEF AccessTyped
      <4>3. Cardinality(LiveSessions(i)) <= MaxActive
        BY <1>1, <1>11 DEF IdentitiesSound
      <4>4. QED
        BY <4>1, <4>2, <4>3, FewerRows
    <3>3. QED
      BY <3>1, <3>2
  <2>3. QED
    BY <1>1, <1>2, <2>1, <2>2 DEF IdentitiesSound
<1>15. QED
  BY <1>12, <1>13, <1>14 DEF AccessInv

-----------------------------------------------------------------------------
(* Every step keeps the invariant.                                         *)
LEMMA AccessStep == ASSUME AccessInv, [AccessNext]_accessVars PROVE AccessInv'
<1>1. CASE RequestCode
  BY <1>1, RequestCodeStep
<1>2. ASSUME NEW c \in DOMAIN challenge, CodeSent(c) PROVE AccessInv'
  BY <1>2, CodeSentStep
<1>3. ASSUME NEW c \in DOMAIN challenge,
             SendFailed(c) \/ SenderKilled(c) \/ ResendCode(c) \/ CodeResent(c) \/ ChangeCodeSent(c)
      PROVE  AccessInv'
  BY <1>3, SendStep
<1>4. ASSUME NEW c \in DOMAIN challenge, RecordFailedAttempt(c) PROVE AccessInv'
  <2>1. /\ challenge[c].status = "PENDING" /\ challenge' = Guessed(c) /\ UNCHANGED <<identity, link, signin>>
    BY <1>4 DEF RecordFailedAttempt
  <2>2. RowSound(challenge[c])
    BY DEF AccessInv, AccessTyped
  <2>3. QED
    BY <2>1, <2>2, GuessedStep DEF RowSound
<1>5. ASSUME NEW c \in DOMAIN challenge, NEW code \in 1..challenge[c].code, VerifyCode(c, code) PROVE AccessInv'
  <2>1. CASE StillMatches(c, code)
    <3>1. PICK h \in Confirmable(c) :
             /\ identity' = h.all
             /\ link' = [k \in Customers |-> IF k \in challenge[c].customer THEN h.one ELSE link[k]]
             /\ signin' = WithinLimit(Append(signin,
                  [owner |-> h.one, live |-> TRUE, from |-> c, proof |-> c, code |-> code]), h.one)
             /\ challenge' = Consumed(c)
      BY <1>5, <2>1 DEF VerifyCode
    <3>2. Pending(c)
      BY <1>5 DEF VerifyCode
    <3>3. QED
      BY <2>1, <3>1, <3>2, VerifiedStep
  <2>2. CASE ~StillMatches(c, code)
    <3>1. challenge' = Guessed(c) /\ UNCHANGED <<identity, link, signin>> /\ Pending(c)
      BY <1>5, <2>2 DEF VerifyCode
    <3>2. QED
      BY <3>1, GuessedStep DEF Pending
  <2>3. QED
    BY <2>1, <2>2
<1>6. ASSUME NEW c \in DOMAIN challenge, NEW code \in 1..challenge[c].code, NEW s \in DOMAIN signin,
             ConfirmEmailChange(c, s, code)
      PROVE  AccessInv'
  BY <1>6, ConfirmEmailChangeStep
<1>7. ASSUME NEW s \in DOMAIN signin, RequestEmailChange(s) PROVE AccessInv'
  BY <1>7, RequestEmailChangeStep
<1>8. ASSUME NEW s \in DOMAIN signin, SessionEnds(s) \/ RevokeOthers(s) PROVE AccessInv'
  BY <1>8, SessionEndStep
<1>9. CASE UNCHANGED accessVars
  BY <1>9 DEF accessVars, AccessInv, AccessTyped, RowSound, SigninsProved, Admits, IdentitiesSound, LiveSessions
<1>10. QED
  BY <1>1, <1>2, <1>3, <1>4, <1>5, <1>6, <1>7, <1>8, <1>9 DEF AccessNext

(* The invariant says what access promises.                                *)
LEMMA AccessInvImplies == ASSUME AccessInv PROVE AccessTypeOK /\ AccessIsProved
<1>1. AccessTyped /\ SigninsProved /\ IdentitiesSound
  BY DEF AccessInv
<1>2. AccessTypeOK
  <2>1. ASSUME NEW c \in DOMAIN challenge
        PROVE challenge[c] \in
         [email : Addresses, purpose : Purposes, customer : SUBSET Customers, owner : 0..Len(identity),
          before : SUBSET Addresses, status : {"PENDING", "VERIFIED", "FAILED", "CANCELLED"},
          change : {"NONE", "PENDING", "CANCELLED", "FAILED", "COMPLETED"}, code : 1..MaxCodes,
          guesses : 0..MaxGuesses, sending : {"NONE", "START", "RESEND"}, told : BOOLEAN]
    <3>1. challenge[c] \in ChallengeRows /\ challenge[c].owner \in 0..Len(identity)
      BY <1>1, AccessTables DEF AccessTyped, RowSound
    <3>2. QED
      BY <3>1 DEF ChallengeRows
  <2>2. ASSUME NEW s \in DOMAIN signin
        PROVE signin[s] \in [owner : DOMAIN identity, live : BOOLEAN, from : DOMAIN challenge,
                             proof : DOMAIN challenge, code : 1..MaxCodes]
    BY <1>1, AccessTables DEF AccessTyped, Signins
  <2>3. QED
    BY <1>1, <2>1, <2>2, AccessTables DEF AccessTypeOK, AccessTyped
<1>3. ASSUME NEW c \in DOMAIN challenge
      PROVE  Cardinality({s \in DOMAIN signin : signin[s].from = c})
         = IF challenge[c].status = "VERIFIED" /\ challenge[c].change # "COMPLETED" THEN 1 ELSE 0
  <2> DEFINE of == {s \in DOMAIN signin : signin[s].from = c}
  <2>1. CASE Admits(challenge[c])
    <3>1. PICK s \in DOMAIN signin : signin[s].from = c
      BY <1>1, <2>1 DEF SigninsProved
    <3>2. of = {s}
      BY <1>1, <3>1 DEF SigninsProved
    <3>3. Cardinality(of) = 1
      BY <3>2, FS_Singleton
    <3>4. QED
      BY <2>1, <3>3 DEF Admits
  <2>2. CASE ~Admits(challenge[c])
    <3>1. of = {}
      BY <1>1, <2>2 DEF SigninsProved
    <3>2. Cardinality(of) = 0
      BY <3>1, FS_EmptySet
    <3>3. QED
      BY <2>2, <3>2 DEF Admits
  <2>3. QED
    BY <2>1, <2>2
<1>4. ASSUME NEW i \in DOMAIN identity
      PROVE  /\ Holders(identity[i]) = {i}
             /\ Cardinality({k \in Customers : link[k] = i}) <= 1
             /\ Cardinality({s \in DOMAIN signin : signin[s].live /\ signin[s].owner = i}) <= MaxActive
  <2>1. Holders(identity[i]) = {i}
    BY <1>1 DEF Holders, IdentitiesSound
  <2> DEFINE of == {k \in Customers : link[k] = i}
  <2>2. \A j, k \in of : j = k
    BY <1>1, AccessTables DEF IdentitiesSound
  <2>3. of = {} \/ \E k : of = {k}
    BY <2>2
  <2>4. Cardinality(of) = 0 \/ Cardinality(of) = 1
    BY <2>3, FS_EmptySet, FS_Singleton
  <2>5. Cardinality(of) <= 1
    BY <2>4
  <2>6. QED
    BY <1>1, <2>1, <2>5 DEF IdentitiesSound, LiveSessions
<1>5. \A c \in DOMAIN challenge : challenge[c].change = "COMPLETED" => challenge[c].status = "VERIFIED"
  BY <1>1 DEF AccessTyped, RowSound
<1>6. QED
  BY <1>1, <1>2, <1>3, <1>4, <1>5 DEF AccessIsProved, SigninsProved

(* Who is signed in proved the address the identity has, by the code its   *)
(* challenge had then; a challenge is used once, to sign a device in or to *)
(* change an address, whichever confirmation its token is posted to; and   *)
(* an identity has its own address, one customer and a limited number of   *)
(* devices: for any customers, addresses and codes, and any number of      *)
(* challenges, identities and sessions.                                    *)
THEOREM AccessFollowsProof == AccessSpec => [](AccessTypeOK /\ AccessIsProved)
<1>1. AccessInv /\ [AccessNext]_accessVars => AccessInv'
  BY AccessStep
<1>2. AccessInv => AccessTypeOK /\ AccessIsProved
  BY AccessInvImplies
<1>3. QED
  BY AccessInvInit, <1>1, <1>2, PTL DEF AccessSpec

-----------------------------------------------------------------------------
(* Checkout attempts.                                                      *)

Confirmed(n) == n \in 1..Len(log) /\ log[n] # Forgotten
Same(a, b) == a.cart = b.cart /\ a.seen = b.seen
FreshKey(n) == Confirmed(n) /\ log[n].key = n
Dead(k) == \E o \in placed : o.attempt.key = k /\ ~o.live
TurnsAway(m, i) == m \in 1..Len(log) /\ (log[m] = Forgotten \/ ~Same(log[m], log[i]))

(* A key is the place of the first confirmation that carries it; those     *)
(* that carry it confirm the same, and keys only grow.                     *)
LogOK ==
  /\ \A n \in 1..Len(log) : log[n] # Forgotten =>
       \E k \in 1..n : log[n].key = k /\ FreshKey(k) /\ Same(log[n], log[k])
  /\ \A m, n \in 1..Len(log) : m <= n /\ log[m] # Forgotten /\ log[n] # Forgotten => log[m].key <= log[n].key

(* Orders are of confirmations, one for a key.                             *)
OrdersOK ==
  /\ \A o \in placed : \E n \in 1..Len(log) : log[n] # Forgotten /\ o.attempt = log[n]
  /\ \A o, p \in placed : o.attempt.key = p.attempt.key => o = p

(* A second key for what was confirmed before means that it was turned     *)
(* away from, or that its order is cancelled.                              *)
TurnedOK ==
  \A i, j \in 1..Len(log) : i < j /\ FreshKey(i) /\ FreshKey(j) /\ Same(log[i], log[j]) =>
    Dead(i) \/ \E m \in i + 1 .. j - 1 : TurnsAway(m, i)

KeptKey(s) == IF s.storage THEN s.stored ELSE s.memory

(* The record the browser keeps is that of the latest confirmation; and if *)
(* it keeps none of it, its order is cancelled or the checkout is done.    *)
RecordOK ==
  /\ shopper.memory \subseteq KeptKey(shopper) /\ (shopper.storage \/ shopper.stored = {})
  /\ KeptKey(shopper) # {} => Confirmed(Len(log))
  /\ \A r \in KeptKey(shopper) : r.key = Latest.key /\ r.print.cart = Latest.cart /\ r.print.seen = Latest.seen
  /\ Confirmed(Len(log)) /\ KeptKey(shopper) = {} => Dead(Latest.key) \/ shopper.phase = "done"

Answered(o) == o.live /\ o.attempt.key = Latest.key /\ Fingerprint(o.attempt) = Fingerprint(Latest)

(* An answer is to the latest confirmation, and says what became of it.    *)
AnswerOK ==
  /\ \A n \in requests : Confirmed(n)
  /\ shopper.phase = "waiting" => Confirmed(Len(log)) /\ shopper.memory # {}
  /\ shopper.phase # "waiting" => answer = {}
  /\ \A a \in answer : /\ a.key = Latest.key
                       /\ a.result = "OK" => \E o \in placed : Answered(o)
                       /\ a.result = "PAYMENT_CREATION_FAILED" => Dead(Latest.key)
  /\ shopper.phase = "done" => /\ Confirmed(Len(log))
                               /\ \E o \in placed : Answered(o) /\ shopper.told = {o.attempt.key}

(* As long as no answer was lost, no confirmation is on its way but the    *)
(* latest, and an order stands only when its answer comes or has come.     *)
AnswersHeard == ~shopper.lost =>
  /\ shopper.phase # "waiting" => requests = {}
  /\ shopper.phase = "waiting" => requests \subseteq {Len(log)} /\ (answer # {} => requests = {})
  /\ \A o \in placed : o.live =>
       /\ o.attempt.key = Latest.key /\ shopper.phase # "ready"
       /\ shopper.phase = "waiting" => answer # {} /\ \A a \in answer : a.result = "OK"

CheckoutInv == AttemptsTypeOK /\ LogOK /\ OrdersOK /\ TurnedOK /\ RecordOK /\ AnswerOK /\ AnswersHeard

(* What a confirmation looks like in the log.                              *)
LEMMA ConfirmedIs ==
  ASSUME AttemptsTypeOK, NEW n, Confirmed(n)
  PROVE  /\ log[n] \in Attempt /\ n \in Nat \ {0} /\ n <= Len(log) /\ Len(log) \in Nat /\ DOMAIN log = 1..Len(log)
         /\ log[n].key \in Nat /\ log[n].cart \in Carts /\ log[n].notes \in Notes /\ log[n].seen \in Quote
<1>1. Len(log) \in Nat /\ DOMAIN log = 1..Len(log)
  BY LenProperties DEF AttemptsTypeOK
<1>2. log[n] \in Attempt \cup {Forgotten}
  BY ElementOfSeq DEF AttemptsTypeOK, Confirmed
<1>3. log[n] \in Attempt
  BY <1>2 DEF Confirmed
<1>4. QED
  BY <1>1, <1>3 DEF Confirmed, Attempt

(* Forgetting is no confirmation.                                          *)
LEMMA ForgottenIsNone == Forgotten \notin Attempt
<1>1. ASSUME Forgotten \in Attempt PROVE FALSE
  <2>1. DOMAIN Forgotten = {"forgotten"} /\ "cart" \in DOMAIN Forgotten
    BY <1>1, Zenon DEF Forgotten, Attempt
  <2>2. QED
    BY <2>1
<1>2. QED
  BY <1>1

(* The log with one entry more.                                            *)
LEMMA LogGrows ==
  ASSUME AttemptsTypeOK, NEW e \in Attempt \cup {Forgotten}, log' = Append(log, e)
  PROVE  /\ log' \in Seq(Attempt \cup {Forgotten}) /\ Len(log) \in Nat /\ Len(log') = Len(log) + 1
         /\ \A n \in 1..Len(log) : log'[n] = log[n]
         /\ log'[Len(log) + 1] = e
         /\ 1..Len(log) \subseteq 1..Len(log')
<1>1. log \in Seq(Attempt \cup {Forgotten})
  BY DEF AttemptsTypeOK
<1>2. QED
  BY <1>1, AppendRow

(* What is known of the entries of the log stays known of a longer one.    *)
LEMMA OlderStay ==
  ASSUME AttemptsTypeOK, NEW e \in Attempt \cup {Forgotten}, log' = Append(log, e), placed' = placed
  PROVE  /\ \A n \in 1..Len(log) : Confirmed(n)' <=> Confirmed(n)
         /\ \A n \in 1..Len(log) : FreshKey(n)' <=> FreshKey(n)
         /\ \A k : Dead(k)' <=> Dead(k)
         /\ \A m, i \in 1..Len(log) : TurnsAway(m, i)' <=> TurnsAway(m, i)
         /\ OrdersOK => OrdersOK'
<1>1. /\ Len(log) \in Nat /\ Len(log') = Len(log) + 1 /\ \A n \in 1..Len(log) : log'[n] = log[n]
      /\ 1..Len(log) \subseteq 1..Len(log')
  BY LogGrows
<1>2. ASSUME NEW n \in 1..Len(log) PROVE (Confirmed(n)' <=> Confirmed(n)) /\ (FreshKey(n)' <=> FreshKey(n))
  BY <1>1 DEF Confirmed, FreshKey
<1>3. ASSUME NEW k PROVE Dead(k)' <=> Dead(k)
  BY DEF Dead
<1>4. ASSUME NEW m \in 1..Len(log), NEW i \in 1..Len(log) PROVE TurnsAway(m, i)' <=> TurnsAway(m, i)
  BY <1>1 DEF TurnsAway, Same
<1>5. ASSUME OrdersOK PROVE OrdersOK'
  BY <1>1, <1>5 DEF OrdersOK
<1>6. QED
  BY <1>2, <1>3, <1>4, <1>5

(* A longer log says of its older entries what the log said of them.       *)
LEMMA OlderOK ==
  ASSUME CheckoutInv, NEW e \in Attempt \cup {Forgotten}, log' = Append(log, e), placed' = placed
  PROVE  /\ \A n \in 1..Len(log) : log'[n] # Forgotten =>
              \E k \in 1..n : log'[n].key = k /\ FreshKey(k)' /\ Same(log'[n], log'[k])
         /\ \A m, n \in 1..Len(log) : m <= n /\ log'[m] # Forgotten /\ log'[n] # Forgotten => log'[m].key <= log'[n].key
         /\ \A i, j \in 1..Len(log) : i < j /\ FreshKey(i)' /\ FreshKey(j)' /\ Same(log'[i], log'[j]) =>
              Dead(i)' \/ \E m \in i + 1 .. j - 1 : TurnsAway(m, i)'
<1>1. AttemptsTypeOK
  BY DEF CheckoutInv
<1>2. /\ Len(log) \in Nat /\ Len(log') = Len(log) + 1
      /\ \A n \in 1..Len(log) : log'[n] = log[n]
  BY <1>1, LogGrows
<1>3. /\ \A n \in 1..Len(log) : FreshKey(n)' <=> FreshKey(n)
      /\ \A k : Dead(k)' <=> Dead(k)
      /\ \A m, i \in 1..Len(log) : TurnsAway(m, i)' <=> TurnsAway(m, i)
  BY <1>1, OlderStay
<1>4. ASSUME NEW n \in 1..Len(log), log'[n] # Forgotten
      PROVE  \E k \in 1..n : log'[n].key = k /\ FreshKey(k)' /\ Same(log'[n], log'[k])
  <2>1. log'[n] = log[n]
    BY <1>2
  <2>2. PICK k \in 1..n : log[n].key = k /\ FreshKey(k) /\ Same(log[n], log[k])
    BY <1>4, <2>1 DEF CheckoutInv, LogOK
  <2>3. k \in 1..Len(log)
    BY <1>2
  <2>4. log'[k] = log[k] /\ FreshKey(k)'
    BY <1>2, <1>3, <2>2, <2>3
  <2>5. QED
    BY <2>1, <2>2, <2>4
<1>5. ASSUME NEW m \in 1..Len(log), NEW n \in 1..Len(log), m <= n, log'[m] # Forgotten, log'[n] # Forgotten
      PROVE  log'[m].key <= log'[n].key
  BY <1>2, <1>5 DEF CheckoutInv, LogOK
<1>6. ASSUME NEW i \in 1..Len(log), NEW j \in 1..Len(log), i < j, FreshKey(i)', FreshKey(j)', Same(log'[i], log'[j])
      PROVE  Dead(i)' \/ \E m \in i + 1 .. j - 1 : TurnsAway(m, i)'
  <2>1. Dead(i) \/ \E m \in i + 1 .. j - 1 : TurnsAway(m, i)
    BY <1>2, <1>3, <1>6 DEF CheckoutInv, TurnedOK
  <2>2. ASSUME NEW m \in i + 1 .. j - 1, TurnsAway(m, i) PROVE TurnsAway(m, i)'
    <3>1. m \in 1..Len(log)
      BY <2>2 DEF TurnsAway
    <3>2. QED
      BY <1>3, <2>2, <3>1
  <2>3. QED
    BY <1>3, <2>1, <2>2
<1>7. QED
  BY <1>4, <1>5, <1>6

(* A forgotten attempt changes nothing of the older ones.                  *)
LEMMA ForgetKeeps ==
  ASSUME CheckoutInv, log' = Append(log, Forgotten), placed' = placed
  PROVE  LogOK' /\ OrdersOK' /\ TurnedOK' /\ log' \in Seq(Attempt \cup {Forgotten}) /\ ~Confirmed(Len(log))'
<1>1. Forgotten \in Attempt \cup {Forgotten} /\ AttemptsTypeOK
  BY DEF CheckoutInv
<1>2. /\ log' \in Seq(Attempt \cup {Forgotten}) /\ Len(log) \in Nat /\ Len(log') = Len(log) + 1
      /\ log'[Len(log) + 1] = Forgotten
  BY <1>1, LogGrows
<1>3. ASSUME NEW n \in 1..Len(log'), log'[n] # Forgotten PROVE n \in 1..Len(log)
  BY <1>2, <1>3
<1>4. OrdersOK'
  BY <1>1, OlderStay DEF CheckoutInv
<1>5. LogOK'
  BY <1>1, <1>3, OlderOK DEF LogOK
<1>6. ASSUME NEW n \in 1..Len(log'), FreshKey(n)' PROVE n \in 1..Len(log)
  BY <1>3, <1>6 DEF FreshKey, Confirmed
<1>7. TurnedOK'
  BY <1>1, <1>6, OlderOK DEF TurnedOK
<1>8. ~Confirmed(Len(log))'
  BY <1>2 DEF Confirmed
<1>9. QED
  BY <1>2, <1>4, <1>5, <1>7, <1>8

(* Steps that confirm nothing and place nothing leave the past as it is.   *)
LEMMA PastStays ==
  ASSUME CheckoutInv, UNCHANGED <<placed, log>>
  PROVE  LogOK' /\ OrdersOK' /\ TurnedOK'
<1>1. LogOK /\ OrdersOK /\ TurnedOK
  BY DEF CheckoutInv
<1>2. LogOK'
  BY <1>1 DEF LogOK, FreshKey, Confirmed
<1>3. OrdersOK'
  BY <1>1 DEF OrdersOK
<1>4. TurnedOK'
  BY <1>1 DEF TurnedOK, FreshKey, Confirmed, Dead, TurnsAway
<1>5. QED
  BY <1>2, <1>3, <1>4

(* What the form shows is no part of the invariant.                        *)
LEMMA FormKeeps ==
  ASSUME CheckoutInv, AttemptsTypeOK', UNCHANGED <<requests, answer, placed, log>>,
         shopper'.phase = shopper.phase, shopper'.storage = shopper.storage, shopper'.memory = shopper.memory,
         shopper'.stored = shopper.stored, shopper'.lost = shopper.lost, shopper'.told = shopper.told
  PROVE  CheckoutInv'
<1>1. LogOK' /\ OrdersOK' /\ TurnedOK'
  BY PastStays
<1>2. KeptKey(shopper)' = KeptKey(shopper)
  BY DEF KeptKey
<1>3. Latest' = Latest
  BY DEF Latest
<1>4. RecordOK'
  BY <1>2, <1>3 DEF CheckoutInv, RecordOK, Confirmed, Dead
<1>5. AnswerOK'
  BY <1>3 DEF CheckoutInv, AnswerOK, Answered, Confirmed, Dead
<1>6. AnswersHeard'
  BY <1>3 DEF CheckoutInv, AnswersHeard
<1>7. QED
  BY <1>1, <1>4, <1>5, <1>6 DEF CheckoutInv

(* The price of a cart changes.                                            *)
LEMMA PriceKeeps ==
  ASSUME CheckoutInv, ChangePrice
  PROVE  CheckoutInv'
<1>1. asked' \in Prices /\ UNCHANGED <<shopper, requests, answer, placed, log>>
  BY DEF ChangePrice
<1>2. AttemptsTypeOK'
  BY <1>1 DEF CheckoutInv, AttemptsTypeOK
<1>3. QED
  BY <1>1, <1>2, FormKeeps

(* The shopper changes the cart.                                           *)
LEMMA EditCartKeeps ==
  ASSUME CheckoutInv, EditCart
  PROVE  CheckoutInv'
<1>1. PICK cart \in Carts : shopper' = [shopper EXCEPT !.cart = cart, !.accepted = {}, !.changed = {}]
                          /\ UNCHANGED <<requests, answer, placed, asked, log>>
  BY DEF EditCart
<1> DEFINE one == [shopper EXCEPT !.cart = cart]
           two == [one EXCEPT !.accepted = {}]
           three == [two EXCEPT !.changed = {}]
<1>2. shopper' = three
  BY <1>1, Zenon
<1>3. shopper \in Shopper
  BY DEF CheckoutInv, AttemptsTypeOK
<1>4. /\ three \in Shopper /\ three.phase = shopper.phase /\ three.storage = shopper.storage
      /\ three.memory = shopper.memory /\ three.stored = shopper.stored /\ three.lost = shopper.lost
      /\ three.told = shopper.told
  BY <1>3 DEF Shopper
<1> HIDE DEF three
<1>5. AttemptsTypeOK'
  BY <1>1, <1>2, <1>4 DEF CheckoutInv, AttemptsTypeOK
<1>6. QED
  BY <1>1, <1>2, <1>4, <1>5, FormKeeps

(* The shopper changes the notes.                                          *)
LEMMA EditNotesKeeps ==
  ASSUME CheckoutInv, EditNotes
  PROVE  CheckoutInv'
<1>1. PICK notes \in Notes : shopper' = [shopper EXCEPT !.notes = notes]
                           /\ UNCHANGED <<requests, answer, placed, asked, log>>
  BY DEF EditNotes
<1>2. shopper \in Shopper
  BY DEF CheckoutInv, AttemptsTypeOK
<1>3. /\ shopper' \in Shopper /\ shopper'.phase = shopper.phase /\ shopper'.storage = shopper.storage
      /\ shopper'.memory = shopper.memory /\ shopper'.stored = shopper.stored /\ shopper'.lost = shopper.lost
      /\ shopper'.told = shopper.told
  BY <1>1, <1>2 DEF Shopper
<1>4. AttemptsTypeOK'
  BY <1>1, <1>3 DEF CheckoutInv, AttemptsTypeOK
<1>5. QED
  BY <1>1, <1>3, <1>4, FormKeeps

(* The form shows the price of the moment.                                 *)
LEMMA RefreshKeeps ==
  ASSUME CheckoutInv, RefreshQuote
  PROVE  CheckoutInv'
<1> DEFINE quote == [cart |-> shopper.cart, price |-> asked]
<1>1. shopper' = [shopper EXCEPT !.quote = quote] /\ UNCHANGED <<requests, answer, placed, asked, log>>
  BY DEF RefreshQuote
<1>2. shopper \in Shopper
  BY DEF CheckoutInv, AttemptsTypeOK
<1>3. quote \in Quote
  BY <1>2 DEF CheckoutInv, AttemptsTypeOK, Shopper, Quote
<1> HIDE DEF quote
<1>4. /\ shopper' \in Shopper /\ shopper'.phase = shopper.phase /\ shopper'.storage = shopper.storage
      /\ shopper'.memory = shopper.memory /\ shopper'.stored = shopper.stored /\ shopper'.lost = shopper.lost
      /\ shopper'.told = shopper.told
  BY <1>1, <1>2, <1>3 DEF Shopper
<1>5. AttemptsTypeOK'
  BY <1>1, <1>4 DEF CheckoutInv, AttemptsTypeOK
<1>6. QED
  BY <1>1, <1>4, <1>5, FormKeeps

(* What the memory loses is kept in the storage, or written in the log.    *)
LEMMA ForgetStep ==
  ASSUME CheckoutInv, Forget(shopper), shopper.phase # "done",
         shopper' \in Shopper, UNCHANGED <<requests, placed, asked>>, answer' = {},
         shopper'.phase = "ready", shopper'.storage = shopper.storage, shopper'.memory = {},
         shopper'.stored = shopper.stored, (shopper'.lost <=> (shopper.lost \/ shopper.phase = "waiting"))
  PROVE  CheckoutInv'
<1>1. shopper \in Shopper /\ log \in Seq(Attempt \cup {Forgotten}) /\ requests \subseteq DOMAIN log
      /\ DOMAIN log = 1..Len(log) /\ Len(log) \in Nat
  BY LenProperties DEF CheckoutInv, AttemptsTypeOK
<1>2. log' = log \/ (log' = Append(log, Forgotten) /\ ~shopper.storage)
  BY DEF Forget
<1>3. /\ LogOK' /\ OrdersOK' /\ TurnedOK' /\ log' \in Seq(Attempt \cup {Forgotten}) /\ requests' \subseteq DOMAIN log'
      /\ \A n \in 1..Len(log) : Confirmed(n) => Confirmed(n)'
      /\ log' # log => ~Confirmed(Len(log))'
  <2>1. CASE log' = log
    <3>1. LogOK' /\ OrdersOK' /\ TurnedOK'
      BY <2>1, PastStays
    <3>2. QED
      BY <1>1, <2>1, <3>1 DEF Confirmed
  <2>2. CASE log' = Append(log, Forgotten)
    <3>1. LogOK' /\ OrdersOK' /\ TurnedOK' /\ log' \in Seq(Attempt \cup {Forgotten}) /\ ~Confirmed(Len(log))'
      BY <2>2, ForgetKeeps
    <3>2. /\ \A n \in 1..Len(log) : Confirmed(n)' <=> Confirmed(n)
          /\ 1..Len(log) \subseteq 1..Len(log')
      <4>1. AttemptsTypeOK /\ Forgotten \in Attempt \cup {Forgotten}
        BY DEF CheckoutInv
      <4>2. QED
        BY <2>2, <4>1, LogGrows, OlderStay
    <3>3. requests' \subseteq DOMAIN log'
      <4>1. DOMAIN log' = 1..Len(log')
        BY <3>1, LenProperties
      <4>2. QED
        BY <1>1, <3>2, <4>1
    <3>4. QED
      BY <3>1, <3>2, <3>3
  <2>3. QED
    BY <1>2, <2>1, <2>2
<1>4. AttemptsTypeOK'
  <2>1. asked' \in Prices /\ placed' \subseteq [attempt : Attempt, live : BOOLEAN]
    BY DEF CheckoutInv, AttemptsTypeOK
  <2>2. answer' \subseteq [result : Results, key : Nat, quote : Quote]
    OBVIOUS
  <2>3. QED
    BY <1>3, <2>1, <2>2 DEF AttemptsTypeOK
<1>5. RecordOK'
  <2>1. CASE shopper.storage
    <3>1. log' = log /\ KeptKey(shopper)' = KeptKey(shopper)
      BY <1>2, <2>1 DEF KeptKey
    <3>2. QED
      BY <3>1 DEF CheckoutInv, RecordOK, Confirmed, Latest, Dead
  <2>2. CASE ~shopper.storage
    <3>1. KeptKey(shopper)' = {} /\ shopper'.stored = {}
      <4>2. KeptKey(shopper)' = {}
        BY <2>2 DEF KeptKey
      <4>3. QED
        BY <2>2, <4>2 DEF CheckoutInv, RecordOK, KeptKey
    <3>2. Confirmed(Len(log))' => Dead(Latest.key)'
      <4>1. CASE log' = log
        <5>1. shopper.memory = {}
          <6>1. DOMAIN log' = 1..Len(log')
            BY <1>3, LenProperties
          <6>2. Append(log, Forgotten) # log
            <7>1. Len(Append(log, Forgotten)) = Len(log) + 1
              BY <1>1, AppendRow
            <7>2. Len(log) + 1 # Len(log)
              <8>1. Len(log) \in Nat
                BY <1>1, Zenon
              <8>2. QED
                BY <8>1
            <7>3. QED
              BY <7>1, <7>2, Zenon
          <6>3. QED
            BY <2>2, <4>1, <6>2 DEF Forget
        <5>2. KeptKey(shopper) = {}
          BY <2>2, <5>1 DEF KeptKey
        <5>3. QED
          BY <4>1, <5>2 DEF CheckoutInv, RecordOK, Confirmed, Latest, Dead
      <4>2. CASE log' # log
        BY <1>3, <4>2
      <4>3. QED
        BY <4>1, <4>2
    <3>3. QED
      BY <3>1, <3>2 DEF RecordOK
  <2>3. QED
    BY <2>1, <2>2
<1>6. AnswerOK'
  BY <1>1, <1>3 DEF CheckoutInv, AnswerOK
<1>7. AnswersHeard'
  <2>1. shopper.phase \in {"ready", "waiting", "done"}
    BY <1>1 DEF Shopper
  <2>2. ASSUME ~shopper'.lost PROVE ~shopper.lost /\ shopper.phase = "ready"
    BY <2>1, <2>2
  <2>3. ASSUME ~shopper'.lost PROVE requests' = {} /\ \A o \in placed' : ~o.live
    BY <2>2, <2>3 DEF CheckoutInv, AnswersHeard
  <2>4. QED
    BY <2>3 DEF AnswersHeard
<1>8. QED
  BY <1>3, <1>4, <1>5, <1>6, <1>7 DEF CheckoutInv

(* The shopper accepts what changed, and the record of the attempt is      *)
(* dropped.                                                                *)
LEMMA AcceptKeeps ==
  ASSUME CheckoutInv, AcceptChange
  PROVE  CheckoutInv'
<1> DEFINE one == [shopper EXCEPT !.accepted = shopper.changed]
           two == [one EXCEPT !.changed = {}]
           three == [two EXCEPT !.memory = {}]
<1>1. /\ shopper' = three /\ shopper.phase = "ready" /\ Forget(shopper) /\ UNCHANGED <<requests, answer, placed, asked>>
  BY Zenon DEF AcceptChange
<1>2. shopper \in Shopper
  BY DEF CheckoutInv, AttemptsTypeOK
<1>3. /\ three \in Shopper /\ three.phase = shopper.phase /\ three.storage = shopper.storage
      /\ three.memory = {} /\ three.stored = shopper.stored /\ three.lost = shopper.lost
  BY <1>2 DEF Shopper
<1> HIDE DEF three
<1>4. answer' = {}
  BY <1>1 DEF CheckoutInv, AnswerOK
<1>5. QED
  BY <1>1, <1>3, <1>4, ForgetStep

(* The page is loaded again: what was only in memory is gone.              *)
LEMMA ReloadKeeps ==
  ASSUME CheckoutInv, Reload
  PROVE  CheckoutInv'
<1> DEFINE quote == [cart |-> shopper.cart, price |-> asked]
           lost  == shopper.lost \/ shopper.phase = "waiting"
           one   == [shopper EXCEPT !.quote = quote]
           two   == [one EXCEPT !.accepted = {}]
           three == [two EXCEPT !.changed = {}]
           four  == [three EXCEPT !.phase = "ready"]
           five  == [four EXCEPT !.memory = {}]
           six   == [five EXCEPT !.lost = lost]
<1>1. /\ shopper' = six /\ shopper.phase # "done" /\ Forget(shopper) /\ answer' = {}
      /\ UNCHANGED <<requests, placed, asked>>
  BY Zenon DEF Reload
<1>2. shopper \in Shopper
  BY DEF CheckoutInv, AttemptsTypeOK
<1>3. quote \in Quote /\ lost \in BOOLEAN
  BY <1>2 DEF CheckoutInv, AttemptsTypeOK, Shopper, Quote
<1> HIDE DEF quote, lost
<1>4. /\ three \in Shopper /\ three.storage = shopper.storage
      /\ three.memory = shopper.memory /\ three.stored = shopper.stored /\ three.lost = shopper.lost
  BY <1>2, <1>3 DEF Shopper
<1> HIDE DEF three
<1>5. /\ six \in Shopper /\ six.phase = "ready" /\ six.storage = shopper.storage
      /\ six.memory = {} /\ six.stored = shopper.stored /\ six.lost = lost
  BY <1>3, <1>4 DEF Shopper
<1> HIDE DEF six
<1>6. shopper'.lost <=> (shopper.lost \/ shopper.phase = "waiting")
  BY <1>1, <1>5 DEF lost
<1>7. QED
  BY <1>1, <1>5, <1>6, ForgetStep

(* The answer is lost.                                                     *)
LEMMA LoseKeeps ==
  ASSUME CheckoutInv, LoseAnswer
  PROVE  CheckoutInv'
<1> DEFINE one == [shopper EXCEPT !.phase = "ready"]
           two == [one EXCEPT !.lost = TRUE]
<1>1. shopper' = two /\ shopper.phase = "waiting" /\ answer' = {} /\ UNCHANGED <<requests, placed, asked, log>>
  BY Zenon DEF LoseAnswer
<1>2. shopper \in Shopper
  BY DEF CheckoutInv, AttemptsTypeOK
<1>3. /\ two \in Shopper /\ two.phase = "ready" /\ two.storage = shopper.storage
      /\ two.memory = shopper.memory /\ two.stored = shopper.stored /\ two.lost = TRUE
  BY <1>2 DEF Shopper
<1> HIDE DEF two
<1>4. AttemptsTypeOK'
  BY <1>1, <1>3 DEF CheckoutInv, AttemptsTypeOK
<1>5. LogOK' /\ OrdersOK' /\ TurnedOK'
  BY <1>1, PastStays
<1>6. KeptKey(shopper)' = KeptKey(shopper) /\ Latest' = Latest
  BY <1>1, <1>3 DEF KeptKey, Latest
<1>7. RecordOK'
  BY <1>1, <1>3, <1>6 DEF CheckoutInv, RecordOK, Confirmed, Dead
<1>8. AnswerOK'
  BY <1>1, <1>3 DEF CheckoutInv, AnswerOK, Confirmed
<1>9. AnswersHeard'
  BY <1>1, <1>3 DEF AnswersHeard
<1>10. QED
  BY <1>4, <1>5, <1>7, <1>8, <1>9 DEF CheckoutInv

(* What the shopper hears, answer by answer.                               *)
LEMMA ReceiveDoes ==
  ASSUME CheckoutInv, Receive
  PROVE  \E a \in answer :
    /\ shopper.phase = "waiting" /\ answer' = {} /\ UNCHANGED <<requests, placed, asked, log>>
    /\ shopper' \in Shopper /\ shopper'.storage = shopper.storage /\ shopper'.lost = shopper.lost
    /\ \/ /\ a.result = "OK" /\ shopper'.phase = "done" /\ shopper'.memory = {} /\ shopper'.stored = {}
          /\ shopper'.told = {a.key}
       \/ /\ a.result = "PAYMENT_CREATION_FAILED" /\ shopper'.phase = "ready"
          /\ shopper'.memory = {} /\ shopper'.stored = {}
       \/ /\ a.result \in {"QUOTE_CHANGED", "CART_INVALID"} /\ shopper'.phase = "ready"
          /\ shopper'.memory = shopper.memory /\ shopper'.stored = shopper.stored
<1>1. PICK a \in answer : shopper' =
         CASE a.result = "OK" ->
                [shopper EXCEPT !.phase = "done", !.memory = {}, !.stored = {}, !.told = {a.key}]
           [] a.result = "QUOTE_CHANGED" ->
                [shopper EXCEPT !.phase = "ready", !.changed = {a.quote}, !.accepted = {}]
           [] a.result = "PAYMENT_CREATION_FAILED" ->
                [shopper EXCEPT !.phase = "ready", !.memory = {}, !.stored = {}]
           [] OTHER -> [shopper EXCEPT !.phase = "ready"]
  BY Zenon DEF Receive
<1>2. shopper.phase = "waiting" /\ answer' = {} /\ UNCHANGED <<requests, placed, asked, log>>
  BY DEF Receive
<1>3. shopper \in Shopper /\ a.result \in Results /\ a.key \in Nat /\ a.quote \in Quote
  BY DEF CheckoutInv, AttemptsTypeOK
<1> DEFINE ready   == [shopper EXCEPT !.phase = "ready"]
           done    == [shopper EXCEPT !.phase = "done"]
           done1   == [done EXCEPT !.memory = {}]
           done2   == [done1 EXCEPT !.stored = {}]
           done3   == [done2 EXCEPT !.told = {a.key}]
           change1 == [ready EXCEPT !.changed = {a.quote}]
           change2 == [change1 EXCEPT !.accepted = {}]
           fail1   == [ready EXCEPT !.memory = {}]
           fail2   == [fail1 EXCEPT !.stored = {}]
<1>4. shopper' = CASE a.result = "OK" -> done3 [] a.result = "QUOTE_CHANGED" -> change2
                   [] a.result = "PAYMENT_CREATION_FAILED" -> fail2 [] OTHER -> ready
  BY <1>1, Zenon
<1>5. /\ done3 \in Shopper /\ done3.storage = shopper.storage /\ done3.lost = shopper.lost
      /\ done3.phase = "done" /\ done3.memory = {} /\ done3.stored = {} /\ done3.told = {a.key}
  BY <1>3 DEF Shopper
<1>6. /\ change2 \in Shopper /\ change2.storage = shopper.storage /\ change2.lost = shopper.lost
      /\ change2.phase = "ready" /\ change2.memory = shopper.memory /\ change2.stored = shopper.stored
  BY <1>3 DEF Shopper
<1>7. /\ fail2 \in Shopper /\ fail2.storage = shopper.storage /\ fail2.lost = shopper.lost
      /\ fail2.phase = "ready" /\ fail2.memory = {} /\ fail2.stored = {}
  BY <1>3 DEF Shopper
<1>8. /\ ready \in Shopper /\ ready.storage = shopper.storage /\ ready.lost = shopper.lost
      /\ ready.phase = "ready" /\ ready.memory = shopper.memory /\ ready.stored = shopper.stored
  BY <1>3 DEF Shopper
<1> HIDE DEF done3, change2, fail2, ready
<1>9. \/ a.result = "OK" /\ shopper' = done3
      \/ a.result = "QUOTE_CHANGED" /\ shopper' = change2
      \/ a.result = "PAYMENT_CREATION_FAILED" /\ shopper' = fail2
      \/ a.result = "CART_INVALID" /\ shopper' = ready
  BY <1>3, <1>4 DEF Results
<1>10. WITNESS a \in answer
<1>11. QED
  BY <1>2, <1>5, <1>6, <1>7, <1>8, <1>9

(* The answer comes.                                                       *)
LEMMA ReceiveKeeps ==
  ASSUME CheckoutInv, Receive
  PROVE  CheckoutInv'
<1>1. PICK a \in answer :
    /\ shopper.phase = "waiting" /\ answer' = {} /\ UNCHANGED <<requests, placed, asked, log>>
    /\ shopper' \in Shopper /\ shopper'.storage = shopper.storage /\ shopper'.lost = shopper.lost
    /\ \/ /\ a.result = "OK" /\ shopper'.phase = "done" /\ shopper'.memory = {} /\ shopper'.stored = {}
          /\ shopper'.told = {a.key}
       \/ /\ a.result = "PAYMENT_CREATION_FAILED" /\ shopper'.phase = "ready"
          /\ shopper'.memory = {} /\ shopper'.stored = {}
       \/ /\ a.result \in {"QUOTE_CHANGED", "CART_INVALID"} /\ shopper'.phase = "ready"
          /\ shopper'.memory = shopper.memory /\ shopper'.stored = shopper.stored
  BY ReceiveDoes
<1>2. AttemptsTypeOK'
  BY <1>1 DEF CheckoutInv, AttemptsTypeOK
<1>3. LogOK' /\ OrdersOK' /\ TurnedOK'
  BY <1>1, PastStays
<1>4. Latest' = Latest /\ (Dead(Latest.key)' <=> Dead(Latest.key))
  BY <1>1 DEF Latest, Dead
<1>5. /\ Confirmed(Len(log)) /\ Confirmed(Len(log))' /\ a.key = Latest.key
      /\ a.result = "OK" => \E o \in placed : Answered(o)
      /\ a.result = "PAYMENT_CREATION_FAILED" => Dead(Latest.key)
  BY <1>1 DEF CheckoutInv, AnswerOK, Confirmed
<1>6. CASE a.result = "OK" /\ shopper'.phase = "done"
  <2>1. shopper'.memory = {} /\ shopper'.stored = {} /\ shopper'.told = {a.key}
    BY <1>1, <1>6
  <2>2. RecordOK'
    BY <1>6, <2>1 DEF RecordOK, KeptKey
  <2>3. PICK o \in placed : Answered(o)
    BY <1>5, <1>6
  <2>4. Answered(o)' /\ shopper'.told = {o.attempt.key}
    BY <1>1, <1>4, <1>5, <2>1, <2>3 DEF Answered
  <2>5. AnswerOK'
    BY <1>1, <1>5, <1>6, <2>4 DEF CheckoutInv, AnswerOK, Confirmed
  <2>6. AnswersHeard'
    BY <1>1, <1>4, <1>6 DEF CheckoutInv, AnswersHeard
  <2>7. QED
    BY <1>2, <1>3, <2>2, <2>5, <2>6 DEF CheckoutInv
<1>7. CASE a.result # "OK" /\ shopper'.phase = "ready"
  <2>1. AnswersHeard'
    BY <1>1, <1>4, <1>7 DEF CheckoutInv, AnswersHeard
  <2>2. AnswerOK'
    BY <1>1, <1>7 DEF CheckoutInv, AnswerOK, Confirmed
  <2>3. RecordOK'
    <3>1. CASE a.result = "PAYMENT_CREATION_FAILED"
      BY <1>1, <1>4, <1>5, <1>7, <3>1 DEF RecordOK, KeptKey
    <3>2. CASE shopper'.memory = shopper.memory /\ shopper'.stored = shopper.stored
      <4>1. KeptKey(shopper)' = KeptKey(shopper)
        BY <1>1, <3>2 DEF KeptKey
      <4>2. QED
        BY <1>1, <1>4, <3>2, <4>1 DEF CheckoutInv, RecordOK, Confirmed
    <3>3. QED
      BY <1>1, <1>7, <3>1, <3>2
  <2>4. QED
    BY <1>2, <1>3, <2>1, <2>2, <2>3 DEF CheckoutInv
<1>8. QED
  BY <1>1, <1>6, <1>7

(* What serving a confirmation does: it is answered, if it is the latest   *)
(* and waited for, and an order may be created that no other key has.      *)
LEMMA ServedKeeps ==
  ASSUME CheckoutInv, NEW n \in requests, NEW result \in Results, NEW quote \in Quote, NEW live \in BOOLEAN,
         requests' = requests \ {n}, UNCHANGED <<shopper, asked, log>>,
         answer' = IF shopper.phase = "waiting" /\ n = Len(log)
                   THEN {[result |-> result, key |-> log[n].key, quote |-> quote]} ELSE answer,
         \/ placed' = placed
         \/ /\ placed' = placed \cup {[attempt |-> log[n], live |-> live]}
            /\ \A o \in placed : o.attempt.key # log[n].key
            /\ live => result = "OK",
         result = "OK" => \E o \in placed' : o.live /\ o.attempt.key = log[n].key
                                           /\ Fingerprint(o.attempt) = Fingerprint(log[n]),
         result = "PAYMENT_CREATION_FAILED" => \E o \in placed' : o.attempt.key = log[n].key /\ ~o.live
  PROVE  CheckoutInv'
<1> DEFINE new == [attempt |-> log[n], live |-> live]
           reply == [result |-> result, key |-> log[n].key, quote |-> quote]
<1>1. AttemptsTypeOK /\ Confirmed(n)
  BY DEF CheckoutInv, AnswerOK
<1>2. log[n] \in Attempt /\ log[n].key \in Nat /\ n \in 1..Len(log) /\ log[n] # Forgotten
  BY <1>1, ConfirmedIs DEF Confirmed
<1>3. /\ new \in [attempt : Attempt, live : BOOLEAN] /\ new.attempt = log[n] /\ new.live = live
      /\ reply \in [result : Results, key : Nat, quote : Quote]
      /\ reply.result = result /\ reply.key = log[n].key
  BY <1>2
<1>4. /\ answer' = IF shopper.phase = "waiting" /\ n = Len(log) THEN {reply} ELSE answer
      /\ placed' = placed \/ (/\ placed' = placed \cup {new} /\ (live => result = "OK")
                              /\ \A o \in placed : o.attempt.key # log[n].key)
  OBVIOUS
<1> HIDE DEF new, reply
<1>5. AttemptsTypeOK'
  <2>1. placed' \subseteq [attempt : Attempt, live : BOOLEAN]
    BY <1>1, <1>3, <1>4 DEF AttemptsTypeOK
  <2>2. answer' \subseteq [result : Results, key : Nat, quote : Quote]
    BY <1>1, <1>3, <1>4 DEF AttemptsTypeOK
  <2>3. requests' \subseteq DOMAIN log
    BY <1>1 DEF AttemptsTypeOK
  <2>4. QED
    BY <1>1, <2>1, <2>2, <2>3 DEF AttemptsTypeOK
<1>6. /\ \A m : Confirmed(m)' <=> Confirmed(m)
      /\ \A m : FreshKey(m)' <=> FreshKey(m)
      /\ \A m, i : TurnsAway(m, i)' <=> TurnsAway(m, i)
      /\ Latest' = Latest
  BY DEF Confirmed, FreshKey, TurnsAway, Latest
<1>7. placed \subseteq placed'
  BY <1>4
<1>8. ASSUME NEW k, Dead(k) PROVE Dead(k)'
  BY <1>7, <1>8 DEF Dead
<1>9. LogOK'
  BY <1>6 DEF CheckoutInv, LogOK
<1>10. OrdersOK'
  <2>1. ASSUME NEW o \in placed' PROVE \E m \in 1..Len(log) : log[m] # Forgotten /\ o.attempt = log[m]
    BY <1>2, <1>3, <1>4 DEF CheckoutInv, OrdersOK
  <2>2. ASSUME NEW o \in placed', NEW p \in placed', o.attempt.key = p.attempt.key PROVE o = p
    BY <1>3, <1>4, <2>2 DEF CheckoutInv, OrdersOK
  <2>3. QED
    BY <2>1, <2>2 DEF OrdersOK
<1>11. TurnedOK'
  <2>1. ASSUME NEW i \in 1..Len(log), NEW j \in 1..Len(log), i < j, FreshKey(i), FreshKey(j), Same(log[i], log[j])
        PROVE  Dead(i)' \/ \E m \in i + 1 .. j - 1 : TurnsAway(m, i)
    BY <1>8, <2>1 DEF CheckoutInv, TurnedOK
  <2>2. QED
    BY <1>6, <2>1 DEF TurnedOK
<1>12. RecordOK'
  <2>1. KeptKey(shopper)' = KeptKey(shopper)
    BY DEF KeptKey
  <2>2. Dead(Latest.key) => Dead(Latest.key)'
    BY <1>6, <1>7 DEF Dead
  <2>3. QED
    BY <1>6, <2>1, <2>2 DEF CheckoutInv, RecordOK
<1>13. AnswerOK'
  <2>1. ASSUME NEW o \in placed, Answered(o) PROVE Answered(o)'
    BY <1>6, <2>1 DEF Answered
  <2>2. ASSUME NEW a \in answer'
        PROVE  /\ a.key = Latest.key
               /\ a.result = "OK" => \E o \in placed' : Answered(o)'
               /\ a.result = "PAYMENT_CREATION_FAILED" => Dead(Latest.key)'
    <3>1. CASE a \in answer
      <4>1. Dead(Latest.key) => Dead(Latest.key)'
        BY <1>6, <1>7 DEF Dead
      <4>2. QED
        BY <1>7, <2>1, <3>1, <4>1 DEF CheckoutInv, AnswerOK
    <3>2. CASE a = reply /\ n = Len(log)
      <4>1. log[n] = Latest /\ a.key = Latest.key /\ a.result = result
        BY <1>3, <3>2 DEF Latest
      <4>2. ASSUME result = "OK" PROVE \E o \in placed' : Answered(o)'
        BY <1>6, <4>1, <4>2 DEF Answered
      <4>3. ASSUME result = "PAYMENT_CREATION_FAILED" PROVE Dead(Latest.key)'
        BY <1>6, <4>1, <4>3 DEF Dead
      <4>4. QED
        BY <4>1, <4>2, <4>3
    <3>3. QED
      BY <1>4, <3>1, <3>2
  <2>3. shopper.phase # "waiting" => answer' = {}
    BY <1>4 DEF CheckoutInv, AnswerOK
  <2>4. ASSUME shopper.phase = "done"
        PROVE  Confirmed(Len(log)) /\ \E o \in placed' : Answered(o)' /\ shopper.told = {o.attempt.key}
    BY <1>7, <2>1, <2>4 DEF CheckoutInv, AnswerOK
  <2>5. \A m \in requests' : Confirmed(m)
    BY DEF CheckoutInv, AnswerOK
  <2>6. shopper.phase = "waiting" => Confirmed(Len(log)) /\ shopper.memory # {}
    BY DEF CheckoutInv, AnswerOK
  <2>7. QED
    BY <1>6, <2>2, <2>3, <2>4, <2>5, <2>6 DEF AnswerOK
<1>14. AnswersHeard'
  <2> SUFFICES ASSUME ~shopper.lost PROVE AnswersHeard'
    BY DEF AnswersHeard
  <2>1. shopper.phase = "waiting" /\ requests = {n} /\ n = Len(log) /\ answer = {}
    BY DEF CheckoutInv, AnswersHeard
  <2>2. \A o \in placed : ~o.live
    BY <2>1 DEF CheckoutInv, AnswersHeard
  <2>3. requests' = {} /\ answer' = {reply}
    BY <1>4, <2>1
  <2>4. ASSUME NEW o \in placed', o.live PROVE o.attempt.key = Latest.key /\ result = "OK"
    BY <1>3, <1>4, <2>1, <2>2, <2>4 DEF Latest
  <2>5. QED
    BY <1>3, <1>6, <2>1, <2>3, <2>4 DEF AnswersHeard
<1>15. QED
  BY <1>5, <1>9, <1>10, <1>11, <1>12, <1>13, <1>14 DEF CheckoutInv

(* The server answers a confirmation, by the order of its key if there is  *)
(* one.                                                                    *)
LEMMA ServeKeeps ==
  ASSUME CheckoutInv, Serve
  PROVE  CheckoutInv'
<1> DEFINE Reply(n, result) ==
             answer' = IF shopper.phase = "waiting" /\ n = Len(log)
                       THEN {[result |-> result, key |-> log[n].key, quote |-> [cart |-> log[n].cart, price |-> asked]]}
                       ELSE answer
           Outcome(n, live) == Reply(n, IF live THEN "OK" ELSE "PAYMENT_CREATION_FAILED")
<1>1. PICK n \in requests :
        /\ requests' = requests \ {n}
        /\ UNCHANGED <<shopper, asked, log>>
        /\ \/ \E o \in {p \in placed : p.attempt.key = log[n].key} :
                ~Matches(o, log[n]) /\ Reply(n, "CART_INVALID") /\ UNCHANGED placed
           \/ \E o \in {p \in placed : p.attempt.key = log[n].key} :
                Matches(o, log[n]) /\ Outcome(n, o.live) /\ UNCHANGED placed
           \/ {p \in placed : p.attempt.key = log[n].key} = {} /\ Reply(n, "QUOTE_CHANGED") /\ UNCHANGED placed
           \/ \E live \in BOOLEAN :
                /\ {p \in placed : p.attempt.key = log[n].key} = {}
                /\ placed' = placed \cup {[attempt |-> log[n], live |-> live]}
                /\ Outcome(n, live)
  BY Zenon DEF Serve
<1>2. Confirmed(n) /\ AttemptsTypeOK
  BY DEF CheckoutInv, AnswerOK
<1>3. log[n] \in Attempt /\ log[n].cart \in Carts
  BY <1>2, ConfirmedIs
<1> DEFINE quote == [cart |-> log[n].cart, price |-> asked]
<1>4. quote \in Quote
  BY <1>2, <1>3 DEF AttemptsTypeOK, Quote
<1>5. ASSUME NEW result \in Results, Reply(n, result), placed' = placed,
             result = "OK" => \E o \in placed : o.live /\ o.attempt.key = log[n].key
                                             /\ Fingerprint(o.attempt) = Fingerprint(log[n]),
             result = "PAYMENT_CREATION_FAILED" => \E o \in placed : o.attempt.key = log[n].key /\ ~o.live
      PROVE  CheckoutInv'
  <2>1. answer' = IF shopper.phase = "waiting" /\ n = Len(log)
                  THEN {[result |-> result, key |-> log[n].key, quote |-> quote]} ELSE answer
    BY <1>5
  <2> HIDE DEF quote, Reply
  <2>2. QED
    BY <1>1, <1>4, <1>5, <2>1, ServedKeeps
<1>6. ASSUME \E o \in {p \in placed : p.attempt.key = log[n].key} :
               ~Matches(o, log[n]) /\ Reply(n, "CART_INVALID") /\ UNCHANGED placed
      PROVE  CheckoutInv'
  <2>1. "CART_INVALID" \in Results /\ Reply(n, "CART_INVALID") /\ placed' = placed
    BY <1>6 DEF Results
  <2> HIDE DEF Reply
  <2>2. QED
    BY <1>5, <2>1
<1>7. ASSUME NEW o \in {p \in placed : p.attempt.key = log[n].key},
             Matches(o, log[n]), Outcome(n, o.live), UNCHANGED placed
      PROVE  CheckoutInv'
  <2>1. o.live \in BOOLEAN /\ o.attempt.key = log[n].key /\ o \in placed
    BY <1>2 DEF AttemptsTypeOK
  <2>2. Fingerprint(o.attempt) = Fingerprint(log[n])
    BY <1>7 DEF Matches
  <2> HIDE DEF Reply
  <2>3. CASE o.live
    <3>1. "OK" \in Results /\ Reply(n, "OK")
      BY <1>7, <2>3 DEF Results
    <3>2. QED
      BY <1>5, <1>7, <2>1, <2>2, <2>3, <3>1
  <2>4. CASE ~o.live
    <3>1. "PAYMENT_CREATION_FAILED" \in Results /\ Reply(n, "PAYMENT_CREATION_FAILED")
      BY <1>7, <2>4 DEF Results
    <3>2. QED
      BY <1>5, <1>7, <2>1, <2>2, <2>4, <3>1
  <2>5. QED
    BY <2>3, <2>4
<1>8. ASSUME {p \in placed : p.attempt.key = log[n].key} = {}, Reply(n, "QUOTE_CHANGED"), UNCHANGED placed
      PROVE  CheckoutInv'
  <2>1. "QUOTE_CHANGED" \in Results
    BY DEF Results
  <2> HIDE DEF Reply
  <2>2. QED
    BY <1>5, <1>8, <2>1
<1>9. ASSUME NEW live \in BOOLEAN, {p \in placed : p.attempt.key = log[n].key} = {},
             placed' = placed \cup {[attempt |-> log[n], live |-> live]}, Outcome(n, live)
      PROVE  CheckoutInv'
  <2> DEFINE result == IF live THEN "OK" ELSE "PAYMENT_CREATION_FAILED"
             new == [attempt |-> log[n], live |-> live]
  <2>1. result \in Results /\ (live => result = "OK") /\ (~live => result = "PAYMENT_CREATION_FAILED")
    BY DEF Results
  <2>2. answer' = IF shopper.phase = "waiting" /\ n = Len(log)
                  THEN {[result |-> result, key |-> log[n].key, quote |-> quote]} ELSE answer
    BY <1>9
  <2>3. new \in placed' /\ new.attempt = log[n] /\ new.live = live
    BY <1>9
  <2>4. result = "OK" => live
    OBVIOUS
  <2>5. result = "PAYMENT_CREATION_FAILED" => ~live
    OBVIOUS
  <2>6. result = "OK" => \E o \in placed' : o.live /\ o.attempt.key = log[n].key
                                         /\ Fingerprint(o.attempt) = Fingerprint(log[n])
    BY <2>3, <2>4
  <2>7. result = "PAYMENT_CREATION_FAILED" => \E o \in placed' : o.attempt.key = log[n].key /\ ~o.live
    BY <2>3, <2>5
  <2>8. \A o \in placed : o.attempt.key # log[n].key
    BY <1>9
  <2> HIDE DEF result, new, quote, Reply
  <2>9. QED
    BY <1>1, <1>4, <1>9, <2>1, <2>2, <2>6, <2>7, <2>8, ServedKeeps
<1> HIDE DEF Reply, Outcome
<1>10. QED
  BY <1>1, <1>6, <1>7, <1>8, <1>9

(* What a confirmation does: it carries the key of the record the browser  *)
(* knows, or its own place when it knows none of the same.                 *)
LEMMA SubmitDoes ==
  ASSUME CheckoutInv, Submit
  PROVE  \E record \in Record, new \in BOOLEAN :
    /\ shopper.phase = "ready" /\ shopper' \in Shopper /\ shopper'.phase = "waiting"
    /\ shopper'.storage = shopper.storage /\ shopper'.lost = shopper.lost /\ shopper'.memory = {record}
    /\ log' = Append(log, [cart |-> shopper.cart, notes |-> shopper.notes,
                           seen |-> EffectiveQuote(shopper), key |-> record.key])
    /\ [cart |-> shopper.cart, notes |-> shopper.notes, seen |-> EffectiveQuote(shopper), key |-> record.key] \in Attempt
    /\ record.print = [cart |-> shopper.cart, seen |-> EffectiveQuote(shopper)]
    /\ requests' = requests \cup {Len(log) + 1} /\ UNCHANGED <<answer, placed, asked>>
    /\ \/ /\ ~new /\ record \in KeptKey(shopper) /\ shopper'.stored = shopper.stored
       \/ /\ new /\ record.key = Len(log) + 1 /\ \A r \in KeptKey(shopper) : r.print # record.print
          /\ shopper'.stored = IF shopper.storage THEN {record} ELSE shopper.stored
<1> DEFINE known   == Known(shopper)
           own     == [key |-> Len(log) + 1, print |-> PrintOf(shopper)]
           records == IF known = {} THEN {own} ELSE known
           writes  == known = {} /\ shopper.storage
<1>1. PICK record \in records :
        /\ log' = Append(log, [cart |-> shopper.cart, notes |-> shopper.notes,
                               seen |-> EffectiveQuote(shopper), key |-> record.key])
        /\ shopper' = [shopper EXCEPT !.phase = "waiting", !.memory = {record},
                                      !.stored = IF writes THEN {record} ELSE @]
  BY Zenon DEF Submit
<1>2. shopper.phase = "ready" /\ requests' = requests \cup {Len(log) + 1} /\ UNCHANGED <<answer, placed, asked>>
  BY DEF Submit
<1>3. shopper \in Shopper /\ Len(log) \in Nat
  BY LenProperties DEF CheckoutInv, AttemptsTypeOK
<1>4. EffectiveQuote(shopper) \in Quote /\ shopper.cart \in Carts /\ shopper.notes \in Notes
  BY <1>3 DEF Shopper, EffectiveQuote
<1>5. PrintOf(shopper) = [cart |-> shopper.cart, seen |-> EffectiveQuote(shopper)]
      /\ PrintOf(shopper) \in [cart : Carts, seen : Quote]
  BY <1>4 DEF PrintOf
<1>6. known \subseteq shopper.memory \cup shopper.stored /\ \A r \in known : r.print = PrintOf(shopper)
  BY DEF Known
<1>7. known = {} => \A r \in shopper.memory \cup shopper.stored : r.print # PrintOf(shopper)
  BY DEF Known
<1>8. shopper.memory \cup shopper.stored = KeptKey(shopper)
  BY DEF CheckoutInv, RecordOK, KeptKey
<1>9. KeptKey(shopper) \subseteq Record
  BY <1>3, <1>8 DEF Shopper
<1>10. own \in Record /\ own.key = Len(log) + 1 /\ own.print = PrintOf(shopper)
  BY <1>3, <1>5 DEF Record
<1> HIDE DEF known, own
<1>11. record \in Record /\ record.print = PrintOf(shopper) /\ record.key \in Nat
  BY <1>6, <1>8, <1>9, <1>10 DEF Record
<1> DEFINE stored == IF writes THEN {record} ELSE shopper.stored
           one    == [shopper EXCEPT !.phase = "waiting"]
           two    == [one EXCEPT !.memory = {record}]
           three  == [two EXCEPT !.stored = stored]
<1>12. shopper' = [shopper EXCEPT !.phase = "waiting", !.memory = {record}, !.stored = stored]
  <2>1. [shopper EXCEPT !.phase = "waiting", !.memory = {record}, !.stored = IF writes THEN {record} ELSE @]
        = [shopper EXCEPT !.phase = "waiting", !.memory = {record}, !.stored = stored]
    BY Zenon
  <2>2. QED
    BY <1>1, <2>1, Zenon
<1>13. shopper' = three
  BY <1>12, Zenon
<1>14. stored \subseteq Record /\ stored = IF known = {} /\ shopper.storage THEN {record} ELSE shopper.stored
  BY <1>3, <1>11 DEF Shopper
<1> HIDE DEF stored
<1>15. /\ three \in Shopper /\ three.phase = "waiting" /\ three.storage = shopper.storage
       /\ three.lost = shopper.lost /\ three.memory = {record} /\ three.stored = stored
  BY <1>3, <1>11, <1>14 DEF Shopper
<1> HIDE DEF three
<1>16. [cart |-> shopper.cart, notes |-> shopper.notes, seen |-> EffectiveQuote(shopper), key |-> record.key] \in Attempt
  BY <1>4, <1>11 DEF Attempt
<1>17. CASE known = {}
  <2>1. record = own
    BY <1>17
  <2>2. record.key = Len(log) + 1 /\ \A r \in KeptKey(shopper) : r.print # record.print
    BY <1>7, <1>8, <1>10, <1>11, <1>17, <2>1
  <2>3. shopper'.stored = IF shopper.storage THEN {record} ELSE shopper.stored
    BY <1>13, <1>14, <1>15, <1>17
  <2>4. TRUE \in BOOLEAN
    OBVIOUS
  <2>5. QED
    BY <1>1, <1>2, <1>5, <1>11, <1>13, <1>15, <1>16, <2>2, <2>3, <2>4, Zenon
<1>18. CASE known # {}
  <2>1. record \in KeptKey(shopper)
    BY <1>6, <1>8, <1>18
  <2>2. shopper'.stored = shopper.stored
    BY <1>13, <1>14, <1>15, <1>18
  <2>3. FALSE \in BOOLEAN
    OBVIOUS
  <2>4. QED
    BY <1>1, <1>2, <1>5, <1>11, <1>13, <1>15, <1>16, <2>1, <2>2, <2>3, Zenon
<1>19. QED
  BY <1>17, <1>18

(* Whoever confirms what he confirmed before without a record of it had    *)
(* his order cancelled.                                                    *)
LEMMA NoRecordNoOrder ==
  ASSUME CheckoutInv, shopper.phase = "ready", NEW cart, NEW seen,
         \A r \in KeptKey(shopper) : ~(r.print.cart = cart /\ r.print.seen = seen),
         NEW i \in 1..Len(log), FreshKey(i), log[i].cart = cart, log[i].seen = seen,
         \A m \in i + 1 .. Len(log) : ~TurnsAway(m, i)
  PROVE  Dead(i)
<1>1. Len(log) \in Nat /\ i <= Len(log) /\ i \in Nat
  BY LenProperties DEF CheckoutInv, AttemptsTypeOK
<1>2. \A m \in i + 1 .. Len(log) : log[m] # Forgotten /\ Same(log[m], log[i])
  BY <1>1 DEF TurnsAway
<1>3. Confirmed(Len(log)) /\ Same(Latest, log[i])
  BY <1>1, <1>2 DEF FreshKey, Confirmed, Same, Latest
<1>4. KeptKey(shopper) = {}
  BY <1>3 DEF CheckoutInv, RecordOK, Same
<1>5. Dead(Latest.key)
  BY <1>3, <1>4 DEF CheckoutInv, RecordOK
<1>6. PICK k \in 1..Len(log) : Latest.key = k /\ FreshKey(k) /\ Same(Latest, log[k])
  BY <1>1, <1>3 DEF CheckoutInv, LogOK, Latest, Confirmed
<1>7. i <= k
  BY <1>1, <1>3, <1>6 DEF CheckoutInv, LogOK, Latest, FreshKey, Confirmed
<1>8. CASE i = k
  BY <1>5, <1>6, <1>8
<1>9. CASE i < k
  <2>1. Same(log[i], log[k])
    BY <1>3, <1>6 DEF Same
  <2>2. Dead(i) \/ \E m \in i + 1 .. k - 1 : TurnsAway(m, i)
    BY <1>6, <1>9, <2>1 DEF CheckoutInv, TurnedOK
  <2>3. QED
    BY <1>1, <1>6, <2>2
<1>10. QED
  BY <1>1, <1>6, <1>7, <1>8, <1>9

(* The shopper confirms: with the key of the record if it is of the same   *)
(* checkout, with a new one otherwise.                                     *)
LEMMA SubmitKeeps ==
  ASSUME CheckoutInv, Submit
  PROVE  CheckoutInv'
<1> DEFINE E(record) == [cart |-> shopper.cart, notes |-> shopper.notes,
                         seen |-> EffectiveQuote(shopper), key |-> record.key]
<1>1. PICK record \in Record, new \in BOOLEAN :
    /\ shopper.phase = "ready" /\ shopper' \in Shopper /\ shopper'.phase = "waiting"
    /\ shopper'.storage = shopper.storage /\ shopper'.lost = shopper.lost /\ shopper'.memory = {record}
    /\ log' = Append(log, E(record))
    /\ E(record) \in Attempt
    /\ record.print = [cart |-> shopper.cart, seen |-> EffectiveQuote(shopper)]
    /\ requests' = requests \cup {Len(log) + 1} /\ UNCHANGED <<answer, placed, asked>>
    /\ \/ /\ ~new /\ record \in KeptKey(shopper) /\ shopper'.stored = shopper.stored
       \/ /\ new /\ record.key = Len(log) + 1 /\ \A r \in KeptKey(shopper) : r.print # record.print
          /\ shopper'.stored = IF shopper.storage THEN {record} ELSE shopper.stored
  BY SubmitDoes
<1> DEFINE e == E(record)
<1>2. /\ e \in Attempt /\ e.key = record.key /\ record.print.cart = e.cart /\ record.print.seen = e.seen
      /\ log' = Append(log, e)
  BY <1>1
<1>3. e # Forgotten /\ e \in Attempt \cup {Forgotten} /\ record.key \in Nat
  BY <1>2, ForgottenIsNone DEF Record
<1>4. \A r \in KeptKey(shopper) : r.print = [cart |-> r.print.cart, seen |-> r.print.seen]
  BY DEF CheckoutInv, AttemptsTypeOK, Shopper, KeptKey, Record
<1>5. new => \A r \in KeptKey(shopper) : ~(r.print.cart = e.cart /\ r.print.seen = e.seen)
  <2>1. record.print = [cart |-> e.cart, seen |-> e.seen]
    BY <1>1
  <2>2. QED
    BY <1>1, <1>4, <2>1
<1> HIDE DEF e, E
<1>6. AttemptsTypeOK /\ shopper \in Shopper
  BY DEF CheckoutInv, AttemptsTypeOK
<1>7. /\ log' \in Seq(Attempt \cup {Forgotten}) /\ Len(log) \in Nat /\ Len(log') = Len(log) + 1
      /\ \A n \in 1..Len(log) : log'[n] = log[n]
      /\ log'[Len(log) + 1] = e /\ Latest' = e
      /\ 1..Len(log) \subseteq 1..Len(log')
  BY <1>2, <1>3, <1>6, LogGrows DEF Latest
<1>8. /\ \A n \in 1..Len(log) : Confirmed(n)' <=> Confirmed(n)
      /\ \A n \in 1..Len(log) : FreshKey(n)' <=> FreshKey(n)
      /\ \A k : Dead(k)' <=> Dead(k)
      /\ \A m, i \in 1..Len(log) : TurnsAway(m, i)' <=> TurnsAway(m, i)
      /\ OrdersOK'
  BY <1>1, <1>2, <1>3, <1>6, OlderStay DEF CheckoutInv
<1>0. PICK top : top = Len(log) + 1
  OBVIOUS
<1>9. Confirmed(Len(log))' /\ Confirmed(top)'
  BY <1>0, <1>3, <1>7 DEF Confirmed
<1>10. ~new => Confirmed(Len(log)) /\ e.key = Latest.key /\ Same(e, Latest) /\ record \in KeptKey(shopper)
  BY <1>1, <1>2 DEF CheckoutInv, RecordOK, Same
<1>11. new => e.key = Len(log) + 1
  BY <1>1, <1>2
<1>12. LogOK'
  <2>1. \E k \in 1..Len(log) + 1 : e.key = k /\ FreshKey(k)' /\ Same(e, log'[k])
    <3>1. CASE new
      <4>1. FreshKey(top)'
        BY <1>0, <1>7, <1>9, <1>11, <3>1 DEF FreshKey
      <4>2. QED
        BY <1>0, <1>7, <1>11, <3>1, <4>1 DEF Same
    <3>2. CASE ~new
      <4>1. PICK k \in 1..Len(log) : Latest.key = k /\ FreshKey(k) /\ Same(Latest, log[k])
        BY <1>7, <1>10, <3>2 DEF CheckoutInv, LogOK, Latest, Confirmed
      <4>2. k \in 1..Len(log) + 1 /\ FreshKey(k)' /\ Same(e, log'[k])
        BY <1>7, <1>8, <1>10, <3>2, <4>1 DEF Same
      <4>3. QED
        BY <1>10, <3>2, <4>1, <4>2
    <3>3. QED
      BY <3>1, <3>2
  <2>2. ASSUME NEW m \in 1..Len(log), log[m] # Forgotten PROVE log[m].key <= e.key
    <3>1. PICK k \in 1..m : log[m].key = k
      BY <2>2 DEF CheckoutInv, LogOK
    <3>2. CASE new
      BY <1>7, <1>11, <3>1, <3>2
    <3>3. CASE ~new
      <4>1. Confirmed(Len(log)) /\ e.key = log[Len(log)].key
        BY <1>10, <3>3 DEF Latest
      <4>2. log[Len(log)] # Forgotten /\ m <= Len(log) /\ Len(log) \in 1..Len(log)
        BY <1>7, <4>1 DEF Confirmed
      <4>3. QED
        BY <2>2, <4>1, <4>2 DEF CheckoutInv, LogOK
    <3>4. QED
      BY <3>2, <3>3
  <2>3. /\ \A n \in 1..Len(log) : log'[n] # Forgotten =>
              \E k \in 1..n : log'[n].key = k /\ FreshKey(k)' /\ Same(log'[n], log'[k])
        /\ \A m, n \in 1..Len(log) : m <= n /\ log'[m] # Forgotten /\ log'[n] # Forgotten => log'[m].key <= log'[n].key
    BY <1>1, <1>2, <1>3, OlderOK
  <2>4. ASSUME NEW n \in 1..Len(log'), log'[n] # Forgotten
        PROVE  \E k \in 1..n : log'[n].key = k /\ FreshKey(k)' /\ Same(log'[n], log'[k])
    <3>1. n \in 1..Len(log) \/ n = Len(log) + 1
      BY <1>7
    <3>2. CASE n \in 1..Len(log)
      BY <2>3, <2>4, <3>2
    <3>3. CASE n = Len(log) + 1
      BY <1>7, <2>1, <3>3
    <3>4. QED
      BY <3>1, <3>2, <3>3
  <2>5. ASSUME NEW m \in 1..Len(log'), NEW n \in 1..Len(log'), m <= n, log'[m] # Forgotten, log'[n] # Forgotten
        PROVE  log'[m].key <= log'[n].key
    <3>1. CASE n \in 1..Len(log)
      <4>1. m \in 1..Len(log)
        BY <1>7, <2>5, <3>1
      <4>2. QED
        BY <2>3, <2>5, <3>1, <4>1
    <3>2. CASE n = Len(log) + 1 /\ m \in 1..Len(log)
      BY <1>7, <2>2, <2>5, <3>2
    <3>3. CASE n = Len(log) + 1 /\ m = Len(log) + 1
      BY <1>2, <1>3, <1>7, <3>3
    <3>4. QED
      BY <1>7, <3>1, <3>2, <3>3
  <2>6. QED
    BY <2>4, <2>5 DEF LogOK
<1>13. TurnedOK'
  <2>1. ASSUME NEW i \in 1..Len(log), FreshKey(i), new, Same(log[i], e)
        PROVE  Dead(i)' \/ \E m \in i + 1 .. Len(log) : TurnsAway(m, i)'
    <3>1. log[i].cart = e.cart /\ log[i].seen = e.seen
      BY <2>1 DEF Same
    <3>2. Dead(i) \/ \E m \in i + 1 .. Len(log) : TurnsAway(m, i)
      BY <1>1, <1>5, <2>1, <3>1, NoRecordNoOrder
    <3>3. ASSUME NEW m \in i + 1 .. Len(log), TurnsAway(m, i) PROVE TurnsAway(m, i)'
      <4>1. m \in 1..Len(log)
        BY <3>3 DEF TurnsAway
      <4>2. QED
        BY <1>8, <3>3, <4>1
    <3>4. QED
      BY <1>8, <3>2, <3>3
  <2>2. \A i, j \in 1..Len(log) : i < j /\ FreshKey(i)' /\ FreshKey(j)' /\ Same(log'[i], log'[j]) =>
              Dead(i)' \/ \E m \in i + 1 .. j - 1 : TurnsAway(m, i)'
    BY <1>1, <1>2, <1>3, OlderOK
  <2>3. ASSUME NEW i \in 1..Len(log'), NEW j \in 1..Len(log'), i < j, FreshKey(i)', FreshKey(j)', Same(log'[i], log'[j])
        PROVE  Dead(i)' \/ \E m \in i + 1 .. j - 1 : TurnsAway(m, i)'
    <3>1. CASE j \in 1..Len(log)
      <4>1. i \in 1..Len(log)
        BY <1>7, <2>3, <3>1
      <4>2. QED
        BY <2>2, <2>3, <3>1, <4>1
    <3>2. CASE j = Len(log) + 1
      <4>1. i \in 1..Len(log) /\ FreshKey(i) /\ log'[i] = log[i] /\ log'[j] = e
        BY <1>7, <1>8, <2>3, <3>2
      <4>2. e.key = Len(log) + 1
        BY <2>3, <3>2, <4>1 DEF FreshKey
      <4>3. new
        <5>1. ASSUME ~new PROVE FALSE
          <6>1. PICK k \in 1..Len(log) : Latest.key = k
            BY <1>7, <1>10, <5>1 DEF CheckoutInv, LogOK, Latest, Confirmed
          <6>2. QED
            BY <1>7, <1>10, <4>2, <5>1, <6>1
        <5>2. QED
          BY <5>1
      <4>4. Same(log[i], e)
        BY <2>3, <4>1
      <4>5. Dead(i)' \/ \E m \in i + 1 .. Len(log) : TurnsAway(m, i)'
        BY <2>1, <4>1, <4>3, <4>4
      <4>6. j - 1 = Len(log)
        BY <1>7, <3>2
      <4>7. QED
        BY <4>5, <4>6
    <3>3. QED
      BY <1>7, <3>1, <3>2
  <2>4. QED
    BY <2>3 DEF TurnedOK
<1>14. AttemptsTypeOK'
  <2>1. DOMAIN log' = 1..Len(log') /\ DOMAIN log = 1..Len(log)
    BY <1>6, <1>7, LenProperties DEF AttemptsTypeOK
  <2>2. requests' \subseteq DOMAIN log'
    BY <1>1, <1>6, <1>7, <2>1 DEF AttemptsTypeOK
  <2>3. QED
    BY <1>1, <1>6, <1>7, <2>2 DEF AttemptsTypeOK
<1>15. RecordOK'
  <2>1. shopper.storage \in BOOLEAN
    BY <1>6 DEF Shopper
  <2>2. /\ \A r \in KeptKey(shopper)' : r.key = e.key /\ r.print.cart = e.cart /\ r.print.seen = e.seen
        /\ record \in KeptKey(shopper)'
        /\ shopper'.storage \/ shopper'.stored = {}
    <3>1. CASE new
      <4>1. KeptKey(shopper)' = {record}
        BY <1>1, <3>1 DEF KeptKey
      <4>2. QED
        BY <1>1, <1>2, <3>1, <4>1 DEF CheckoutInv, RecordOK
    <3>2. CASE ~new
      <4>1. record \in KeptKey(shopper) /\ shopper'.stored = shopper.stored
        BY <1>1, <3>2
      <4>2. KeptKey(shopper)' \subseteq KeptKey(shopper) /\ record \in KeptKey(shopper)'
        BY <1>1, <4>1 DEF KeptKey
      <4>3. \A r \in KeptKey(shopper) : r.key = Latest.key /\ r.print.cart = Latest.cart /\ r.print.seen = Latest.seen
        BY DEF CheckoutInv, RecordOK
      <4>4. shopper.storage \/ shopper.stored = {}
        BY DEF CheckoutInv, RecordOK
      <4>5. QED
        BY <1>1, <1>10, <3>2, <4>1, <4>2, <4>3, <4>4 DEF Same
    <3>3. QED
      BY <3>1, <3>2
  <2>3. shopper'.memory \subseteq KeptKey(shopper)'
    BY <1>1, <2>2
  <2>4. QED
    BY <1>7, <1>9, <2>2, <2>3 DEF RecordOK
<1>16. answer = {} /\ answer' = {}
  BY <1>1 DEF CheckoutInv, AnswerOK
<1>17. AnswerOK'
  <2>1. ASSUME NEW n \in requests' PROVE Confirmed(n)'
    <3>1. CASE n \in requests
      <4>1. Confirmed(n) /\ n \in 1..Len(log)
        BY <3>1 DEF CheckoutInv, AnswerOK, Confirmed
      <4>2. QED
        BY <1>8, <4>1
    <3>2. QED
      BY <1>0, <1>1, <1>9, <3>1
  <2>2. QED
    BY <1>1, <1>9, <1>16, <2>1 DEF AnswerOK
<1>18. AnswersHeard'
  <2> SUFFICES ASSUME ~shopper.lost PROVE AnswersHeard'
    BY <1>1 DEF AnswersHeard
  <2>1. requests = {} /\ \A o \in placed : ~o.live
    BY <1>1 DEF CheckoutInv, AnswersHeard
  <2>2. requests' = {Len(log')}
    BY <1>1, <1>7, <2>1
  <2>3. QED
    BY <1>1, <1>16, <2>1, <2>2 DEF AnswersHeard
<1>19. QED
  BY <1>8, <1>12, <1>13, <1>14, <1>15, <1>17, <1>18 DEF CheckoutInv

(* What the invariant says of the orders that stand.                       *)
LEMMA OneForAll ==
  ASSUME CheckoutInv
  PROVE  OneOrderPerCheckout
<1>1. ASSUME NEW o \in placed
      PROVE  \E k \in 1..Len(log) : o.attempt.key = k /\ FreshKey(k) /\ Same(o.attempt, log[k])
  <2>1. PICK n \in 1..Len(log) : log[n] # Forgotten /\ o.attempt = log[n]
    BY DEF CheckoutInv, OrdersOK
  <2>2. PICK k \in 1..n : log[n].key = k /\ FreshKey(k) /\ Same(log[n], log[k])
    BY <2>1 DEF CheckoutInv, LogOK
  <2>3. k \in 1..Len(log)
    BY <2>2 DEF FreshKey, Confirmed
  <2>4. QED
    BY <2>1, <2>2, <2>3
<1>2. ASSUME NEW a \in LiveOrders, NEW b \in LiveOrders, a.attempt.key < b.attempt.key, SamePurchase(a, b)
      PROVE  TurnedAway(a, b)
  <2>1. a \in placed /\ b \in placed /\ a.live
    BY DEF LiveOrders
  <2>2. PICK i \in 1..Len(log) : a.attempt.key = i /\ FreshKey(i) /\ Same(a.attempt, log[i])
    BY <1>1, <2>1
  <2>3. PICK j \in 1..Len(log) : b.attempt.key = j /\ FreshKey(j) /\ Same(b.attempt, log[j])
    BY <1>1, <2>1
  <2>4. Same(log[i], log[j]) /\ i < j
    BY <1>2, <2>2, <2>3 DEF Same, SamePurchase
  <2>5. Dead(i) \/ \E m \in i + 1 .. j - 1 : TurnsAway(m, i)
    BY <2>2, <2>3, <2>4 DEF CheckoutInv, TurnedOK
  <2>6. ~Dead(i)
    BY <2>1, <2>2 DEF Dead, CheckoutInv, OrdersOK
  <2>7. PICK m \in i + 1 .. j - 1 : TurnsAway(m, i)
    BY <2>5, <2>6
  <2>8. log[m] = Forgotten \/ log[m].cart # a.attempt.cart \/ log[m].seen # a.attempt.seen
    BY <2>2, <2>7 DEF TurnsAway, Same
  <2>9. QED
    BY <2>2, <2>3, <2>7, <2>8 DEF TurnedAway
<1>3. ASSUME shopper.phase = "done"
      PROVE  \E o \in LiveOrders :
               /\ shopper.told = {o.attempt.key} /\ Fingerprint(o.attempt) = Fingerprint(Latest)
               /\ ~shopper.lost => LiveOrders = {o}
  <2>1. PICK o \in placed : Answered(o) /\ shopper.told = {o.attempt.key}
    BY <1>3 DEF CheckoutInv, AnswerOK
  <2>2. o \in LiveOrders /\ Fingerprint(o.attempt) = Fingerprint(Latest) /\ o.attempt.key = Latest.key
    BY <2>1 DEF LiveOrders, Answered
  <2>3. ASSUME ~shopper.lost, NEW p \in LiveOrders PROVE p = o
    <3>1. p \in placed /\ p.live
      BY DEF LiveOrders
    <3>2. p.attempt.key = Latest.key
      BY <2>3, <3>1 DEF CheckoutInv, AnswersHeard
    <3>3. QED
      BY <2>1, <2>2, <3>1, <3>2 DEF CheckoutInv, OrdersOK
  <2>4. QED
    BY <2>1, <2>2, <2>3
<1>4. QED
  BY <1>2, <1>3 DEF OneOrderPerCheckout

(* Repeating a confirmation makes no second order: as long as the browser  *)
(* keeps a record of its attempt it is that of the latest confirmation,    *)
(* and it keeps none only when the attempt's order is cancelled.           *)
THEOREM ConfirmedOnce == AttemptsSpec => [](AttemptsTypeOK /\ OneOrderPerCheckout)
<1>1. AttemptsInit => CheckoutInv
  <2> SUFFICES ASSUME AttemptsInit PROVE CheckoutInv
    OBVIOUS
  <2>1. PICK cart \in Carts, notes \in Notes, price \in Prices, storage \in BOOLEAN :
          /\ asked = price
          /\ shopper = [cart |-> cart, notes |-> notes, quote |-> [cart |-> cart, price |-> price],
                        accepted |-> {}, changed |-> {}, phase |-> "ready", storage |-> storage,
                        memory |-> {}, stored |-> {}, lost |-> FALSE, told |-> {}]
    BY DEF AttemptsInit
  <2>2. requests = {} /\ answer = {} /\ placed = {} /\ log = <<>> /\ Len(<<>>) = 0
    BY DEF AttemptsInit
  <2>3. [cart |-> cart, price |-> price] \in Quote
    BY DEF Quote
  <2>4. shopper \in Shopper /\ shopper.memory = {} /\ shopper.stored = {} /\ shopper.phase = "ready"
    BY <2>1, <2>3 DEF Shopper
  <2>5. log \in Seq(Attempt \cup {Forgotten})
    BY <2>2
  <2>6. AttemptsTypeOK
    BY <2>1, <2>2, <2>4, <2>5 DEF AttemptsTypeOK
  <2>7. LogOK /\ OrdersOK /\ TurnedOK
    BY <2>2 DEF LogOK, OrdersOK, TurnedOK
  <2>8. \A n : ~Confirmed(n)
    BY <2>2 DEF Confirmed
  <2>9. KeptKey(shopper) = {}
    BY <2>4 DEF KeptKey
  <2>10. RecordOK /\ AnswerOK /\ AnswersHeard
    BY <2>2, <2>4, <2>8, <2>9 DEF RecordOK, AnswerOK, AnswersHeard
  <2>11. QED
    BY <2>6, <2>7, <2>10 DEF CheckoutInv
<1>2. CheckoutInv /\ [AttemptsNext]_attemptVars => CheckoutInv'
  <2> SUFFICES ASSUME CheckoutInv, [AttemptsNext]_attemptVars PROVE CheckoutInv'
    OBVIOUS
  <2>1. CASE UNCHANGED attemptVars
    <3>1. UNCHANGED <<shopper, requests, answer, placed, asked, log>>
      BY <2>1 DEF attemptVars
    <3>2. AttemptsTypeOK'
      BY <3>1 DEF CheckoutInv, AttemptsTypeOK
    <3>3. QED
      BY <3>1, <3>2, FormKeeps
  <2>2. QED
    BY <2>1, PriceKeeps, EditCartKeeps, EditNotesKeeps, RefreshKeeps, AcceptKeeps, ReloadKeeps,
       SubmitKeeps, LoseKeeps, ServeKeeps, ReceiveKeeps DEF AttemptsNext
<1>3. CheckoutInv => AttemptsTypeOK /\ OneOrderPerCheckout
  BY OneForAll DEF CheckoutInv
<1>4. QED
  BY <1>1, <1>2, <1>3, PTL DEF AttemptsSpec

-----------------------------------------------------------------------------
(* Schedules of offers.                                                    *)

(* Whatever the week, the window and the dates: at most one first date and *)
(* one date after the last.                                                *)
OptionalDates == {S \in SUBSET Int : \A x, y \in S : x = y}
Timetable ==
  [starts : OptionalDates, ends : OptionalDates, weekdays : SUBSET (0..Week - 1),
   window : SUBSET [start : 0..Day - 1, end : 0..Day - 1]]

(* Quotient and remainder, and that they are the only ones.                *)
LEMMA QuotientRemainder ==
  ASSUME NEW w \in Nat, w > 0, NEW x \in Int
  PROVE  x \div w \in Int /\ x % w \in 0..w - 1 /\ x = w * (x \div w) + (x % w)
<1>1. x \div w \in Int
  BY SMT
<1>2. x % w \in 0..w - 1
  BY SMT
<1>3. x = w * (x \div w) + (x % w)
  BY SMT
<1>4. QED
  BY <1>1, <1>2, <1>3

(* Two remainders that differ by a multiple of the divisor are the same.   *)
LEMMA OneRemainder ==
  ASSUME NEW w \in Nat, w > 0, NEW a \in Int, NEW r \in 0..w - 1, NEW s \in 0..w - 1, w * a = r - s
  PROVE  r = s
<1>1. a >= 1 => w * a >= w
  OBVIOUS
<1>2. a <= -1 => w * a <= -w
  OBVIOUS
<1>3. a = 0
  BY <1>1, <1>2
<1>4. QED
  BY <1>3

(* Whole weeks away it is the same day of the week.                        *)
LEMMA SameWeekday ==
  ASSUME NEW x \in Int, NEW k \in Int
  PROVE  (x - Week * k) % Week = x % Week
<1> DEFINE y == x - Week * k
           p == x \div Week
           q == y \div Week
           r == x % Week
           s == y % Week
<1>1. Week \in Nat /\ Week > 0
  BY ScheduleAssumption
<1>2. y \in Int
  BY <1>1
<1>3. p \in Int /\ r \in 0..Week - 1 /\ x = Week * p + r
  BY <1>1, QuotientRemainder
<1>4. q \in Int /\ s \in 0..Week - 1 /\ y = Week * q + s
  <2> HIDE DEF y
  <2> QED
    BY <1>1, <1>2, QuotientRemainder
<1>5. y = x - Week * k
  OBVIOUS
<1> HIDE DEF y, p, q, r, s
<1>6. Week * (q + k - p) = r - s
  <2>1. Week * (q + k - p) = Week * q + Week * k - Week * p
    BY <1>1, <1>3, <1>4
  <2>2. Week * q \in Int /\ Week * k \in Int /\ Week * p \in Int
    BY <1>1, <1>3, <1>4
  <2>3. QED
    BY <1>1, <1>3, <1>4, <1>5, <2>1, <2>2
<1>7. q + k - p \in Int
  BY <1>3, <1>4
<1>8. r = s
  BY <1>1, <1>3, <1>4, <1>6, <1>7, OneRemainder
<1>9. QED
  BY <1>8 DEF r, s, y

(* Every date has its like in the week that begins at a given date.        *)
LEMMA SameDayInWeek ==
  ASSUME NEW base \in Int, NEW date \in Int
  PROVE  \E e \in base..base + Week - 1 : e % Week = date % Week /\ (e - 1) % Week = (date - 1) % Week
<1> DEFINE r == (date - base) % Week
           k == (date - base) \div Week
           e == base + r
<1>1. Week \in Nat /\ Week > 0 /\ date - base \in Int
  BY ScheduleAssumption
<1>2. k \in Int /\ r \in 0..Week - 1 /\ date - base = Week * k + r
  BY <1>1, QuotientRemainder
<1> HIDE DEF k, r
<1>3. e \in base..base + Week - 1 /\ Week * k \in Int
  BY <1>1, <1>2
<1>4. e = date - Week * k /\ e - 1 = (date - 1) - Week * k
  BY <1>1, <1>2, <1>3
<1>5. e % Week = date % Week
  BY <1>2, <1>4, SameWeekday
<1>6. (e - 1) % Week = (date - 1) % Week
  BY <1>2, <1>4, SameWeekday
<1>7. QED
  BY <1>3, <1>5, <1>6

(* The later of the first dates, and the earlier of the last ones, of two  *)
(* schedules.                                                              *)
LEMMA ExtremeDates ==
  ASSUME NEW A \in OptionalDates, NEW B \in OptionalDates, A \cup B # {}
  PROVE  /\ Max(A \cup B) \in A \cup B /\ \A x \in A \cup B : Max(A \cup B) >= x
         /\ Min(A \cup B) \in A \cup B /\ \A x \in A \cup B : Min(A \cup B) <= x
<1> DEFINE S == A \cup B
<1>1. A \subseteq Int /\ B \subseteq Int /\ (\A x, y \in A : x = y) /\ (\A x, y \in B : x = y)
  BY DEF OptionalDates
<1>2. \E x \in S : \A y \in S : x >= y
  <2>1. CASE A = {} \/ B = {}
    <3>1. (\A x, y \in S : x = y) /\ S \subseteq Int
      BY <1>1, <2>1
    <3>2. PICK x \in S : TRUE
      OBVIOUS
    <3>3. \A y \in S : x >= y
      <4> HIDE DEF S
      <4>1. QED
        BY <3>1, <3>2
    <3>4. QED
      BY <3>3
  <2>2. CASE A # {} /\ B # {}
    <3>1. PICK a \in A, b \in B : TRUE
      BY <2>2
    <3>2. CASE a >= b
      BY <1>1, <3>1, <3>2
    <3>3. CASE b >= a
      BY <1>1, <3>1, <3>3
    <3>4. QED
      BY <1>1, <3>1, <3>2, <3>3
  <2>3. QED
    BY <2>1, <2>2
<1>3. \E x \in S : \A y \in S : x <= y
  <2>1. CASE A = {} \/ B = {}
    <3>1. (\A x, y \in S : x = y) /\ S \subseteq Int
      BY <1>1, <2>1
    <3>2. PICK x \in S : TRUE
      OBVIOUS
    <3>3. \A y \in S : x <= y
      <4> HIDE DEF S
      <4>1. QED
        BY <3>1, <3>2
    <3>4. QED
      BY <3>3
  <2>2. CASE A # {} /\ B # {}
    <3>1. PICK a \in A, b \in B : TRUE
      BY <2>2
    <3>2. CASE a <= b
      BY <1>1, <3>1, <3>2
    <3>3. CASE b <= a
      BY <1>1, <3>1, <3>3
    <3>4. QED
      BY <1>1, <3>1, <3>2, <3>3
  <2>3. QED
    BY <2>1, <2>2
<1>4. QED
  BY <1>2, <1>3 DEF Max, Min

(* What makes a schedule eligible carries over to a date on the same day   *)
(* of the week, within the same bounds.                                    *)
LEMMA EligibleAlike ==
  ASSUME NEW s \in Timetable, NEW date \in Int, NEW e \in Int, e % Week = date % Week,
         \A first \in s.starts : e >= first, e <= date \/ \A end \in s.ends : e < end,
         BaseDateEligible(s, date)
  PROVE  BaseDateEligible(s, e)
  <1>1. s.ends \subseteq Int
    BY DEF Timetable, OptionalDates
  <1>2. QED
    BY <1>1 DEF BaseDateEligible

(* Where a schedule is active it has begun and is not over.                *)
LEMMA ActiveBetween ==
  ASSUME NEW s \in Timetable, NEW date \in Int, NEW minute, ActiveAt(s, date, minute)
  PROVE  (\A first \in s.starts : date >= first) /\ (\A over \in OverBefore(s) : date < over)
<1>1. s.starts \subseteq Int /\ s.ends \subseteq Int
  BY DEF Timetable, OptionalDates
<1>2. CASE BaseDateEligible(s, date)
  BY <1>1, <1>2 DEF BaseDateEligible, OverBefore
<1>3. CASE Overnight(s) /\ BaseDateEligible(s, date - 1)
  <2>1. \A first \in s.starts : date - 1 >= first
    BY <1>3 DEF BaseDateEligible
  <2>2. \A end \in s.ends : date - 1 < end
    BY <1>3 DEF BaseDateEligible
  <2>3. OverBefore(s) = {end + 1 : end \in s.ends}
    BY <1>3 DEF OverBefore
  <2>4. QED
    BY <1>1, <2>1, <2>2, <2>3
<1>4. QED
  BY <1>2, <1>3 DEF ActiveAt, Overnight

(* A schedule that is active is active whole weeks before or after, once   *)
(* it has begun on the day before and as long as it is not over.           *)
LEMMA ActiveAlike ==
  ASSUME NEW s \in Timetable, NEW date \in Int, NEW minute, ActiveAt(s, date, minute),
         NEW e \in Int, e <= date \/ \A end \in s.ends : e < end, e % Week = date % Week, (e - 1) % Week = (date - 1) % Week,
         \A first \in s.starts : e - 1 >= first
  PROVE  ActiveAt(s, e, minute)
<1>1. s.starts \subseteq Int /\ s.ends \subseteq Int
  BY DEF Timetable, OptionalDates
<1>2. BaseDateEligible(s, date) => BaseDateEligible(s, e)
  BY <1>1, EligibleAlike
<1>3. BaseDateEligible(s, date - 1) => BaseDateEligible(s, e - 1)
  BY <1>1, EligibleAlike
<1>4. QED
  BY <1>2, <1>3 DEF ActiveAt

(* The bounds within which two schedules are compared are dates.           *)
LEMMA OverIsOptional ==
  ASSUME NEW s \in Timetable
  PROVE  OverBefore(s) \in OptionalDates
<1>1. s.ends \subseteq Int /\ \A x, y \in s.ends : x = y
  BY DEF Timetable, OptionalDates
<1>2. CASE Overnight(s)
  <2>1. OverBefore(s) = {end + 1 : end \in s.ends}
    BY <1>2 DEF OverBefore
  <2>2. QED
    BY <1>1, <2>1 DEF OptionalDates
<1>3. CASE ~Overnight(s)
  <2>1. OverBefore(s) = {end + 0 : end \in s.ends}
    BY <1>3 DEF OverBefore
  <2>2. QED
    BY <1>1, <2>1 DEF OptionalDates
<1>4. QED
  BY <1>2, <1>3

(* A number brought between zero and a limit.                              *)
LEMMA Clamped ==
  ASSUME NEW limit \in Nat, NEW d \in Int
  PROVE  Min({limit, Max({0, d})}) = IF d <= 0 THEN 0 ELSE IF d < limit THEN d ELSE limit
<1>1. Max({0, d}) = IF d <= 0 THEN 0 ELSE d
  BY DEF Max
<1> DEFINE m == Max({0, d})
<1>2. m \in Nat
  BY <1>1
<1>3. Min({limit, m}) = IF m < limit THEN m ELSE limit
  <2> HIDE DEF m
  <2> QED
    BY <1>2 DEF Min
<1>4. QED
  BY <1>1, <1>3

(* Two schedules without a first date are scanned from a date long ago:    *)
(* the scan stands for all dates when it sees a whole week.                *)
ScansAWeek(l, r) ==
  l.starts \cup r.starts = {} => \A end \in l.ends \cup r.ends : end >= Epoch + Week

(* offerSchedulesOverlap looks at fifteen dates, and finds that two offers *)
(* are active together exactly when they are so at any date whatever.      *)
THEOREM OverlapIsFound ==
  ASSUME NEW l \in Timetable, NEW r \in Timetable, ScansAWeek(l, r)
  PROVE  SchedulesOverlap(l, r) <=> \E date \in Int : Together(l, r, date)
<1> DEFINE starts == l.starts \cup r.starts
           ends   == OverBefore(l) \cup OverBefore(r)
           first  == IF starts = {} THEN Epoch ELSE Max(starts)
           limit  == ScanLimit
           days   == IF ends = {} THEN limit ELSE Min({limit, Max({0, Min(ends) - first})})
<1>1. SchedulesOverlap(l, r) <=> \E offset \in 0..days - 1 : Together(l, r, first + offset)
  BY DEF SchedulesOverlap
<1>2. Week \in Nat /\ Week > 0 /\ Epoch = Week /\ limit = 2 * Week + 1
  BY ScheduleAssumption DEF Epoch, ScanLimit
<1>3. l.starts \in OptionalDates /\ r.starts \in OptionalDates
  BY DEF Timetable
<1>4. OverBefore(l) \in OptionalDates /\ OverBefore(r) \in OptionalDates
  BY OverIsOptional
<1>5. starts \subseteq Int /\ ends \subseteq Int
  BY <1>3, <1>4 DEF OptionalDates
<1>6. first \in Int /\ \A x \in starts : first >= x
  <2>1. CASE starts = {}
    BY <1>2, <2>1
  <2>2. CASE starts # {}
    <3>1. Max(starts) \in starts /\ \A x \in starts : Max(starts) >= x
      BY <1>3, <2>2, ExtremeDates
    <3>2. QED
      BY <1>5, <2>2, <3>1
  <2>3. QED
    BY <2>1, <2>2
<1>7. starts # {} => first \in starts
  BY <1>3, ExtremeDates
<1>8. ends # {} => Min(ends) \in ends /\ \A x \in ends : Min(ends) <= x
  BY <1>4, ExtremeDates
<1> HIDE DEF first
<1>9. ends # {} =>
        days = IF Min(ends) - first <= 0 THEN 0
               ELSE IF Min(ends) - first < limit THEN Min(ends) - first ELSE limit
  <2>1. ASSUME ends # {} PROVE Min(ends) - first \in Int /\ limit \in Nat
    BY <1>2, <1>5, <1>6, <1>8, <2>1
  <2>2. QED
    BY <2>1, Clamped
<1>10. days \in 0..limit
  BY <1>2, <1>5, <1>6, <1>8, <1>9
(* A date belongs to the scan when it is not past its last date.           *)
<1>11. ASSUME NEW e \in Int, e >= first, e < first + limit, \A over \in ends : e < over
       PROVE  e - first \in 0..days - 1
  <2>1. CASE ends = {}
    BY <1>2, <1>6, <1>11, <2>1
  <2>2. CASE ends # {}
    <3>1. e < Min(ends) /\ Min(ends) \in Int
      BY <1>5, <1>8, <1>11, <2>2
    <3>2. QED
      BY <1>2, <1>6, <1>9, <1>11, <2>2, <3>1
  <2>3. QED
    BY <2>1, <2>2
<1>12. ASSUME NEW e \in Int, e >= first, e < first + limit, \A over \in ends : e < over,
              Together(l, r, e)
       PROVE  SchedulesOverlap(l, r)
  <2>1. e - first \in 0..days - 1
    BY <1>11, <1>12
  <2>2. first + (e - first) = e
    BY <1>6
  <2>3. QED
    BY <1>1, <1>12, <2>1, <2>2
<1>13. ASSUME NEW date \in Int, Together(l, r, date) PROVE SchedulesOverlap(l, r)
  <2>1. PICK minute \in 0..Day - 1 : ActiveAt(l, date, minute) /\ ActiveAt(r, date, minute)
    BY <1>13 DEF Together
  <2>2. (\A x \in starts : date >= x) /\ (\A over \in ends : date < over)
    BY <2>1, ActiveBetween
  <2>3. CASE starts # {} /\ date < first + limit
    BY <1>7, <1>12, <1>13, <2>2, <2>3
  (* Later dates are like one in the week after the first.                 *)
  <2>4. CASE date >= first + Week
    <3>1. PICK e \in (first + 1)..(first + 1) + Week - 1 :
                 e % Week = date % Week /\ (e - 1) % Week = (date - 1) % Week
      <4>1. first + 1 \in Int
        BY <1>6
      <4>2. QED
        BY <4>1, SameDayInWeek
    <3>2. e \in Int /\ e - 1 >= first /\ e <= date /\ e < first + limit
      BY <1>2, <1>6, <2>4, <3>1
    <3>3. \A x \in starts : e - 1 >= x
      BY <1>5, <1>6, <3>2
    <3>4. ActiveAt(l, e, minute)
      BY <2>1, <3>1, <3>2, <3>3, ActiveAlike
    <3>5. ActiveAt(r, e, minute)
      BY <2>1, <3>1, <3>2, <3>3, ActiveAlike
    <3>6. Together(l, r, e)
      BY <3>4, <3>5 DEF Together
    <3>7. \A over \in ends : e < over
      BY <1>5, <2>2, <3>2
    <3>8. QED
      BY <1>6, <1>12, <3>2, <3>6, <3>7
  (* Earlier dates are, without a first date, like one in the week that    *)
  (* begins the scan.                                                      *)
  <2>5. CASE starts = {}
    <3>1. first = Week
      BY <1>2, <2>5 DEF first
    <3>2. CASE date >= first /\ date < first + limit
      BY <1>12, <1>13, <2>2, <3>2
    <3>3. CASE date < first
      <4>1. PICK e \in first..first + Week - 1 :
                   e % Week = date % Week /\ (e - 1) % Week = (date - 1) % Week
        BY <1>6, SameDayInWeek
      <4>2. e \in Int /\ e >= first /\ e < first + limit
        BY <1>2, <1>6, <4>1
      <4>3. l.ends \subseteq Int /\ r.ends \subseteq Int
        BY DEF Timetable, OptionalDates
      <4>4. \A end \in l.ends \cup r.ends : e < end
        <5>1. \A end \in l.ends \cup r.ends : end >= Week + Week
          BY <1>2, <2>5 DEF ScansAWeek
        <5>2. QED
          BY <1>2, <3>1, <4>1, <4>3, <5>1
      <4>5. \A over \in ends : e < over
        BY <4>2, <4>3, <4>4 DEF OverBefore
      <4>6. ActiveAt(l, e, minute)
        BY <2>1, <2>5, <4>1, <4>2, <4>4, ActiveAlike
      <4>7. ActiveAt(r, e, minute)
        BY <2>1, <2>5, <4>1, <4>2, <4>4, ActiveAlike
      <4>8. Together(l, r, e)
        BY <4>6, <4>7 DEF Together
      <4>9. QED
        BY <1>12, <4>2, <4>5, <4>8
    <3>4. QED
      BY <1>2, <1>6, <2>4, <3>2, <3>3
  <2>6. QED
    BY <1>2, <1>6, <2>3, <2>4, <2>5
<1>14. ASSUME SchedulesOverlap(l, r) PROVE \E date \in Int : Together(l, r, date)
  <2>1. PICK offset \in 0..days - 1 : Together(l, r, first + offset)
    BY <1>1, <1>14
  <2>2. first + offset \in Int
    BY <1>2, <1>6, <1>10, <2>1
  <2>3. QED
    BY <2>1, <2>2
<1>15. QED
  BY <1>13, <1>14

(* Up to a bound that no scan passes, the same in the words of the run.    *)
THEOREM OverlapExact ==
  ASSUME NEW l \in Timetable, NEW r \in Timetable, ScansAWeek(l, r), 3 * Week <= LookAhead,
         \A first \in l.starts \cup r.starts : 1 <= first /\ first + 2 * Week <= LookAhead
  PROVE  OverlapIsExact(l, r)
<1> DEFINE starts == l.starts \cup r.starts
           ends   == OverBefore(l) \cup OverBefore(r)
           first  == IF starts = {} THEN Epoch ELSE Max(starts)
           days   == IF ends = {} THEN ScanLimit ELSE Min({ScanLimit, Max({0, Min(ends) - first})})
<1>1. Week \in Nat /\ Week > 0 /\ LookAhead \in Nat /\ Epoch = Week /\ ScanLimit = 2 * Week + 1
  BY ScheduleAssumption DEF Epoch, ScanLimit
<1>2. l.starts \in OptionalDates /\ r.starts \in OptionalDates
  BY DEF Timetable
<1>3. OverBefore(l) \in OptionalDates /\ OverBefore(r) \in OptionalDates
  BY OverIsOptional
<1>4. starts \subseteq Int /\ ends \subseteq Int
  BY <1>2, <1>3 DEF OptionalDates
<1>5. first \in Int /\ 1 <= first /\ first + 2 * Week <= LookAhead
  <2>1. CASE starts = {}
    BY <1>1, <2>1
  <2>2. CASE starts # {}
    <3>1. Max(starts) \in starts
      BY <1>2, <2>2, ExtremeDates
    <3>2. QED
      BY <1>4, <2>2, <3>1
  <2>3. QED
    BY <2>1, <2>2
<1>6. days \in 0..ScanLimit
  <2>1. CASE ends = {}
    BY <1>1, <2>1
  <2>2. CASE ends # {}
    <3>1. Min(ends) \in ends
      BY <1>3, <2>2, ExtremeDates
    <3>2. Min(ends) - first \in Int /\ ScanLimit \in Nat
      <4> HIDE DEF first
      <4>1. QED
        BY <1>1, <1>4, <1>5, <3>1
    <3>3. days = Min({ScanLimit, Max({0, Min(ends) - first})})
      BY <2>2
    <3> DEFINE n == Min(ends) - first
    <3> HIDE DEF days, first
    <3>4. n \in Int /\ days = Min({ScanLimit, Max({0, n})})
      BY <3>2, <3>3
    <3> HIDE DEF n
    <3>5. days = IF n <= 0 THEN 0 ELSE IF n < ScanLimit THEN n ELSE ScanLimit
      BY <3>2, <3>4, Clamped
    <3>6. QED
      BY <3>2, <3>4, <3>5
  <2>3. QED
    BY <2>1, <2>2
<1>7. ASSUME SchedulesOverlap(l, r) PROVE \E date \in 1..LookAhead : Together(l, r, date)
  <2>1. PICK offset \in 0..days - 1 : Together(l, r, first + offset)
    BY <1>7 DEF SchedulesOverlap
  <2> HIDE DEF days, first
  <2>2. first + offset \in 1..LookAhead
    BY <1>1, <1>5, <1>6, <2>1
  <2>3. QED
    BY <2>1, <2>2
<1>8. ASSUME NEW date \in 1..LookAhead, Together(l, r, date) PROVE SchedulesOverlap(l, r)
  BY <1>8, OverlapIsFound
<1>9. QED
  BY <1>7, <1>8 DEF OverlapIsExact

-----------------------------------------------------------------------------
(* The price of a cart.                                                    *)

(* Any cart: at most one offer of each kind, of any terms, and either a    *)
(* discount of the till or the rewards of a customer.                      *)
Optional(S) == {T \in SUBSET S : \A x, y \in T : x = y}
ItemOffer ==
  [kind : {"FIXED"}, price : Nat, most : Nat]
  \cup [kind : {"QUANTITY"}, price : Nat, need : Nat \ {0}, most : Nat]
  \cup [kind : {"BOGO"}, buy : Nat \ {0}, get : Nat \ {0}, most : Nat]
ComboLine == [count : Nat, price : Nat, delta : Nat]
CartOffer == [type : {"FIXED", "PERCENTAGE"}, value : Nat, min : Nat, most : Optional(Nat)]
Coupon ==
  [type : {"FIXED", "PERCENTAGE"}, value : Nat, min : Nat, most : Optional(Nat), usable : BOOLEAN]
ManualDiscount == [mode : {"FIXED", "PERCENTAGE"}, value : Nat]
Reward ==
  [type : {"FIXED", "PRODUCT"}, value : Nat, min : Nat]
  \cup [type : {"PERCENT"}, value : Nat, min : Nat, most : Optional(Nat)]
Cart ==
  {c \in [units : Nat, deal : Optional(ItemOffer), promotion : Optional(Nat), bundle : Optional(ComboLine),
          cartOffer : Optional(CartOffer), freeDelivery : Optional(Nat), fee : Nat, minimum : Nat,
          coupon : Optional(Coupon), manual : Optional(ManualDiscount), rewards : SUBSET Reward,
          chosen : Optional(Reward)] :
     (c.deal = {} \/ c.promotion = {}) /\ (c.manual = {} \/ c.chosen = {})}

(* The sum over one element, and the sum of the prices of units that are   *)
(* counted one after the other.                                            *)
LEMMA SumOfOne ==
  ASSUME NEW x, NEW f \in [{x} -> Int]
  PROVE  SumFunctionOnSet(f, {x}) = f[x]
<1>1. IsFiniteSet({x}) /\ {x} \in SUBSET {x} /\ x \in {x} /\ {x} \ {x} = {} /\ f[x] \in Int
  BY FS_Singleton
<1>2. SumFunctionOnSet(f, {x}) = f[x] + SumFunctionOnSet(f, {x} \ {x})
  BY <1>1, SumWithout
<1>3. SumFunctionOnSet(f, {}) = 0
  BY SumOfNone
<1>4. QED
  BY <1>1, <1>2, <1>3

(* A sum over the first numbers is what a running total comes to.          *)
LEMMA SumOfUnits ==
  ASSUME NEW n \in Nat, NEW f \in [1..n -> Int], NEW g \in [0..n -> Int], g[0] = 0,
         \A u \in 0..n - 1 : g[u + 1] = g[u] + f[u + 1]
  PROVE  SumFunctionOnSet(f, 1..n) = g[n]
<1> DEFINE at == [i \in 1..n + 1 |-> g[i - 1]]
           step == [i \in 1..(n + 1) - 1 |-> at[i + 1] - at[i]]
<1>1. at \in [1..n + 1 -> Int] /\ at[n + 1] = g[n] /\ at[1] = 0 /\ n + 1 \in Nat \ {0}
  OBVIOUS
<1>2. SumFunctionOnSet(step, 1..(n + 1) - 1) = at[n + 1] - at[1]
  <2> HIDE DEF at
  <2>1. QED
    BY <1>1, SumOfSteps
<1>3. 1..(n + 1) - 1 = 1..n
  OBVIOUS
<1>4. \A i \in 1..n : at[i + 1] - at[i] = f[i]
  <2>1. ASSUME NEW i \in 1..n PROVE at[i + 1] - at[i] = f[i]
    <3>1. at[i + 1] = g[i] /\ at[i] = g[i - 1]
      OBVIOUS
    <3>2. i - 1 \in 0..n - 1 /\ (i - 1) + 1 = i
      OBVIOUS
    <3>3. g[i] = g[i - 1] + f[i]
      BY <3>2
    <3>4. g[i - 1] \in Int /\ f[i] \in Int
      BY <3>2
    <3>5. QED
      BY <3>1, <3>3, <3>4
  <2>2. QED
    BY <2>1
<1>5. step = f
  <2> HIDE DEF at
  <2>1. QED
    BY <1>3, <1>4
<1>6. g[n] \in Int
  OBVIOUS
<1> HIDE DEF at, step
<1>7. QED
  BY <1>1, <1>2, <1>3, <1>5, <1>6

(* The least and the greatest of two numbers.                              *)
LEMMA OfTwo ==
  ASSUME NEW a \in Int, NEW b \in Int
  PROVE  /\ Min({a, b}) = IF a <= b THEN a ELSE b
         /\ Max({a, b}) = IF a >= b THEN a ELSE b
<1>1. Min({a, b}) = IF a <= b THEN a ELSE b
  BY DEF Min
<1>2. Max({a, b}) = IF a >= b THEN a ELSE b
  BY DEF Max
<1>3. QED
  BY <1>1, <1>2

(* What the assumption says of the constants of prices, each by itself.    *)
LEMMA PriceConstants ==
  MaxCents \in Nat /\ Whole \in Nat /\ Whole > 0 /\ Base \in Nat /\ Extra \in Nat /\ BundleBase \in Nat
  BY PricingAssumption

(* Units by groups of a size: the next unit is the next of its group, or   *)
(* the first of the next group.                                            *)
LEMMA NextUnit ==
  ASSUME NEW g \in Nat, g > 0, NEW u \in Nat
  PROVE  /\ u \div g \in Nat /\ u % g \in 0..g - 1
         /\ (u % g) + 1 < g => (u + 1) \div g = u \div g /\ (u + 1) % g = (u % g) + 1
         /\ (u % g) + 1 = g => (u + 1) \div g = u \div g + 1 /\ (u + 1) % g = 0
<1> DEFINE k == u \div g
           p == u % g
           l == (u + 1) \div g
           q == (u + 1) % g
<1>1. k \in Int /\ p \in 0..g - 1 /\ u = g * k + p
  BY QuotientRemainder
<1>2. l \in Int /\ q \in 0..g - 1 /\ u + 1 = g * l + q
  BY QuotientRemainder
<1> HIDE DEF k, p, l, q
<1>3. k >= 0
  <2>1. k <= -1 => g * k <= -g
    BY <1>1
  <2>2. QED
    BY <1>1, <2>1
<1>4. g * k \in Int /\ g * l \in Int
  BY <1>1, <1>2
<1>5. CASE p + 1 < g
  <2>1. g * (l - k) = (p + 1) - q
    <3>1. g * (l - k) = g * l - g * k
      BY <1>1, <1>2
    <3>2. QED
      BY <1>1, <1>2, <1>4, <3>1
  <2>2. p + 1 = q
    <3>1. l - k \in Int /\ p + 1 \in 0..g - 1
      BY <1>1, <1>2, <1>5
    <3>2. QED
      BY <1>2, <2>1, <3>1, OneRemainder
  <2>3. l = k
    <3>1. g * (l - k) = 0
      BY <1>1, <1>2, <2>1, <2>2
    <3>2. l - k >= 1 => g * (l - k) >= g
      BY <1>1, <1>2
    <3>3. l - k <= -1 => g * (l - k) <= -g
      BY <1>1, <1>2
    <3>4. QED
      BY <1>1, <1>2, <3>1, <3>2, <3>3
  <2>4. QED
    BY <1>1, <1>3, <1>5, <2>2, <2>3 DEF k, p, l, q
<1>6. CASE p + 1 = g
  <2>1. g * (l - (k + 1)) = 0 - q
    <3>1. g * (l - (k + 1)) = g * l - g * k - g
      BY <1>1, <1>2
    <3>2. QED
      BY <1>1, <1>2, <1>4, <1>6, <3>1
  <2>2. q = 0
    <3>1. l - (k + 1) \in Int /\ 0 \in 0..g - 1
      BY <1>1, <1>2
    <3>2. QED
      BY <1>2, <2>1, <3>1, OneRemainder
  <2>3. l = k + 1
    <3>1. g * (l - (k + 1)) = 0
      BY <2>1, <2>2
    <3>2. l - (k + 1) >= 1 => g * (l - (k + 1)) >= g
      BY <1>1, <1>2
    <3>3. l - (k + 1) <= -1 => g * (l - (k + 1)) <= -g
      BY <1>1, <1>2
    <3>4. QED
      BY <1>1, <1>2, <3>1, <3>2, <3>3
  <2>4. QED
    BY <1>1, <1>3, <1>6, <2>2, <2>3 DEF k, p, l, q
<1>7. QED
  BY <1>1, <1>3, <1>5, <1>6 DEF k, p, l, q

(* So many whole groups fit.                                               *)
LEMMA GroupsFit ==
  ASSUME NEW g \in Nat, g > 0, NEW n \in Nat, NEW j \in Nat
  PROVE  j * g <= n <=> j <= n \div g
<1> DEFINE k == n \div g
           p == n % g
<1>1. k \in Int /\ p \in 0..g - 1 /\ n = g * k + p
  BY QuotientRemainder
<1> HIDE DEF k, p
<1>2. j <= k => j * g <= g * k
  BY <1>1
<1>3. j >= k + 1 => j * g >= g * k + g
  <2>1. ASSUME j >= k + 1 PROVE j * g >= g * k + g
    <3>1. j * g = g * k + g + g * (j - (k + 1))
      BY <1>1
    <3>2. g * (j - (k + 1)) >= 0
      BY <1>1, <2>1
    <3>3. j * g \in Int /\ g * k \in Int /\ g * (j - (k + 1)) \in Int
      BY <1>1
    <3>4. QED
      BY <3>1, <3>2, <3>3
  <2>2. QED
    BY <2>1
<1>4. j * g \in Int /\ g * k \in Int
  BY <1>1
<1>5. QED
  BY <1>1, <1>2, <1>3, <1>4 DEF k

(* What one application saves, what the first units of a group have saved  *)
(* of it, and what a unit of an offered group costs by its place.          *)
Gain(d) == Max({0, GainOf(d)})
Begun(d, p) ==
  CASE d.kind = "FIXED" -> 0
    [] d.kind = "QUANTITY" -> IF p = 0 \/ Base * d.need <= d.price THEN 0 ELSE Base * p - d.price
    [] d.kind = "BOGO" -> IF p > d.buy THEN Base * (p - d.buy) ELSE 0
ChargeAt(d, place) ==
  CASE d.kind = "FIXED" -> Min({Base, d.price})
    [] d.kind = "QUANTITY" -> IF Base * d.need <= d.price THEN Base ELSE IF place = 1 THEN d.price ELSE 0
    [] d.kind = "BOGO" -> IF place > d.buy THEN 0 ELSE Base

(* An offer of a product, by its kind.                                     *)
LEMMA OfferTypes ==
  ASSUME NEW d \in ItemOffer
  PROVE  /\ d.kind \in {"FIXED", "QUANTITY", "BOGO"} /\ d.most \in Nat
         /\ d.kind = "FIXED" => d.price \in Nat
         /\ d.kind = "QUANTITY" => d.price \in Nat /\ d.need \in Nat /\ d.need > 0
         /\ d.kind = "BOGO" => d.buy \in Nat /\ d.buy > 0 /\ d.get \in Nat /\ d.get > 0
         /\ GroupSize(d) \in Nat /\ GroupSize(d) > 0
<1>1. CASE d.kind = "FIXED"
  BY <1>1 DEF ItemOffer, GroupSize
<1>2. CASE d.kind = "QUANTITY"
  BY <1>2 DEF ItemOffer, GroupSize
<1>3. CASE d.kind = "BOGO"
  BY <1>3 DEF ItemOffer, GroupSize
<1>4. QED
  BY <1>1, <1>2, <1>3 DEF ItemOffer

(* What one application of an offer saves is a number, and no less than    *)
(* zero.                                                                   *)
LEMMA GainTypes ==
  ASSUME NEW d \in ItemOffer
  PROVE  /\ GainOf(d) \in Int /\ Gain(d) \in Nat
         /\ Gain(d) = IF GainOf(d) <= 0 THEN 0 ELSE GainOf(d)
<1>1. Base \in Nat
  BY PriceConstants
<1>2. GainOf(d) \in Int
  <2>1. CASE d.kind = "FIXED"
    BY <1>1, <2>1, OfferTypes DEF GainOf
  <2>2. CASE d.kind = "QUANTITY"
    <3>1. Base * d.need \in Int
      BY <1>1, <2>2, OfferTypes
    <3>2. QED
      BY <2>2, <3>1, OfferTypes DEF GainOf
  <2>3. CASE d.kind = "BOGO"
    <3>1. Base * d.get \in Int
      BY <1>1, <2>3, OfferTypes
    <3>2. QED
      BY <2>3, <3>1 DEF GainOf
  <2>4. QED
    BY <2>1, <2>2, <2>3, OfferTypes
<1>3. Max({0, GainOf(d)}) = IF 0 >= GainOf(d) THEN 0 ELSE GainOf(d)
  <2> DEFINE m == GainOf(d)
  <2>1. m \in Int
    BY <1>2
  <2> HIDE DEF m
  <2>2. Max({0, m}) = IF 0 >= m THEN 0 ELSE m
    BY <2>1 DEF Max
  <2>3. QED
    BY <2>2 DEF m
<1>4. QED
  BY <1>2, <1>3 DEF Gain

(* An offer applies as often as its limit and the whole groups among the   *)
(* units allow.                                                            *)
LEMMA ApplicationsAre ==
  ASSUME NEW d \in ItemOffer, NEW n \in Nat
  PROVE  /\ Applications(d, n) \in Nat /\ Applications(d, n) <= n \div GroupSize(d)
         /\ \A j \in Nat : j <= Applications(d, n) <=> j <= d.most /\ j * GroupSize(d) <= n
<1> DEFINE g == GroupSize(d)
           k == n \div g
<1>1. g \in Nat /\ g > 0 /\ d.most \in Nat
  BY OfferTypes
<1> HIDE DEF g
<1>2. k \in Nat
  BY <1>1, NextUnit
<1>3. \A j \in Nat : j * g <= n <=> j <= k
  BY <1>1, GroupsFit
<1> HIDE DEF k
<1>4. Min({k, d.most}) = IF k <= d.most THEN k ELSE d.most
  BY <1>1, <1>2, OfTwo
<1>5. Applications(d, n) = Min({k, d.most})
  BY DEF Applications, g, k
<1>6. Applications(d, n) \in Nat /\ Applications(d, n) <= k
  BY <1>1, <1>2, <1>4, <1>5
<1>7. \A j \in Nat : j <= Applications(d, n) <=> j <= d.most /\ j * g <= n
  BY <1>1, <1>2, <1>3, <1>4, <1>5
<1>8. QED
  BY <1>6, <1>7 DEF g, k

(* The price of a unit, by its group and its place in it.                  *)
LEMMA UnitChargeIs ==
  ASSUME NEW d \in ItemOffer, NEW n \in Nat, NEW u \in 0..n - 1
  PROVE  UnitCharge(d, n, u + 1) =
           IF u \div GroupSize(d) < Applications(d, n) THEN ChargeAt(d, (u % GroupSize(d)) + 1) ELSE Base
<1> DEFINE g == GroupSize(d)
           k == u \div g
           p == u % g
           offered == k + 1 <= d.most /\ (k + 1) * g <= n
<1>1. g \in Nat /\ g > 0 /\ u \in Nat /\ (u + 1) - 1 = u
  BY OfferTypes
<1>2. k \in Nat /\ p \in 0..g - 1
  <2> HIDE DEF g
  <2>1. QED
    BY <1>1, NextUnit
<1>3. UnitCharge(d, n, u + 1) =
        CASE ~offered -> Base
          [] offered /\ d.kind = "FIXED" -> Min({Base, d.price})
          [] offered /\ d.kind = "QUANTITY" /\ Base * d.need <= d.price -> Base
          [] offered /\ d.kind = "QUANTITY" /\ Base * d.need > d.price -> IF p + 1 = 1 THEN d.price ELSE 0
          [] offered /\ d.kind = "BOGO" -> IF p + 1 > d.buy THEN 0 ELSE Base
  BY <1>1 DEF UnitCharge
<1>4. offered <=> k < Applications(d, n)
  <2>1. k + 1 \in Nat
    BY <1>2
  <2>2. k + 1 <= Applications(d, n) <=> k + 1 <= d.most /\ (k + 1) * GroupSize(d) <= n
    BY <2>1, ApplicationsAre
  <2>3. Applications(d, n) \in Nat
    BY ApplicationsAre
  <2>4. k + 1 <= Applications(d, n) <=> k < Applications(d, n)
    <3> HIDE DEF k
    <3>1. QED
      BY <1>2, <2>3
  <2>5. QED
    BY <2>2, <2>4
<1> HIDE DEF p, k, g
<1>5. ASSUME ~offered PROVE UnitCharge(d, n, u + 1) = Base
  BY <1>3, <1>5
<1>6. ASSUME offered, d.kind = "FIXED" PROVE UnitCharge(d, n, u + 1) = ChargeAt(d, p + 1)
  BY <1>3, <1>6 DEF ChargeAt
<1>7. ASSUME offered, d.kind = "QUANTITY" PROVE UnitCharge(d, n, u + 1) = ChargeAt(d, p + 1)
  <2>1. Base * d.need \in Int /\ d.price \in Int
    BY <1>7, PriceConstants, OfferTypes
  <2>2. CASE Base * d.need <= d.price
    BY <1>3, <1>7, <2>1, <2>2 DEF ChargeAt
  <2>3. CASE Base * d.need > d.price
    BY <1>3, <1>7, <2>1, <2>3 DEF ChargeAt
  <2>4. QED
    BY <2>1, <2>2, <2>3
<1>8. ASSUME offered, d.kind = "BOGO" PROVE UnitCharge(d, n, u + 1) = ChargeAt(d, p + 1)
  BY <1>3, <1>8 DEF ChargeAt
<1>9. UnitCharge(d, n, u + 1) = IF offered THEN ChargeAt(d, p + 1) ELSE Base
  BY <1>5, <1>6, <1>7, <1>8, OfferTypes
<1>10. QED
  BY <1>4, <1>9 DEF p, k, g

(* Through a group the units save, one after the other, what one           *)
(* application of the offer saves.                                         *)
LEMMA GroupSaves ==
  ASSUME NEW d \in ItemOffer
  PROVE  /\ Begun(d, 0) = 0 /\ \A p \in 0..GroupSize(d) - 1 : Begun(d, p) \in Int
         /\ \A place \in 1..GroupSize(d) : ChargeAt(d, place) \in Int
         /\ \A p \in 0..GroupSize(d) - 2 : ChargeAt(d, p + 1) = Base - Begun(d, p + 1) + Begun(d, p)
         /\ ChargeAt(d, GroupSize(d)) = Base - Gain(d) + Begun(d, GroupSize(d) - 1)
<1> DEFINE g == GroupSize(d)
<1>1. Base \in Nat /\ d.most \in Nat
  BY PriceConstants, OfferTypes
<1>2. CASE d.kind = "FIXED"
  <2>1. d.price \in Nat /\ g = 1 /\ GainOf(d) = Base - d.price
    BY <1>2, OfferTypes DEF GroupSize, GainOf
  <2>2. \A p \in Int : Begun(d, p) = 0
    BY <1>2 DEF Begun
  <2>3. \A p \in Int : ChargeAt(d, p) = IF Base <= d.price THEN Base ELSE d.price
    BY <1>1, <1>2, <2>1, OfTwo DEF ChargeAt
  <2>4. Gain(d) = IF Base - d.price <= 0 THEN 0 ELSE Base - d.price
    BY <2>1, GainTypes
  <2> HIDE DEF g
  <2>5. ChargeAt(d, g) = Base - Gain(d) + Begun(d, g - 1)
    BY <1>1, <2>1, <2>2, <2>3, <2>4
  <2>6. QED
    BY <1>1, <2>1, <2>2, <2>3, <2>5 DEF g
<1>3. CASE d.kind = "QUANTITY"
  <2>1. d.price \in Nat /\ d.need \in Nat /\ d.need > 0 /\ g = d.need /\ GainOf(d) = Base * d.need - d.price
    BY <1>3, OfferTypes DEF GroupSize, GainOf
  <2>2. Base * d.need \in Int
    BY <1>1, <2>1
  <2>3. CASE Base * d.need <= d.price
    <3>1. \A p \in Int : Begun(d, p) = 0 /\ ChargeAt(d, p) = Base
      BY <1>3, <2>3 DEF Begun, ChargeAt
    <3>2. Gain(d) = 0
      BY <2>1, <2>2, <2>3, GainTypes
    <3> HIDE DEF g
    <3>3. QED
      BY <1>1, <2>1, <3>1, <3>2 DEF g
  <2>4. CASE ~(Base * d.need <= d.price)
    <3>1. \A p \in Int : Begun(d, p) = IF p = 0 THEN 0 ELSE Base * p - d.price
      BY <1>3, <2>4 DEF Begun
    <3>2. \A p \in Int : ChargeAt(d, p) = IF p = 1 THEN d.price ELSE 0
      BY <1>3, <2>4 DEF ChargeAt
    <3>3. Gain(d) = Base * d.need - d.price
      BY <2>1, <2>2, <2>4, GainTypes
    <3>4. \A p \in Int : Base * p \in Int /\ Base * (p + 1) = Base * p + Base
      BY <1>1
    <3> HIDE DEF g
    <3>5. ASSUME NEW p \in 0..g - 2 PROVE ChargeAt(d, p + 1) = Base - Begun(d, p + 1) + Begun(d, p)
      <4>1. p \in Int /\ p + 1 \in Int /\ p + 1 # 0
        BY <2>1
      <4>2. Begun(d, p + 1) = Base * p + Base - d.price /\ Base * p \in Int
        <5>1. Base * (p + 1) = Base * p + Base /\ Base * p \in Int
          BY <3>4, <4>1
        <5>2. Begun(d, p + 1) = Base * (p + 1) - d.price
          BY <3>1, <4>1
        <5>3. QED
          BY <1>1, <2>1, <5>1, <5>2
      <4>3. CASE p = 0
        <5>1. Base * p = 0 /\ Begun(d, p) = 0 /\ ChargeAt(d, p + 1) = d.price
          BY <1>1, <3>1, <3>2, <4>1, <4>3
        <5>2. QED
          BY <1>1, <2>1, <4>2, <5>1
      <4>4. CASE p # 0
        <5>1. Begun(d, p) = Base * p - d.price /\ ChargeAt(d, p + 1) = 0
          BY <3>1, <3>2, <4>1, <4>4
        <5>2. QED
          BY <1>1, <2>1, <4>2, <5>1
      <4>5. QED
        BY <4>3, <4>4
    <3>6. ChargeAt(d, g) = Base - Gain(d) + Begun(d, g - 1)
      <4>1. g \in Int /\ g - 1 \in Int /\ (g - 1) + 1 = g
        BY <2>1
      <4>2. Base * g = Base * (g - 1) + Base /\ Base * (g - 1) \in Int
        BY <3>4, <4>1
      <4>3. Gain(d) = Base * (g - 1) + Base - d.price
        <5>1. Base * d.need = Base * g
          BY <2>1
        <5>2. QED
          BY <1>1, <2>1, <3>3, <4>2, <5>1
      <4>4. CASE g = 1
        <5>1. Base * (g - 1) = 0 /\ Begun(d, g - 1) = 0 /\ ChargeAt(d, g) = d.price
          BY <1>1, <3>1, <3>2, <4>1, <4>4
        <5>2. QED
          BY <1>1, <2>1, <4>3, <5>1
      <4>5. CASE g # 1
        <5>1. Begun(d, g - 1) = Base * (g - 1) - d.price /\ ChargeAt(d, g) = 0
          BY <3>1, <3>2, <4>1, <4>5
        <5>2. QED
          BY <1>1, <2>1, <4>2, <4>3, <5>1
      <4>6. QED
        BY <4>4, <4>5
    <3>7. /\ Begun(d, 0) = 0 /\ \A p \in 0..g - 1 : Begun(d, p) \in Int
          /\ \A place \in 1..g : ChargeAt(d, place) \in Int
      BY <1>1, <2>1, <3>1, <3>2, <3>4
    <3>8. QED
      BY <3>5, <3>6, <3>7 DEF g
  <2>5. QED
    BY <2>3, <2>4
<1>4. CASE d.kind = "BOGO"
  <2>1. d.buy \in Nat /\ d.buy > 0 /\ d.get \in Nat /\ d.get > 0 /\ g = d.buy + d.get /\ GainOf(d) = Base * d.get
    BY <1>4, OfferTypes DEF GroupSize, GainOf
  <2>2. \A p \in Int : Base * p \in Int /\ Base * (p + 1) = Base * p + Base
    BY <1>1
  <2>3. Base * d.get \in Nat
    BY <1>1, <2>1
  <2>4. Gain(d) = Base * d.get
    BY <2>1, <2>3, GainTypes
  <2>5. \A p \in Int : Begun(d, p) = IF p > d.buy THEN Base * (p - d.buy) ELSE 0
    BY <1>4 DEF Begun
  <2>6. \A p \in Int : ChargeAt(d, p) = IF p > d.buy THEN 0 ELSE Base
    BY <1>4 DEF ChargeAt
  <2> HIDE DEF g
  <2>7. ASSUME NEW p \in 0..g - 2 PROVE ChargeAt(d, p + 1) = Base - Begun(d, p + 1) + Begun(d, p)
    <3>1. p \in Int /\ p + 1 \in Int /\ p - d.buy \in Int /\ (p + 1) - d.buy = (p - d.buy) + 1
      BY <2>1
    <3>2. Base * ((p + 1) - d.buy) = Base * (p - d.buy) + Base /\ Base * (p - d.buy) \in Int
      BY <2>2, <3>1
    <3>3. CASE p + 1 <= d.buy
      BY <1>1, <2>1, <2>5, <2>6, <3>1, <3>3
    <3>4. CASE p + 1 > d.buy
      <4>1. ChargeAt(d, p + 1) = 0 /\ Begun(d, p + 1) = Base * (p - d.buy) + Base
        BY <2>5, <2>6, <3>1, <3>2, <3>4
      <4>2. Begun(d, p) = Base * (p - d.buy)
        <5>1. CASE p > d.buy
          BY <2>5, <3>1, <5>1
        <5>2. CASE p = d.buy
          <6>1. p - d.buy = 0 /\ Base * 0 = 0
            BY <1>1, <2>1, <5>2
          <6>2. QED
            BY <2>1, <2>5, <3>1, <5>2, <6>1
        <5>3. QED
          BY <2>1, <3>1, <3>4, <5>1, <5>2
      <4>3. QED
        BY <1>1, <3>2, <4>1, <4>2
    <3>5. QED
      BY <2>1, <3>1, <3>3, <3>4
  <2>8. ChargeAt(d, g) = Base - Gain(d) + Begun(d, g - 1)
    <3>1. g \in Int /\ g > d.buy /\ g - 1 \in Int /\ (g - 1) - d.buy = d.get - 1 /\ d.get - 1 \in Int
      BY <2>1
    <3>2. ChargeAt(d, g) = 0
      BY <2>6, <3>1
    <3>3. Base * d.get = Base * (d.get - 1) + Base /\ Base * (d.get - 1) \in Int
      <4>1. (d.get - 1) + 1 = d.get
        BY <2>1
      <4>2. QED
        BY <2>2, <3>1, <4>1
    <3>4. Begun(d, g - 1) = Base * (d.get - 1)
      <4>1. CASE g - 1 > d.buy
        BY <2>5, <3>1, <4>1
      <4>2. CASE g - 1 = d.buy
        <5>1. d.get - 1 = 0 /\ Base * 0 = 0
          BY <1>1, <2>1, <3>1, <4>2
        <5>2. QED
          BY <2>1, <2>5, <3>1, <4>2, <5>1
      <4>3. QED
        BY <2>1, <3>1, <4>1, <4>2
    <3>5. QED
      BY <1>1, <2>4, <3>2, <3>3, <3>4
  <2>9. /\ Begun(d, 0) = 0 /\ \A p \in 0..g - 1 : Begun(d, p) \in Int
        /\ \A place \in 1..g : ChargeAt(d, place) \in Int
    <3>1. \A p \in 0..g - 1 : p \in Int /\ p - d.buy \in Int
      BY <2>1
    <3>2. \A p \in 0..g - 1 : Base * (p - d.buy) \in Int
      BY <2>2, <3>1
    <3>3. QED
      BY <1>1, <2>1, <2>5, <2>6, <3>1, <3>2
  <2>10. QED
    BY <2>7, <2>8, <2>9 DEF g
<1>5. QED
  BY <1>2, <1>3, <1>4, OfferTypes

(* What the first u of n units cost under an offer.                        *)
SavedSoFar(d, n, u) ==
  IF u \div GroupSize(d) >= Applications(d, n) THEN Gain(d) * Applications(d, n)
  ELSE Gain(d) * (u \div GroupSize(d)) + Begun(d, u % GroupSize(d))

(* The next unit saves the difference between the base price and its own.  *)
LEMMA NextUnitSaves ==
  ASSUME NEW d \in ItemOffer, NEW n \in Nat, NEW u \in 0..n - 1
  PROVE  /\ UnitCharge(d, n, u + 1) \in Int
         /\ SavedSoFar(d, n, u + 1) = SavedSoFar(d, n, u) + Base - UnitCharge(d, n, u + 1)
<1> DEFINE g == GroupSize(d)
           A == Applications(d, n)
           G == Gain(d)
           k == u \div g
           p == u % g
           charge == UnitCharge(d, n, u + 1)
<1>1. g \in Nat /\ g > 0 /\ u \in Nat /\ A \in Nat /\ G \in Nat /\ Base \in Nat
  BY OfferTypes, ApplicationsAre, GainTypes, PriceConstants
<1>2. charge = IF k < A THEN ChargeAt(d, p + 1) ELSE Base
  BY UnitChargeIs
<1>3. /\ Begun(d, 0) = 0 /\ \A q \in 0..g - 1 : Begun(d, q) \in Int
      /\ \A place \in 1..g : ChargeAt(d, place) \in Int
      /\ \A q \in 0..g - 2 : ChargeAt(d, q + 1) = Base - Begun(d, q + 1) + Begun(d, q)
      /\ ChargeAt(d, g) = Base - G + Begun(d, g - 1)
  BY GroupSaves
<1>4. SavedSoFar(d, n, u) = IF k >= A THEN G * A ELSE G * k + Begun(d, p)
  BY DEF SavedSoFar
<1>5. SavedSoFar(d, n, u + 1) = IF (u + 1) \div g >= A THEN G * A
                             ELSE G * ((u + 1) \div g) + Begun(d, (u + 1) % g)
  BY DEF SavedSoFar
<1> HIDE DEF g, A, G
<1>6. /\ k \in Nat /\ p \in 0..g - 1
      /\ p + 1 < g => (u + 1) \div g = k /\ (u + 1) % g = p + 1
      /\ p + 1 = g => (u + 1) \div g = k + 1 /\ (u + 1) % g = 0
  BY <1>1, NextUnit
<1> HIDE DEF k, p, charge
<1>7. charge \in Int
  <2>1. p + 1 \in 1..g
    BY <1>1, <1>6
  <2>2. QED
    BY <1>1, <1>2, <1>3, <2>1
<1>8. G * A \in Int /\ G * k \in Int /\ G * (k + 1) = G * k + G
  BY <1>1, <1>6
<1>9. p + 1 < g \/ p + 1 = g
  BY <1>1, <1>6
<1>10. CASE k >= A
  <2>1. (u + 1) \div g >= A
    BY <1>1, <1>6, <1>9, <1>10
  <2>2. SavedSoFar(d, n, u) = G * A /\ SavedSoFar(d, n, u + 1) = G * A /\ charge = Base
    BY <1>1, <1>2, <1>4, <1>5, <1>6, <1>10, <2>1
  <2>3. QED
    BY <1>1, <1>7, <1>8, <2>2 DEF charge
<1>11. CASE k < A /\ p + 1 < g
  <2>1. charge = Base - Begun(d, p + 1) + Begun(d, p) /\ Begun(d, p) \in Int /\ Begun(d, p + 1) \in Int
    <3>1. p \in 0..g - 2 /\ p + 1 \in 0..g - 1
      BY <1>1, <1>6, <1>11
    <3>2. QED
      BY <1>2, <1>3, <1>6, <1>11, <3>1
  <2>2. SavedSoFar(d, n, u) = G * k + Begun(d, p) /\ SavedSoFar(d, n, u + 1) = G * k + Begun(d, p + 1)
    BY <1>1, <1>4, <1>5, <1>6, <1>11
  <2>3. QED
    BY <1>1, <1>7, <1>8, <2>1, <2>2 DEF charge
<1>12. CASE k < A /\ p + 1 = g
  <2>1. charge = Base - G + Begun(d, p) /\ Begun(d, p) \in Int
    <3>1. p = g - 1
      BY <1>1, <1>6, <1>12
    <3>2. QED
      BY <1>2, <1>3, <1>6, <1>12, <3>1
  <2>2. SavedSoFar(d, n, u) = G * k + Begun(d, p)
    BY <1>1, <1>4, <1>6, <1>12
  <2>3. SavedSoFar(d, n, u + 1) = G * k + G
    <3>1. CASE k + 1 = A
      BY <1>1, <1>5, <1>6, <1>8, <1>12, <3>1
    <3>2. CASE k + 1 < A
      <4>1. SavedSoFar(d, n, u + 1) = G * (k + 1) + 0
        BY <1>1, <1>3, <1>5, <1>6, <1>12, <3>2
      <4>2. QED
        BY <1>1, <1>8, <4>1
    <3>3. QED
      BY <1>1, <1>6, <1>12, <3>1, <3>2
  <2>4. QED
    BY <1>1, <1>7, <1>8, <2>1, <2>2, <2>3 DEF charge
<1>13. QED
  BY <1>1, <1>6, <1>9, <1>10, <1>11, <1>12

(* Counted unit by unit an offer saves what its applications save.         *)
LEMMA UnitsCost ==
  ASSUME NEW d \in ItemOffer, NEW n \in Nat
  PROVE  SumFunctionOnSet([u \in 1..n |-> UnitCharge(d, n, u)], 1..n) = Base * n - Gain(d) * Applications(d, n)
<1> DEFINE f == [u \in 1..n |-> UnitCharge(d, n, u)]
           cost(u) == Base * u - SavedSoFar(d, n, u)
           g == [u \in 0..n |-> cost(u)]
           A == Applications(d, n)
           G == Gain(d)
<1>1. Base \in Nat /\ A \in Nat /\ G \in Nat /\ G * A \in Int
  BY PriceConstants, ApplicationsAre, GainTypes
<1>2. \A u \in 0..n - 1 : UnitCharge(d, n, u + 1) \in Int
  BY NextUnitSaves
<1>3. f \in [1..n -> Int]
  <2>1. ASSUME NEW u \in 1..n PROVE UnitCharge(d, n, u) \in Int
    <3>1. u - 1 \in 0..n - 1 /\ (u - 1) + 1 = u
      OBVIOUS
    <3>2. UnitCharge(d, n, (u - 1) + 1) \in Int
      BY <1>2, <3>1
    <3>3. QED
      BY <3>1, <3>2
  <2>2. QED
    BY <2>1
<1>4. \A u \in 0..n : SavedSoFar(d, n, u) \in Int
  <2>1. ASSUME NEW u \in 0..n PROVE SavedSoFar(d, n, u) \in Int
    <3> DEFINE k == u \div GroupSize(d)
               p == u % GroupSize(d)
    <3>1. k \in Nat /\ p \in 0..GroupSize(d) - 1
      BY OfferTypes, NextUnit
    <3>2. Begun(d, p) \in Int
      BY <3>1, GroupSaves
    <3>3. SavedSoFar(d, n, u) = IF k >= A THEN G * A ELSE G * k + Begun(d, p)
      BY DEF SavedSoFar
    <3> HIDE DEF k, p, A, G
    <3>4. G * k \in Int
      BY <1>1, <3>1
    <3>5. QED
      BY <1>1, <3>2, <3>3, <3>4
  <2>2. QED
    BY <2>1
<1>5. \A u \in 0..n : Base * u \in Int
  BY <1>1
<1>6. g \in [0..n -> Int]
  BY <1>4, <1>5
<1>7. ASSUME NEW u \in 0..n - 1 PROVE g[u + 1] = g[u] + f[u + 1]
  <2>1. u \in 0..n /\ u + 1 \in 0..n /\ u + 1 \in 1..n
    OBVIOUS
  <2>2. g[u + 1] = Base * (u + 1) - SavedSoFar(d, n, u + 1) /\ g[u] = Base * u - SavedSoFar(d, n, u)
    BY <2>1
  <2>3. f[u + 1] = UnitCharge(d, n, u + 1)
    BY <2>1
  <2>4. SavedSoFar(d, n, u + 1) = SavedSoFar(d, n, u) + Base - UnitCharge(d, n, u + 1)
    BY NextUnitSaves
  <2>5. Base * (u + 1) = Base * u + Base
    BY <1>1
  <2>6. UnitCharge(d, n, u + 1) \in Int /\ SavedSoFar(d, n, u) \in Int /\ Base * u \in Int
    BY <1>2, <1>4, <1>5, <2>1
  <2> HIDE DEF f, g
  <2>7. QED
    BY <1>1, <2>2, <2>3, <2>4, <2>5, <2>6
<1>8. g[0] = 0
  <2>1. 0 \div GroupSize(d) = 0 /\ 0 % GroupSize(d) = 0
    <3> DEFINE s == GroupSize(d)
               k == 0 \div s
               p == 0 % s
    <3>1. s \in Nat /\ s > 0
      BY OfferTypes
    <3> HIDE DEF s
    <3>2. k \in Nat /\ p \in 0..s - 1
      BY <3>1, NextUnit
    <3>3. 0 = s * k + p
      BY <3>1, QuotientRemainder
    <3> HIDE DEF k, p
    <3>4. k >= 1 => s * k >= s
      BY <3>1, <3>2
    <3>5. s * k \in Int
      BY <3>1, <3>2
    <3>6. k = 0
      BY <3>1, <3>2, <3>3, <3>4, <3>5
    <3>7. s * k = 0
      BY <3>1, <3>6
    <3>8. p = 0
      BY <3>1, <3>2, <3>3, <3>7
    <3>9. QED
      BY <3>6, <3>8 DEF k, p, s
  <2>2. SavedSoFar(d, n, 0) = IF 0 >= A THEN G * A ELSE G * 0 + Begun(d, 0)
    BY <2>1 DEF SavedSoFar
  <2>3. Begun(d, 0) = 0
    BY GroupSaves
  <2>4. SavedSoFar(d, n, 0) = 0
    <3> HIDE DEF A, G
    <3>1. G * 0 = 0 /\ (A = 0 => G * A = 0)
      BY <1>1
    <3>2. QED
      BY <1>1, <2>2, <2>3, <3>1
  <2>5. Base * 0 = 0
    BY <1>1
  <2>6. g[0] = Base * 0 - SavedSoFar(d, n, 0)
    OBVIOUS
  <2>7. QED
    BY <2>4, <2>5, <2>6
<1>9. SumFunctionOnSet(f, 1..n) = g[n]
  <2> HIDE DEF f, g
  <2>1. QED
    BY <1>3, <1>6, <1>7, <1>8, SumOfUnits
<1>10. SavedSoFar(d, n, n) = G * A
  <2>1. A <= n \div GroupSize(d)
    BY ApplicationsAre
  <2>2. n \div GroupSize(d) \in Nat
    BY OfferTypes, NextUnit
  <2>3. n \div GroupSize(d) >= A
    BY <1>1, <2>1, <2>2
  <2>4. QED
    BY <2>3 DEF SavedSoFar
<1>11. QED
  BY <1>9, <1>10

(* A set of at most one element is empty, or has one.                      *)
LEMMA OptionalIs ==
  ASSUME NEW S, NEW T \in Optional(S)
  PROVE  T = {} \/ \E x \in S : T = {x}
<1>1. T \in SUBSET S /\ \A x, y \in T : x = y
  BY DEF Optional
<1>2. ASSUME T # {} PROVE \E x \in S : T = {x}
  <2>1. PICK x \in T : TRUE
    BY <1>2
  <2>2. T = {x}
    BY <1>1, <2>1
  <2>3. QED
    BY <1>1, <2>1, <2>2
<1>3. QED
  BY <1>2

(* The sum over at most one element is nothing, or what it says of that    *)
(* element.                                                                *)
LEMMA SumOfOptional ==
  ASSUME NEW S, NEW T \in Optional(S), NEW f \in [T -> Int]
  PROVE  /\ SumFunctionOnSet(f, T) \in Int
         /\ T = {} => SumFunctionOnSet(f, T) = 0
         /\ \A x \in T : SumFunctionOnSet(f, T) = f[x]
<1>1. CASE T = {}
  <2>1. SumFunctionOnSet(f, {}) = 0
    BY <1>1, SumOfNone
  <2>2. QED
    BY <1>1, <2>1
<1>2. ASSUME NEW x \in S, T = {x} PROVE SumFunctionOnSet(f, T) = f[x] /\ f[x] \in Int
  <2>1. f \in [{x} -> Int]
    BY <1>2
  <2>2. SumFunctionOnSet(f, {x}) = f[x]
    BY <2>1, SumOfOne
  <2>3. QED
    BY <1>2, <2>1, <2>2
<1>3. QED
  BY <1>1, <1>2, OptionalIs

(* A share of an amount is no less than zero, a fixed one is its value.    *)
LEMMA Shares ==
  ASSUME NEW kind, NEW value \in Nat, NEW base \in Nat
  PROVE  ShareOf(kind, value, base) \in Nat /\ (kind = "FIXED" => ShareOf(kind, value, base) = value)
<1>1. base * value \in Nat
  OBVIOUS
<1> DEFINE x == base * value
<1>2. x \div Whole \in Nat
  <2> HIDE DEF x
  <2>1. QED
    BY <1>1, PriceConstants, NextUnit DEF x
<1>3. QED
  BY <1>2 DEF ShareOf

(* What is capped by an amount and by a value exceeds neither.             *)
LEMMA CappedIs ==
  ASSUME NEW base \in Nat, NEW value \in Nat, NEW most \in Optional(Nat)
  PROVE  Capped(base, value, most) \in 0..base /\ Capped(base, value, most) <= value
<1> DEFINE S == {base, value} \cup most
<1>1. S \subseteq Nat /\ S # {}
  BY DEF Optional
<1>2. base \in S /\ value \in S
  OBVIOUS
<1> HIDE DEF S
<1>3. \E x \in S : \A y \in S : x <= y
  BY <1>1, Least
<1>4. Min(S) \in S /\ \A y \in S : Min(S) <= y
  BY <1>3 DEF Min
<1>5. Capped(base, value, most) = Min(S)
  BY DEF Capped, S
<1>6. Min(S) \in Nat /\ Min(S) <= base /\ Min(S) <= value
  BY <1>1, <1>2, <1>4
<1>7. QED
  BY <1>5, <1>6

(* The parts of a cart.                                                    *)
LEMMA CartTypes ==
  ASSUME NEW c \in Cart
  PROVE  /\ c.units \in Nat /\ c.fee \in Nat /\ c.minimum \in Nat
         /\ c.deal \in Optional(ItemOffer) /\ c.promotion \in Optional(Nat) /\ c.bundle \in Optional(ComboLine)
         /\ c.cartOffer \in Optional(CartOffer) /\ c.freeDelivery \in Optional(Nat)
         /\ c.coupon \in Optional(Coupon) /\ c.manual \in Optional(ManualDiscount)
         /\ c.rewards \subseteq Reward /\ c.chosen \in Optional(Reward)
         /\ c.deal = {} \/ c.promotion = {}
         /\ c.manual = {} \/ c.chosen = {}
  BY DEF Cart

(* A promotion is an offer like the others, and a cart has one at most.    *)
LEMMA OneDeal ==
  ASSUME NEW c \in Cart
  PROVE  Deals(c) \in Optional(ItemOffer)
<1>1. c.deal \in Optional(ItemOffer) /\ c.promotion \in Optional(Nat) /\ (c.deal = {} \/ c.promotion = {})
  BY CartTypes
<1>2. CASE c.promotion = {}
  BY <1>1, <1>2 DEF Deals
<1>3. CASE c.deal = {}
  <2>1. Deals(c) = {MirrorOf(price) : price \in c.promotion}
    BY <1>3 DEF Deals
  <2>2. \A price \in Nat : MirrorOf(price) \in ItemOffer
    BY DEF MirrorOf, ItemOffer
  <2>3. QED
    BY <1>1, <2>1, <2>2 DEF Optional
<1>4. QED
  BY <1>1, <1>2, <1>3

(* What the offer of a product saves, and what the units cost without it.  *)
LEMMA ItemSavingIs ==
  ASSUME NEW c \in Cart
  PROVE  /\ ItemSaving(c) \in Nat /\ ItemSaving(c) <= Base * c.units
         /\ Deals(c) = {} => ItemSaving(c) = 0
         /\ \A d \in Deals(c) : ItemSaving(c) = Gain(d) * Applications(d, c.units)
<1> DEFINE f == [d \in Deals(c) |-> Max({0, GainOf(d)}) * Applications(d, c.units)]
<1>1. Deals(c) \in Optional(ItemOffer) /\ Deals(c) \subseteq ItemOffer /\ c.units \in Nat
  BY OneDeal, CartTypes DEF Optional
<1>2. ItemSaving(c) = SumFunctionOnSet(f, Deals(c))
  BY DEF ItemSaving, Total
<1>3. \A d \in Deals(c) : f[d] = Gain(d) * Applications(d, c.units)
  BY DEF Gain
<1>4. \A d \in Deals(c) : Gain(d) \in Nat /\ Applications(d, c.units) \in Nat
  BY <1>1, GainTypes, ApplicationsAre
<1>5. \A d \in Deals(c) : Gain(d) * Applications(d, c.units) \in Nat
  BY <1>4
<1>6. f \in [Deals(c) -> Int]
  <2>1. DOMAIN f = Deals(c) /\ f = [d \in DOMAIN f |-> f[d]]
    OBVIOUS
  <2> HIDE DEF f
  <2>2. QED
    BY <1>3, <1>5, <2>1
<1> HIDE DEF f
<1>7. /\ Deals(c) = {} => ItemSaving(c) = 0
      /\ \A d \in Deals(c) : ItemSaving(c) = Gain(d) * Applications(d, c.units)
  BY <1>1, <1>2, <1>3, <1>6, SumOfOptional
<1>8. ASSUME NEW d \in Deals(c) PROVE Gain(d) * Applications(d, c.units) <= Base * c.units
  <2> DEFINE g == GroupSize(d)
             A == Applications(d, c.units)
             G == Gain(d)
  <2>1. g \in Nat /\ A \in Nat /\ G \in Nat /\ Base \in Nat /\ c.units \in Nat
    BY <1>1, <1>4, OfferTypes, PriceConstants
  <2>2. A * g <= c.units
    <3>1. A <= A
      BY <2>1
    <3>2. QED
      BY <1>1, <2>1, <3>1, ApplicationsAre
  <2>3. G <= Base * g
    <3>1. G = IF GainOf(d) <= 0 THEN 0 ELSE GainOf(d)
      BY <1>1, GainTypes
    <3>2. Base * g \in Nat
      BY <2>1
    <3>3. GainOf(d) \in Int /\ d.kind \in {"FIXED", "QUANTITY", "BOGO"}
      BY <1>1, GainTypes, OfferTypes
    <3>4. GainOf(d) <= Base * g
      <4>1. CASE d.kind = "FIXED"
        BY <1>1, <2>1, <4>1, OfferTypes DEF GainOf, GroupSize
      <4>2. CASE d.kind = "QUANTITY"
        <5>1. d.need \in Nat /\ d.price \in Nat
          BY <1>1, <4>2, OfferTypes
        <5>2. Base * d.need \in Nat /\ GainOf(d) = Base * d.need - d.price /\ g = d.need
          BY <2>1, <4>2, <5>1 DEF GainOf, GroupSize
        <5> HIDE DEF g
        <5>3. QED
          BY <5>1, <5>2
      <4>3. CASE d.kind = "BOGO"
        <5>1. d.buy \in Nat /\ d.get \in Nat
          BY <1>1, <4>3, OfferTypes
        <5>2. GainOf(d) = Base * d.get /\ g = d.buy + d.get
          BY <4>3 DEF GainOf, GroupSize
        <5>3. Base * (d.buy + d.get) = Base * d.buy + Base * d.get /\ Base * d.buy \in Nat /\ Base * d.get \in Nat
          BY <2>1, <5>1
        <5> HIDE DEF g
        <5>4. QED
          BY <5>2, <5>3
      <4>4. QED
        BY <3>3, <4>1, <4>2, <4>3
    <3> HIDE DEF g, G
    <3>5. QED
      BY <3>1, <3>2, <3>3, <3>4
  <2> HIDE DEF g, A, G
  <2>4. G * A <= (Base * g) * A
    BY <2>1, <2>3
  <2>5. (Base * g) * A = Base * (A * g)
    BY <2>1
  <2>6. Base * (A * g) <= Base * c.units
    BY <2>1, <2>2
  <2>7. G * A \in Int /\ Base * (A * g) \in Int /\ Base * c.units \in Int
    BY <2>1
  <2>8. G * A <= Base * c.units
    BY <2>4, <2>5, <2>6, <2>7
  <2>9. QED
    BY <2>8 DEF G, A
<1>9. ItemSaving(c) \in Nat /\ ItemSaving(c) <= Base * c.units
  <2>1. CASE Deals(c) = {}
    <3>1. Base * c.units \in Nat
      BY <1>1, PriceConstants
    <3>2. QED
      BY <1>7, <2>1, <3>1
  <2>2. CASE Deals(c) # {}
    <3>1. PICK d \in Deals(c) : TRUE
      BY <2>2
    <3>2. QED
      BY <1>5, <1>7, <1>8, <3>1
  <2>3. QED
    BY <2>1, <2>2
<1>10. QED
  BY <1>7, <1>9

(* What the combo of a cart saves, and the subtotal with and without it.   *)
LEMMA BundleSavingIs ==
  ASSUME NEW c \in Cart
  PROVE  /\ Bundles(c) \in Optional(ComboLine) /\ BundleSaving(c) \in Nat
         /\ Bundles(c) = {} => /\ BundleSaving(c) = 0
                               /\ Subtotal(c) = (Base + Extra) * c.units
         /\ \A b \in Bundles(c) :
              /\ BundleSaving(c) = (BundleBase - b.price - b.delta) * b.count
              /\ Subtotal(c) = (Base + Extra) * c.units + (BundleBase + Extra) * b.count
<1> DEFINE f == [b \in Bundles(c) |-> (BundleBase - b.price - b.delta) * b.count]
           h == [b \in Bundles(c) |-> (BundleBase + Extra) * b.count]
<1>1. c.bundle \in Optional(ComboLine) /\ c.units \in Nat
  BY CartTypes
<1>2. Bundles(c) \in Optional(ComboLine)
  BY <1>1 DEF Bundles, Optional
<1>3. \A b \in Bundles(c) : /\ b.count \in Nat /\ b.price \in Nat /\ b.delta \in Nat
                           /\ b.price + b.delta < BundleBase
  <2>1. Bundles(c) \subseteq ComboLine
    BY <1>2 DEF Optional
  <2>2. QED
    BY <2>1 DEF Bundles, Saves, ComboLine
<1>4. BundleSaving(c) = SumFunctionOnSet(f, Bundles(c))
  BY DEF BundleSaving, Total
<1>5. Subtotal(c) = (Base + Extra) * c.units + SumFunctionOnSet(h, Bundles(c))
  BY DEF Subtotal, Total
<1>6. \A b \in Bundles(c) : /\ (BundleBase - b.price - b.delta) * b.count \in Nat
                           /\ (BundleBase + Extra) * b.count \in Nat
  <2>1. ASSUME NEW b \in Bundles(c) PROVE /\ (BundleBase - b.price - b.delta) * b.count \in Nat
                                         /\ (BundleBase + Extra) * b.count \in Nat
    <3>1. BundleBase - b.price - b.delta \in Nat /\ BundleBase + Extra \in Nat /\ b.count \in Nat
      BY <1>3, PriceConstants
    <3> DEFINE x == BundleBase - b.price - b.delta
               y == BundleBase + Extra
    <3>2. x \in Nat /\ y \in Nat
      BY <3>1
    <3> HIDE DEF x, y
    <3>3. x * b.count \in Nat /\ y * b.count \in Nat
      BY <3>1, <3>2
    <3>4. QED
      BY <3>3 DEF x, y
  <2>2. QED
    BY <2>1
<1>7. f \in [Bundles(c) -> Int] /\ h \in [Bundles(c) -> Int]
  BY <1>6
<1>8. /\ \A b \in Bundles(c) : f[b] = (BundleBase - b.price - b.delta) * b.count
      /\ \A b \in Bundles(c) : h[b] = (BundleBase + Extra) * b.count
  OBVIOUS
<1> HIDE DEF f, h
<1>9. /\ Bundles(c) = {} => SumFunctionOnSet(f, Bundles(c)) = 0 /\ SumFunctionOnSet(h, Bundles(c)) = 0
      /\ \A b \in Bundles(c) : /\ SumFunctionOnSet(f, Bundles(c)) = f[b]
                               /\ SumFunctionOnSet(h, Bundles(c)) = h[b]
  BY <1>2, <1>7, SumOfOptional
<1>10. (Base + Extra) * c.units \in Int
  <2>1. Base + Extra \in Nat
    BY PriceConstants
  <2>2. QED
    BY <1>1, <2>1
<1>11. BundleSaving(c) \in Nat
  BY <1>4, <1>6, <1>8, <1>9
<1>12. QED
  BY <1>2, <1>4, <1>5, <1>8, <1>9, <1>10, <1>11

(* Counted unit by unit, goods cost what is left of the subtotal.          *)
LEMMA GoodsCost ==
  ASSUME NEW c \in Cart
  PROVE  /\ GoodsCharge(c) = ItemNet(c) /\ ItemNet(c) \in Nat /\ Subtotal(c) \in Nat
         /\ ItemNet(c) = Subtotal(c) - ItemSaving(c) - BundleSaving(c)
<1> DEFINE n == c.units
           D == Deals(c)
           goods == IF D = {} THEN Base * n
                    ELSE SumFunctionOnSet([u \in 1..n |-> SumFunctionOnSet([d \in D |-> UnitCharge(d, n, u)], D)], 1..n)
           f == [b \in Bundles(c) |-> (b.price + b.delta + Extra) * b.count]
           combos == SumFunctionOnSet(f, Bundles(c))
<1>1. n \in Nat /\ Base \in Nat /\ Extra \in Nat /\ BundleBase \in Nat /\ D \in Optional(ItemOffer)
  BY CartTypes, PriceConstants, OneDeal
<1>2. GoodsCharge(c) = goods + Extra * n + combos
  BY DEF GoodsCharge, Total
<1>3. goods = Base * n - ItemSaving(c) /\ goods \in Nat
  <2>1. Base * n \in Nat /\ ItemSaving(c) \in Nat /\ ItemSaving(c) <= Base * n
    BY <1>1, ItemSavingIs
  <2>2. CASE D = {}
    <3>1. ItemSaving(c) = 0 /\ goods = Base * n
      BY <2>2, ItemSavingIs
    <3> HIDE DEF goods, D
    <3>2. QED
      BY <2>1, <3>1
  <2>3. CASE D # {}
    <3>1. PICK d \in ItemOffer : D = {d}
      BY <1>1, <2>3, OptionalIs
    <3>2. ASSUME NEW u \in 1..n
          PROVE  SumFunctionOnSet([e \in D |-> UnitCharge(e, n, u)], D) = UnitCharge(d, n, u)
      <4> DEFINE charge == [e \in D |-> UnitCharge(e, n, u)]
      <4>1. u - 1 \in 0..n - 1 /\ (u - 1) + 1 = u
        BY <1>1
      <4>2. UnitCharge(d, n, (u - 1) + 1) \in Int
        BY <1>1, <4>1, NextUnitSaves
      <4>3. charge \in [D -> Int] /\ charge[d] = UnitCharge(d, n, u) /\ d \in D
        BY <3>1, <4>1, <4>2
      <4> HIDE DEF charge, D
      <4>4. SumFunctionOnSet(charge, D) = charge[d]
        BY <1>1, <4>3, SumOfOptional
      <4>5. QED
        BY <4>3, <4>4 DEF charge
    <3>3. [u \in 1..n |-> SumFunctionOnSet([e \in D |-> UnitCharge(e, n, u)], D)] = [u \in 1..n |-> UnitCharge(d, n, u)]
      BY <3>2
    <3>4. goods = SumFunctionOnSet([u \in 1..n |-> UnitCharge(d, n, u)], 1..n)
      BY <2>3, <3>3
    <3>5. goods = Base * n - Gain(d) * Applications(d, n)
      BY <1>1, <3>4, UnitsCost
    <3>6. ItemSaving(c) = Gain(d) * Applications(d, n)
      BY <3>1, ItemSavingIs
    <3> HIDE DEF goods, D, n
    <3>7. QED
      BY <2>1, <3>5, <3>6
  <2>4. QED
    BY <2>2, <2>3
<1> HIDE DEF goods
<1>4. (Base + Extra) * n = Base * n + Extra * n /\ Base * n \in Nat /\ Extra * n \in Nat
  BY <1>1
<1>5. CASE Bundles(c) = {}
  <2>1. combos = 0
    <3>1. f \in [Bundles(c) -> Int]
      BY <1>5
    <3> HIDE DEF f
    <3>2. QED
      BY <3>1, <1>5, BundleSavingIs, SumOfOptional
  <2>2. BundleSaving(c) = 0 /\ Subtotal(c) = (Base + Extra) * n
    BY <1>5, BundleSavingIs
  <2>3. ItemNet(c) = Subtotal(c) - ItemSaving(c) - BundleSaving(c) /\ ItemSaving(c) \in Nat
    BY ItemSavingIs DEF ItemNet
  <2> HIDE DEF n, combos
  <2>4. QED
    BY <1>2, <1>3, <1>4, <2>1, <2>2, <2>3
<1>6. CASE Bundles(c) # {}
  <2>1. PICK b \in ComboLine : Bundles(c) = {b}
    BY <1>6, BundleSavingIs, OptionalIs
  <2>2. b.count \in Nat /\ b.price \in Nat /\ b.delta \in Nat
    BY DEF ComboLine
  <2>3. combos = (b.price + b.delta + Extra) * b.count
    <3>1. (b.price + b.delta + Extra) * b.count \in Int
      <4>1. b.price + b.delta + Extra \in Int
        BY <1>1, <2>2
      <4>2. QED
        BY <2>2, <4>1
    <3>2. f \in [Bundles(c) -> Int] /\ f[b] = (b.price + b.delta + Extra) * b.count /\ b \in Bundles(c)
      BY <2>1, <3>1
    <3> HIDE DEF f
    <3>3. QED
      BY <3>2, BundleSavingIs, SumOfOptional
  <2>4. /\ BundleSaving(c) = (BundleBase - b.price - b.delta) * b.count
        /\ Subtotal(c) = (Base + Extra) * n + (BundleBase + Extra) * b.count
    BY <2>1, BundleSavingIs
  <2>5. /\ (BundleBase - b.price - b.delta) * b.count = BundleBase * b.count - b.price * b.count - b.delta * b.count
        /\ (BundleBase + Extra) * b.count = BundleBase * b.count + Extra * b.count
        /\ (b.price + b.delta + Extra) * b.count = b.price * b.count + b.delta * b.count + Extra * b.count
    BY <1>1, <2>2
  <2>6. /\ BundleBase * b.count \in Nat /\ b.price * b.count \in Nat /\ b.delta * b.count \in Nat
        /\ Extra * b.count \in Nat
    BY <1>1, <2>2
  <2>7. ItemNet(c) = Subtotal(c) - ItemSaving(c) - BundleSaving(c) /\ ItemSaving(c) \in Nat
    BY ItemSavingIs DEF ItemNet
  <2> DEFINE x == BundleBase * b.count
             y == b.price * b.count
             z == b.delta * b.count
             w == Extra * b.count
  <2>8. x \in Nat /\ y \in Nat /\ z \in Nat /\ w \in Nat
    BY <2>6
  <2>9. combos = y + z + w /\ BundleSaving(c) = x - y - z /\ Subtotal(c) = Base * n + Extra * n + (x + w)
    BY <1>4, <2>3, <2>4, <2>5
  <2> HIDE DEF n, combos, x, y, z, w
  <2>10. QED
    BY <1>2, <1>3, <1>4, <2>7, <2>8, <2>9
<1>7. QED
  BY <1>5, <1>6

(* The offer of the cart and the coupon take no more than there is.        *)
LEMMA CartSavingIs ==
  ASSUME NEW c \in Cart
  PROVE  CartSaving(c) \in 0..ItemNet(c)
<1> DEFINE f == [o \in c.cartOffer |->
                   IF ItemNet(c) >= o.min
                   THEN Capped(ItemNet(c), ShareOf(o.type, o.value, ItemNet(c)), o.most) ELSE 0]
<1>1. c.cartOffer \in Optional(CartOffer) /\ ItemNet(c) \in Nat
  BY CartTypes, GoodsCost
<1>2. CartSaving(c) = SumFunctionOnSet(f, c.cartOffer)
  BY DEF CartSaving, Total
<1>3. ASSUME NEW o \in c.cartOffer PROVE f[o] \in 0..ItemNet(c)
  <2>1. o.value \in Nat /\ o.most \in Optional(Nat)
    BY <1>1 DEF Optional, CartOffer
  <2>2. ShareOf(o.type, o.value, ItemNet(c)) \in Nat
    BY <1>1, <2>1, Shares
  <2>3. Capped(ItemNet(c), ShareOf(o.type, o.value, ItemNet(c)), o.most) \in 0..ItemNet(c)
    BY <1>1, <2>1, <2>2, CappedIs
  <2>4. QED
    BY <1>1, <2>3
<1>4. f \in [c.cartOffer -> Int]
  <2>1. DOMAIN f = c.cartOffer /\ f = [o \in DOMAIN f |-> f[o]]
    OBVIOUS
  <2> HIDE DEF f
  <2>2. QED
    BY <1>1, <1>3, <2>1
<1> HIDE DEF f
<1>5. /\ c.cartOffer = {} => SumFunctionOnSet(f, c.cartOffer) = 0
      /\ \A o \in c.cartOffer : SumFunctionOnSet(f, c.cartOffer) = f[o]
  BY <1>1, <1>4, SumOfOptional
<1>6. QED
  BY <1>1, <1>2, <1>3, <1>5

(* What is left of the goods after all offers is no less than zero.        *)
LEMMA GoodsLeft ==
  ASSUME NEW c \in Cart
  PROVE  Merchandise(c) \in Nat /\ Merchandise(c) = GoodsCharge(c) - CartSaving(c)
<1>1. CartSaving(c) \in 0..ItemNet(c) /\ ItemNet(c) \in Nat /\ GoodsCharge(c) = ItemNet(c)
  BY CartSavingIs, GoodsCost
<1>2. QED
  BY <1>1 DEF Merchandise

(* A coupon takes no more than the goods left, and a fixed one no more     *)
(* than its value.                                                         *)
LEMMA CouponSavingIs ==
  ASSUME NEW c \in Cart
  PROVE  /\ CouponSaving(c) \in 0..Merchandise(c)
         /\ CouponApplies(c) = {} => CouponSaving(c) = 0
         /\ \A k \in CouponApplies(c) : k.type = "FIXED" => CouponSaving(c) <= k.value
<1> DEFINE m == Merchandise(c)
           K == CouponApplies(c)
           f == [k \in K |-> Capped(m, ShareOf(k.type, k.value, m), k.most)]
<1>1. K \in Optional(Coupon) /\ K \subseteq Coupon /\ m \in Nat
  <2>1. c.coupon \in Optional(Coupon)
    BY CartTypes
  <2>2. QED
    BY <2>1, GoodsLeft DEF CouponApplies, Optional
<1>2. CouponSaving(c) = SumFunctionOnSet(f, K)
  BY DEF CouponSaving, Total
<1> HIDE DEF K, m
<1>3. ASSUME NEW k \in K PROVE f[k] \in 0..m /\ (k.type = "FIXED" => f[k] <= k.value)
  <2> DEFINE share == ShareOf(k.type, k.value, m)
  <2>1. k.value \in Nat /\ k.most \in Optional(Nat)
    BY <1>1 DEF Coupon
  <2>2. share \in Nat /\ (k.type = "FIXED" => share = k.value)
    BY <1>1, <2>1, Shares
  <2> HIDE DEF share
  <2>3. Capped(m, share, k.most) \in 0..m /\ Capped(m, share, k.most) <= share
    BY <1>1, <2>1, <2>2, CappedIs
  <2>4. f[k] = Capped(m, share, k.most)
    BY DEF share
  <2>5. QED
    BY <1>1, <2>2, <2>3, <2>4
<1>4. f \in [K -> Int]
  <2>1. DOMAIN f = K /\ f = [k \in DOMAIN f |-> f[k]]
    OBVIOUS
  <2> HIDE DEF f
  <2>2. QED
    BY <1>1, <1>3, <2>1
<1> HIDE DEF f
<1>5. /\ K = {} => SumFunctionOnSet(f, K) = 0
      /\ \A k \in K : SumFunctionOnSet(f, K) = f[k]
  BY <1>1, <1>4, SumOfOptional
<1>6. SumFunctionOnSet(f, K) \in 0..m
  BY <1>1, <1>3, <1>5
<1>7. \A k \in K : k.type = "FIXED" => SumFunctionOnSet(f, K) <= k.value
  BY <1>3, <1>5
<1>8. QED
  BY <1>2, <1>5, <1>6, <1>7 DEF K, m

(* What the server records of a cart, its amounts named.                   *)
LEMMA BaseQuoteIs ==
  ASSUME NEW c \in Cart
  PROVE  LET q == BaseQuote(c)
         IN  /\ q.subtotal = Subtotal(c) /\ q.coupon = CouponSaving(c) /\ q.manual = 0 /\ q.loyalty = 0
             /\ q.fee = c.fee /\ q.total = q.subtotal - q.discount + q.fee
             /\ q.discount = q.automatic + q.coupon /\ q.adjusted = q.discount
             /\ q.subtotal - q.automatic = Merchandise(c) - WaivedFee(c)
             /\ q.automatic \in Nat /\ q.coupon \in Nat /\ q.subtotal \in Nat /\ q.fee \in Nat /\ WaivedFee(c) \in Nat
             /\ q.discount \in Nat /\ q.total \in Int
<1> DEFINE a == ItemSaving(c)
           b == BundleSaving(c)
           s == CartSaving(c)
           w == WaivedFee(c)
           k == CouponSaving(c)
           t == Subtotal(c)
           q == BaseQuote(c)
<1>1. /\ a \in Nat /\ b \in Nat /\ t \in Nat /\ s \in Int /\ s >= 0 /\ k \in Int /\ k >= 0
      /\ Merchandise(c) = t - a - b - s
  <2>1. s \in 0..ItemNet(c) /\ ItemNet(c) \in Nat /\ ItemNet(c) = t - a - b /\ t \in Nat
    BY CartSavingIs, GoodsCost
  <2>2. k \in 0..Merchandise(c) /\ Merchandise(c) \in Nat /\ Merchandise(c) = ItemNet(c) - s
    BY CouponSavingIs, GoodsLeft DEF Merchandise
  <2>3. a \in Nat /\ b \in Nat
    BY ItemSavingIs, BundleSavingIs
  <2> HIDE DEF a, b, s, k, t
  <2>4. QED
    BY <2>1, <2>2, <2>3
<1>2. w \in Nat /\ c.fee \in Nat
  BY CartTypes DEF WaivedFee
<1>3. /\ q.subtotal = t /\ q.automatic = a + b + s + w /\ q.coupon = k /\ q.manual = 0 /\ q.loyalty = 0
      /\ q.discount = (a + b + s + w) + k /\ q.fee = c.fee
      /\ q.total = t - ((a + b + s + w) + k) + c.fee
      /\ q.adjusted = a + b + s + w + k
  BY DEF BaseQuote
<1> HIDE DEF a, b, s, w, k, t, q
<1>4. QED
  BY <1>1, <1>2, <1>3 DEF q, w, t, k

(* A discount more is taken off the total.                                 *)
LEMMA DiscountedIs ==
  ASSUME NEW c, NEW amount
  PROVE  LET q == BaseQuote(c)
             m == Discounted(q, "manual", amount)
             l == Discounted(q, "loyalty", amount)
         IN  /\ m.manual = amount /\ m.loyalty = q.loyalty /\ l.manual = q.manual /\ l.loyalty = amount
             /\ \A p \in {m, l} :
                  /\ p.subtotal = q.subtotal /\ p.automatic = q.automatic /\ p.coupon = q.coupon
                  /\ p.fee = q.fee /\ p.issues = q.issues
                  /\ p.discount = q.discount + amount /\ p.total = q.total - amount
  BY DEF Discounted, BaseQuote

(* How a quote comes about: as it is, less a discount of the till, or less *)
(* what a reward gives.                                                    *)
LEMMA PricedIs ==
  ASSUME NEW c \in Cart, NEW p \in Priced(c)
  PROVE  LET q == BaseQuote(c)
         IN  /\ TotalsAgree(q, 0)
             /\ \/ p = q
                \/ \E x \in 1..Eligible(q) : p = Discounted(q, "manual", x)
                \/ \E r \in c.chosen : /\ RewardEligible(c, q, r)
                                       /\ p = Discounted(q, "loyalty", RewardSaving(c, q, r))
<1> DEFINE q == BaseQuote(c)
<1>1. PICK m \in WithManual(c, q) : p \in WithReward(c, m) /\ TotalsAgree(q, 0)
  BY DEF Priced, Quoted
<1>2. c.manual = {} \/ c.chosen = {}
  BY CartTypes
<1> HIDE DEF q
<1>3. CASE c.manual = {}
  <2>1. m = q
    BY <1>1, <1>3 DEF WithManual
  <2>2. CASE c.chosen = {}
    <3>1. p = q
      BY <1>1, <2>1, <2>2 DEF WithReward
    <3>2. QED
      BY <1>1, <3>1 DEF q
  <2>3. CASE c.chosen # {}
    <3>1. \E r \in c.chosen : RewardEligible(c, q, r) /\ p = Discounted(q, "loyalty", RewardSaving(c, q, r))
      BY <1>1, <2>1, <2>3 DEF WithReward
    <3>2. QED
      BY <1>1, <3>1 DEF q
  <2>4. QED
    BY <2>2, <2>3
<1>4. CASE c.manual # {} /\ c.chosen = {}
  <2>1. p = m
    BY <1>1, <1>4 DEF WithReward
  <2>2. \E x \in 1..Eligible(q) : m = Discounted(q, "manual", x)
    BY <1>1, <1>4 DEF WithManual
  <2>3. QED
    BY <1>1, <2>1, <2>2 DEF q
<1>5. QED
  BY <1>2, <1>3, <1>4

(* A reward takes no more than the offers left.                            *)
LEMMA RewardSavingIs ==
  ASSUME NEW c \in Cart, NEW r \in Reward, RewardEligible(c, BaseQuote(c), r)
  PROVE  /\ RewardSaving(c, BaseQuote(c), r) \in Nat
         /\ RewardSaving(c, BaseQuote(c), r) <= BaseQuote(c).subtotal - BaseQuote(c).automatic
<1> DEFINE q == BaseQuote(c)
           v == RewardSaving(c, q, r)
           g == q.subtotal - q.automatic
<1>1. g \in Int
  BY BaseQuoteIs
<1>2. v > 0
  BY DEF RewardEligible
<1>3. RewardBase(q) = IF g >= 0 THEN g ELSE 0
  <2> HIDE DEF g
  <2>1. Max({0, g}) = IF g >= 0 THEN g ELSE 0
    BY <1>1 DEF Max
  <2>2. QED
    BY <2>1 DEF RewardBase, g
<1> HIDE DEF q, g
<1>4. RewardBase(q) \in Nat
  BY <1>1, <1>3
<1>5. v \in Int /\ v <= RewardBase(q)
  <2>1. CASE r.type = "FIXED"
    <3>1. r.value \in Nat
      BY <2>1 DEF Reward
    <3>2. v = Min({r.value, RewardBase(q)})
      BY <2>1 DEF RewardSaving
    <3>3. Min({r.value, RewardBase(q)}) = IF r.value <= RewardBase(q) THEN r.value ELSE RewardBase(q)
      <4> DEFINE x == r.value
                 y == RewardBase(q)
      <4>1. x \in Int /\ y \in Int
        BY <1>4, <3>1
      <4> HIDE DEF x, y
      <4>2. Min({x, y}) = IF x <= y THEN x ELSE y
        BY <4>1, OfTwo
      <4>3. QED
        BY <4>2 DEF x, y
    <3> HIDE DEF v
    <3>4. QED
      BY <1>4, <3>1, <3>2, <3>3
  <2>2. CASE r.type = "PERCENT"
    <3>1. r.value \in Nat /\ r.most \in Optional(Nat)
      BY <2>2 DEF Reward
    <3>2. v = Capped(RewardBase(q), (RewardBase(q) * r.value) \div Whole, r.most)
      BY <2>2 DEF RewardSaving
    <3>3. (RewardBase(q) * r.value) \div Whole \in Nat
      <4> DEFINE x == RewardBase(q) * r.value
      <4>1. x \in Nat
        BY <1>4, <3>1
      <4> HIDE DEF x
      <4>2. x \div Whole \in Nat
        BY <4>1, PriceConstants, NextUnit
      <4>3. QED
        BY <4>2 DEF x
    <3>4. Capped(RewardBase(q), (RewardBase(q) * r.value) \div Whole, r.most) \in 0..RewardBase(q)
      BY <1>4, <3>1, <3>3, CappedIs
    <3> HIDE DEF v
    <3>5. QED
      BY <1>4, <3>2, <3>4
  <2>3. CASE r.type = "PRODUCT"
    <3>1. c.units \in Nat /\ c.units > 0
      BY <1>2, <2>3, CartTypes DEF RewardSaving
    <3> DEFINE left == Max({0, Base * c.units - ItemSaving(c)})
               S == {r.value, Base, left \div c.units, RewardBase(q)}
    <3>2. v = Min(S)
      BY <2>3, <3>1 DEF RewardSaving
    <3>3. left \in Nat
      <4> DEFINE x == Base * c.units - ItemSaving(c)
      <4>1. x \in Int
        <5>1. Base * c.units \in Int
          BY <3>1, PriceConstants
        <5>2. QED
          BY <5>1, ItemSavingIs
      <4> HIDE DEF x
      <4>2. Max({0, x}) = IF x >= 0 THEN x ELSE 0
        BY <4>1 DEF Max
      <4>3. QED
        BY <4>1, <4>2 DEF x
    <3>4. left \div c.units \in Nat
      <4> HIDE DEF left
      <4>1. QED
        BY <3>1, <3>3, NextUnit
    <3>5. r.value \in Nat
      BY <2>3 DEF Reward
    <3>6. S \subseteq Nat /\ S # {} /\ RewardBase(q) \in S
      BY <1>4, <3>4, <3>5, PriceConstants
    <3> HIDE DEF S, v
    <3>7. \E x \in S : \A y \in S : x <= y
      BY <3>6, Least
    <3>8. Min(S) \in S /\ \A y \in S : Min(S) <= y
      BY <3>7 DEF Min
    <3>9. Min(S) \in Nat /\ Min(S) <= RewardBase(q)
      BY <3>6, <3>8
    <3>10. QED
      BY <3>2, <3>9
  <2>4. r.type \in {"FIXED", "PERCENT", "PRODUCT"}
    BY DEF Reward
  <2>5. QED
    BY <2>1, <2>2, <2>3, <2>4
<1> HIDE DEF v
<1>6. v \in Nat /\ v <= g
  BY <1>1, <1>2, <1>3, <1>4, <1>5
<1>7. QED
  BY <1>6 DEF v, q, g

(* A quote that is made takes the goods to the price that was advertised.  *)
LEMMA QuoteAdvertised ==
  ASSUME NEW c \in Cart, NEW p \in Priced(c)
  PROVE  LET goods == GoodsCharge(c) - CartSaving(c)
             net   == goods - p.coupon - p.manual - p.loyalty
         IN  /\ p.total = net + (c.fee - WaivedFee(c))
             /\ p.subtotal >= p.discount /\ net >= WaivedFee(c)
             /\ p.loyalty > 0 => p.coupon = 0 /\ p.loyalty <= goods
             /\ \A k \in CouponApplies(c) : p.coupon <= goods /\ (k.type = "FIXED" => p.coupon <= k.value)
<1> DEFINE q == BaseQuote(c)
           goods == Merchandise(c)
           w == WaivedFee(c)
           Taken == \E x \in Nat :
             /\ x <= q.subtotal - q.discount /\ p.coupon = q.coupon /\ p.subtotal = q.subtotal
             /\ p.discount = q.discount + x /\ p.total = q.total - x /\ p.manual + p.loyalty = x
             /\ p.manual \in Nat /\ p.loyalty \in Nat /\ (p.loyalty > 0 => CouponApplies(c) = {})
<1>1. goods = GoodsCharge(c) - CartSaving(c) /\ goods \in Nat
  BY GoodsLeft
<1>2. /\ q.manual = 0 /\ q.loyalty = 0
      /\ q.fee = c.fee /\ q.total = q.subtotal - q.discount + q.fee /\ q.discount = q.automatic + q.coupon
      /\ q.subtotal - q.automatic = goods - w
      /\ q.automatic \in Nat /\ q.coupon \in Nat /\ q.subtotal \in Nat /\ q.fee \in Nat /\ w \in Nat
      /\ q.discount \in Nat /\ q.total \in Int
  BY BaseQuoteIs
<1>3. /\ q.coupon \in 0..goods
      /\ CouponApplies(c) = {} => q.coupon = 0
      /\ \A k \in CouponApplies(c) : k.type = "FIXED" => q.coupon <= k.value
  BY CouponSavingIs, BaseQuoteIs
<1>4. q.subtotal - q.discount >= 0
  <2>1. InCents(q.subtotal - q.discount)
    BY PricedIs DEF TotalsAgree
  <2> HIDE DEF q
  <2>2. QED
    BY <1>2, <2>1 DEF InCents
(* Whatever is taken off after the coupon.                                 *)
<1>5. ASSUME NEW x \in Nat, x <= q.subtotal - q.discount, p.coupon = q.coupon, p.subtotal = q.subtotal,
             p.discount = q.discount + x, p.total = q.total - x, p.manual + p.loyalty = x,
             p.manual \in Nat, p.loyalty \in Nat, p.loyalty > 0 => CouponApplies(c) = {}
      PROVE  /\ p.total = (goods - p.coupon - p.manual - p.loyalty) + (c.fee - w)
             /\ p.subtotal >= p.discount /\ goods - p.coupon - p.manual - p.loyalty >= w
             /\ p.loyalty > 0 => p.coupon = 0 /\ p.loyalty <= goods
             /\ \A k \in CouponApplies(c) : p.coupon <= goods /\ (k.type = "FIXED" => p.coupon <= k.value)
  <2> HIDE DEF q, goods, w
  <2>1. p.coupon \in Nat /\ c.fee \in Nat
    BY <1>2, <1>5
  <2>2. goods - p.coupon - p.manual - p.loyalty = w + (q.subtotal - q.discount) - x
    BY <1>1, <1>2, <1>5, <2>1
  <2>3. p.total = (goods - p.coupon - p.manual - p.loyalty) + (c.fee - w)
    BY <1>1, <1>2, <1>5, <2>1, <2>2
  <2>4. p.subtotal >= p.discount /\ goods - p.coupon - p.manual - p.loyalty >= w
    BY <1>1, <1>2, <1>5, <2>1, <2>2
  <2>5. p.loyalty <= goods
    BY <1>1, <1>2, <1>5, <2>1, <2>4
  <2>6. p.loyalty > 0 => p.coupon = 0
    BY <1>3, <1>5
  <2>7. \A k \in CouponApplies(c) : p.coupon <= goods /\ (k.type = "FIXED" => p.coupon <= k.value)
    BY <1>1, <1>3, <1>5
  <2>8. QED
    BY <2>3, <2>4, <2>5, <2>6, <2>7
<1>6. Taken
  <2>1. CASE p = q
    <3> HIDE DEF q
    <3>1. p.discount = q.discount + 0 /\ p.total = q.total - 0 /\ p.manual + p.loyalty = 0
      BY <1>2, <2>1
    <3>2. QED
      BY <1>2, <1>4, <2>1, <3>1
  <2>2. ASSUME NEW x \in 1..Eligible(q), p = Discounted(q, "manual", x)
        PROVE  Taken
    <3>1. /\ p.manual = x /\ p.loyalty = q.loyalty
          /\ p.subtotal = q.subtotal /\ p.coupon = q.coupon
          /\ p.discount = q.discount + x /\ p.total = q.total - x
      BY <2>2, DiscountedIs
    <3>2. Eligible(q) = q.subtotal - q.discount
      <4> HIDE DEF q
      <4>1. Eligible(q) = q.subtotal - q.automatic - q.coupon
        BY DEF Eligible
      <4>2. QED
        BY <1>2, <4>1
    <3> HIDE DEF q
    <3>3. x \in Nat /\ x <= q.subtotal - q.discount
      BY <1>2, <1>4, <3>2
    <3>4. p.manual + p.loyalty = x /\ p.manual \in Nat /\ p.loyalty \in Nat /\ p.loyalty = 0
      BY <1>2, <3>1, <3>3
    <3>5. QED
      BY <3>1, <3>3, <3>4
  <2>3. ASSUME NEW r \in c.chosen, RewardEligible(c, q, r), p = Discounted(q, "loyalty", RewardSaving(c, q, r))
        PROVE  Taken
    <3> DEFINE x == RewardSaving(c, q, r)
    <3>1. r \in Reward
      BY CartTypes DEF Optional
    <3>2. x \in Nat /\ x <= q.subtotal - q.automatic
      BY <2>3, <3>1, RewardSavingIs
    <3>3. CouponApplies(c) = {} /\ q.coupon = 0
      BY <1>3, <2>3 DEF RewardEligible, Considered
    <3>4. /\ p.manual = q.manual /\ p.loyalty = x
          /\ p.subtotal = q.subtotal /\ p.coupon = q.coupon
          /\ p.discount = q.discount + x /\ p.total = q.total - x
      BY <2>3, DiscountedIs
    <3> HIDE DEF q, x
    <3>5. x <= q.subtotal - q.discount
      BY <1>2, <3>2, <3>3
    <3>6. p.manual + p.loyalty = x /\ p.manual \in Nat /\ p.loyalty \in Nat
      BY <1>2, <3>2, <3>4
    <3>7. QED
      BY <3>2, <3>3, <3>4, <3>5, <3>6
  <2>4. QED
    BY <2>1, <2>2, <2>3, PricedIs
<1>7. QED
  BY <1>1, <1>5, <1>6

(* A cart in range of the cents that has no price falls under one of the   *)
(* exceptions.                                                             *)
LEMMA QuoteMade ==
  ASSUME NEW c \in Cart, InCents(Subtotal(c)), InCents(Subtotal(c) + c.fee),
         ~TooWide(c), ~FeeBeyondGoods(c), ~NothingToTake(c)
  PROVE  Priced(c) # {}
<1> DEFINE q == BaseQuote(c)
<1>1. Computable(c) /\ Evaluable(c, q)
  BY DEF TooWide
<1>2. /\ c.manual # {} => WithManual(c, q) # {}
      /\ \A r \in c.chosen : RewardEligible(c, q, r)
  BY DEF NothingToTake
<1>3. /\ q.subtotal = Subtotal(c) /\ q.coupon = CouponSaving(c) /\ q.manual = 0
      /\ q.fee = c.fee /\ q.total = q.subtotal - q.discount + q.fee
      /\ q.discount = q.automatic + q.coupon /\ q.adjusted = q.discount
      /\ q.subtotal - q.automatic = Merchandise(c) - WaivedFee(c)
      /\ q.automatic \in Nat /\ q.coupon \in Nat /\ q.subtotal \in Nat /\ q.fee \in Nat /\ WaivedFee(c) \in Nat
      /\ q.discount \in Nat /\ q.total \in Int
  BY BaseQuoteIs
<1>4. Merchandise(c) - CouponSaving(c) >= WaivedFee(c)
  <2>1. Merchandise(c) \in Nat /\ CouponSaving(c) \in Int
    BY <1>3, GoodsLeft
  <2>2. QED
    BY <1>3, <2>1 DEF FeeBeyondGoods
<1>5. TotalsAgree(q, 0)
  <2>1. Merchandise(c) \in Nat /\ MaxCents \in Nat
    BY GoodsLeft, PriceConstants
  <2>2. q.subtotal \in 0..MaxCents /\ q.subtotal + q.fee \in 0..MaxCents
    BY <1>3 DEF InCents
  <2> HIDE DEF q
  <2>3. q.subtotal - q.discount \in Nat
    BY <1>3, <1>4, <2>1
  <2>4. /\ q.discount \in 0..MaxCents /\ q.subtotal - q.discount \in 0..MaxCents /\ q.total \in 0..MaxCents
        /\ q.automatic + q.coupon + q.manual + 0 = q.discount
        /\ q.subtotal - q.discount + q.fee = q.total
    BY <1>3, <2>1, <2>2, <2>3
  <2>5. QED
    BY <1>3, <2>2, <2>4 DEF TotalsAgree, InCents
<1>6. q \in Quoted(c)
  BY <1>1, <1>5 DEF Quoted
<1>7. c.manual = {} \/ c.chosen = {}
  BY CartTypes
<1>8. \E m \in WithManual(c, q) : WithReward(c, m) # {}
  <2>1. CASE c.manual = {}
    <3> HIDE DEF q
    <3>1. WithManual(c, q) = {q}
      BY <2>1 DEF WithManual
    <3>2. WithReward(c, q) # {}
      BY <1>1, <1>2 DEF WithReward
    <3>3. QED
      BY <3>1, <3>2
  <2>2. CASE c.manual # {}
    <3>1. PICK m \in WithManual(c, q) : TRUE
      BY <1>2, <2>2
    <3>2. PICK x : m = Discounted(q, "manual", x)
      BY <2>2, <3>1 DEF WithManual
    <3>3. m.subtotal = q.subtotal /\ m.automatic = q.automatic
      BY <3>2, DiscountedIs
    <3> HIDE DEF q
    <3>4. RewardBase(m) = RewardBase(q) /\ \A r \in c.rewards : Considered(c, m, r) <=> Considered(c, q, r)
      BY <3>3 DEF RewardBase, Considered
    <3>5. Evaluable(c, m)
      BY <1>1, <3>4 DEF Evaluable
    <3>6. c.chosen = {}
      BY <1>7, <2>2
    <3>7. m \in WithReward(c, m)
      BY <3>5, <3>6 DEF WithReward
    <3>8. QED
      BY <3>1, <3>7
  <2>3. QED
    BY <2>1, <2>2
<1>9. QED
  <2> HIDE DEF q
  <2>1. QED
    BY <1>6, <1>8 DEF Priced

(* For any prices, offers, coupon, reward and discount of the till, the    *)
(* discounts that calculateCheckoutQuote and the benefits record take a    *)
(* cart of any number of units to the price counted unit by unit; and a    *)
(* cart within the range of cents has a price but for the named            *)
(* exceptions.                                                             *)
THEOREM EveryCartAsAdvertised == \A c \in Cart : PricedAsAdvertised(c)
<1>1. ASSUME NEW c \in Cart PROVE PricedAsAdvertised(c)
  <2>1. \A p \in Priced(c) :
          LET goods == GoodsCharge(c) - CartSaving(c)
              net   == goods - p.coupon - p.manual - p.loyalty
          IN  /\ p.total = net + (c.fee - WaivedFee(c))
              /\ p.subtotal >= p.discount /\ net >= WaivedFee(c)
              /\ p.loyalty > 0 => p.coupon = 0 /\ p.loyalty <= goods
              /\ \A k \in CouponApplies(c) : p.coupon <= goods /\ (k.type = "FIXED" => p.coupon <= k.value)
    BY QuoteAdvertised
  <2>2. (InCents(Subtotal(c)) /\ InCents(Subtotal(c) + c.fee) /\ Priced(c) = {})
          => TooWide(c) \/ FeeBeyondGoods(c) \/ NothingToTake(c)
    BY QuoteMade
  <2>3. QED
    BY <2>1, <2>2 DEF PricedAsAdvertised
<1>2. QED
  BY <1>1
=============================================================================
