----------------------------- MODULE ConsumerAccess -----------------------------
(***************************************************************************)
(* How consumers prove an e-mail address and what follows from the proof:  *)
(* codes that are requested, sent again, tried and consumed, identities,   *)
(* the sessions of their devices, the customer of an order that is         *)
(* claimed, and the change of an identity's address.                       *)
(*                                                                         *)
(* Transactions are serializable, hence one action each. A code is sent    *)
(* between the transaction that makes it and the one that cancels the      *)
(* others. It is compared before the transaction that consumes it: that    *)
(* changes nothing, so that any code a challenge ever had may have been    *)
(* found right by an execution whose transaction comes now, and any number *)
(* of executions may be under way. A challenge expires in that nobody      *)
(* tries it or sends it again any more.                                    *)
(***************************************************************************)
EXTENDS Naturals, Sequences, FiniteSets

CONSTANTS
  Addresses,      \* e-mail addresses
  Customers,      \* customers of the store whose orders can be claimed
  MaxCodes,       \* bound: codes of all challenges, the resent ones included
  MaxGuesses,     \* MAX_ATTEMPTS
  MaxActive       \* MAX_ACTIVE_SESSIONS

ASSUME AccessAssumption ==
  /\ MaxCodes \in Nat \ {0} /\ MaxGuesses \in Nat \ {0} /\ MaxActive \in Nat \ {0}

VARIABLES
  challenge,      \* consumer_verification_challenges, each with its change request
  identity,       \* consumer_identities: their addresses
  link,           \* the identity of a customer, 0 for none
  signin          \* consumer_sessions: the challenge each came from, the one that last proved its
                  \* address, and the code that was given for that

accessVars == <<challenge, identity, link, signin>>

Purposes == {"LOGIN", "ORDER_CLAIM", "EMAIL_CHANGE_NEW"}

AccessTypeOK ==
  /\ \A c \in DOMAIN challenge :
       challenge[c] \in
         [email : Addresses, purpose : Purposes, customer : SUBSET Customers, owner : 0..Len(identity),
          before : SUBSET Addresses, status : {"PENDING", "VERIFIED", "FAILED", "CANCELLED"},
          change : {"NONE", "PENDING", "CANCELLED", "FAILED", "COMPLETED"}, code : 1..MaxCodes,
          guesses : 0..MaxGuesses, sending : {"NONE", "START", "RESEND"}, told : BOOLEAN]
  /\ \A i \in DOMAIN identity : identity[i] \in Addresses
  /\ link \in [Customers -> 0..Len(identity)]
  /\ \A s \in DOMAIN signin :
       signin[s] \in [owner : DOMAIN identity, live : BOOLEAN, from : DOMAIN challenge,
                      proof : DOMAIN challenge, code : 1..MaxCodes]

AccessInit ==
  /\ challenge = <<>> /\ identity = <<>> /\ signin = <<>>
  /\ link = [k \in Customers |-> 0]

Codes == UNION {{c} \X (1..challenge[c].code) : c \in DOMAIN challenge}
Holders(email) == {i \in DOMAIN identity : identity[i] = email}
Challenge(email, purpose, customer, owner, before) ==
  [email |-> email, purpose |-> purpose, customer |-> customer, owner |-> owner, before |-> before,
   status |-> "PENDING", change |-> IF purpose = "EMAIL_CHANGE_NEW" THEN "PENDING" ELSE "NONE",
   code |-> 1, guesses |-> 0, sending |-> "START", told |-> FALSE]

(*--------------------------- Codes and their sends ------------------------*)
(* requestConsumerVerification: the row, before anything is sent.          *)
RequestCode ==
  \E email \in Addresses, customer \in {{}} \cup {{k} : k \in Customers} :
    /\ Cardinality(Codes) < MaxCodes
    /\ challenge' = Append(challenge,
         Challenge(email, IF customer = {} THEN "LOGIN" ELSE "ORDER_CLAIM", customer, 0, {}))
    /\ UNCHANGED <<identity, link, signin>>

(* The code was sent: every other one to the address is cancelled, and the *)
(* page is given the token.                                                *)
Superseded(c) ==
  {d \in DOMAIN challenge \ {c} : challenge[d].status = "PENDING" /\ challenge[d].email = challenge[c].email}

CodeSent(c) ==
  /\ challenge[c].sending = "START" /\ challenge[c].purpose # "EMAIL_CHANGE_NEW"
  /\ challenge' = [d \in DOMAIN challenge |->
       IF d = c THEN [challenge[d] EXCEPT !.sending = "NONE", !.told = TRUE]
       ELSE IF d \in Superseded(c) THEN [challenge[d] EXCEPT !.status = "CANCELLED"]
       ELSE challenge[d]]
  /\ UNCHANGED <<identity, link, signin>>

(* A send that failed, the first or a later one.                           *)
SendFailed(c) ==
  /\ challenge[c].sending # "NONE"
  /\ challenge' = [challenge EXCEPT
       ![c].sending = "NONE",
       ![c].status = IF @ = "PENDING" THEN "FAILED" ELSE @,
       ![c].change = IF @ = "PENDING" /\ challenge[c].sending = "START" THEN "FAILED" ELSE @]
  /\ UNCHANGED <<identity, link, signin>>

(* The execution is killed while it sends: nobody is given the token.      *)
SenderKilled(c) ==
  /\ challenge[c].sending # "NONE"
  /\ challenge' = [challenge EXCEPT ![c].sending = "NONE"]
  /\ UNCHANGED <<identity, link, signin>>

(* resendConsumerVerification: a new code replaces the one before, of any  *)
(* purpose. Two executions are kept apart by the count and the cooldown    *)
(* they compare.                                                           *)
ResendCode(c) ==
  /\ challenge[c].told /\ challenge[c].status = "PENDING" /\ challenge[c].sending = "NONE"
  /\ Cardinality(Codes) < MaxCodes
  /\ challenge' = [challenge EXCEPT ![c].code = @ + 1, ![c].sending = "RESEND"]
  /\ UNCHANGED <<identity, link, signin>>

CodeResent(c) ==
  /\ challenge[c].sending = "RESEND"
  /\ challenge' = [challenge EXCEPT ![c].sending = "NONE"]
  /\ UNCHANGED <<identity, link, signin>>

(*------------------------------ Confirmation ------------------------------*)
Guessed(c) ==
  [challenge EXCEPT ![c].guesses = @ + 1,
                    ![c].status = IF challenge[c].guesses + 1 >= MaxGuesses THEN "FAILED" ELSE "PENDING"]

(* recordFailedAttempt                                                     *)
RecordFailedAttempt(c) ==
  /\ challenge[c].told /\ challenge[c].status = "PENDING"
  /\ challenge' = Guessed(c)
  /\ UNCHANGED <<identity, link, signin>>

Pending(c) == challenge[c].status = "PENDING" /\ challenge[c].guesses < MaxGuesses
Consumed(c) == [challenge EXCEPT ![c].status = "VERIFIED", ![c].guesses = @ + 1]

(* Faulty: the comparison before the transaction is believed.              *)
StillMatchesRead(c, code) == TRUE

(* The code is compared again, with what the row holds now.                *)
StillMatches(c, code) == code = challenge[c].code

(* The identities that a challenge may confirm, as the sequence of         *)
(* addresses that results and the one confirmed; none in a conflict.       *)
Confirmable(c) ==
  LET email  == challenge[c].email
      linked == {link[k] : k \in challenge[c].customer} \ {0}
      held   == IF Holders(email) = {} THEN {[all |-> Append(identity, email), one |-> Len(identity) + 1]}
                ELSE {[all |-> identity, one |-> i] : i \in Holders(email)}
  IN  IF linked # {}
      THEN {[all |-> identity, one |-> i] : i \in linked \cap Holders(email)}
      ELSE {h \in held : challenge[c].customer = {} \/ \A k \in Customers : link[k] # h.one}

(* The oldest sessions beyond the limit are revoked.                       *)
WithinLimit(sessions, owner) ==
  [s \in DOMAIN sessions |->
    [sessions[s] EXCEPT !.live = @ /\
       (sessions[s].owner = owner =>
          Cardinality({n \in s..Len(sessions) : sessions[n].live /\ sessions[n].owner = owner}) <= MaxActive)]]

(* verifyConsumerCode, once a code was found right: another wrong guess if *)
(* it was replaced meanwhile. The purpose is not asked: a change's code    *)
(* signs in whom its address is of, and leaves the request as it is.       *)
VerifyCode(c, code) ==
  /\ challenge[c].told /\ Pending(c)
  /\ \/ /\ ~StillMatches(c, code)
        /\ challenge' = Guessed(c)
        /\ UNCHANGED <<identity, link, signin>>
     \/ /\ StillMatches(c, code)
        /\ \E h \in Confirmable(c) :
             /\ identity' = h.all
             /\ link' = [k \in Customers |-> IF k \in challenge[c].customer THEN h.one ELSE link[k]]
             /\ signin' = WithinLimit(Append(signin,
                  [owner |-> h.one, live |-> TRUE, from |-> c, proof |-> c, code |-> code]), h.one)
             /\ challenge' = Consumed(c)

(*------------------------- The change of an address -----------------------*)
(* requestConsumerEmailChange, from a device that is signed in; the        *)
(* identity's other requests are cancelled, but not their challenges.      *)
RequestEmailChange(s) ==
  \E email \in Addresses :
    LET owner == signin[s].owner
    IN  /\ signin[s].live /\ identity[owner] # email /\ Cardinality(Codes) < MaxCodes
        /\ challenge' = Append(
             [c \in DOMAIN challenge |->
               IF challenge[c].change = "PENDING" /\ challenge[c].owner = owner
               THEN [challenge[c] EXCEPT !.change = "CANCELLED"] ELSE challenge[c]],
             Challenge(email, "EMAIL_CHANGE_NEW", {}, owner, {identity[owner]}))
        /\ UNCHANGED <<identity, link, signin>>

ChangeCodeSent(c) ==
  /\ challenge[c].sending = "START" /\ challenge[c].purpose = "EMAIL_CHANGE_NEW"
  /\ challenge' = [challenge EXCEPT ![c].sending = "NONE", ![c].told = TRUE]
  /\ UNCHANGED <<identity, link, signin>>

(* The identity's other devices are signed out.                            *)
OthersRevoked(s) ==
  [n \in DOMAIN signin |->
    IF n # s /\ signin[n].owner = signin[s].owner THEN [signin[n] EXCEPT !.live = FALSE] ELSE signin[n]]

(* What confirmConsumerEmailChange reads again in its transaction, for a   *)
(* device that was signed in when the code was found right; the code it    *)
(* compares again, and refuses when another was sent meanwhile.            *)
Changeable(c, s) ==
  /\ challenge[c].told /\ challenge[c].change = "PENDING" /\ Pending(c)
  /\ signin[s].owner = challenge[c].owner /\ signin[s].live
  /\ identity[signin[s].owner] \in challenge[c].before
  /\ Holders(challenge[c].email) \subseteq {signin[s].owner}

ConfirmEmailChange(c, s, code) ==
  /\ Changeable(c, s) /\ StillMatches(c, code)
  /\ identity' = [identity EXCEPT ![signin[s].owner] = challenge[c].email]
  /\ signin' = [OthersRevoked(s) EXCEPT ![s].proof = c, ![s].code = code]
  /\ challenge' = [Consumed(c) EXCEPT ![c].change = "COMPLETED"]
  /\ UNCHANGED link

(*------------------------------- Sessions ---------------------------------*)
(* logoutConsumer, revokeConsumerSession from another device, or the end   *)
(* of its thirty days.                                                     *)
SessionEnds(s) ==
  /\ signin[s].live
  /\ signin' = [signin EXCEPT ![s].live = FALSE]
  /\ UNCHANGED <<challenge, identity, link>>

RevokeOthers(s) ==
  /\ signin[s].live
  /\ signin' = OthersRevoked(s)
  /\ UNCHANGED <<challenge, identity, link>>

AccessNext ==
  \/ RequestCode
  \/ \E c \in DOMAIN challenge :
       \/ CodeSent(c) \/ SendFailed(c) \/ SenderKilled(c) \/ ResendCode(c) \/ CodeResent(c)
       \/ ChangeCodeSent(c) \/ RecordFailedAttempt(c)
       \/ \E code \in 1..challenge[c].code :
            VerifyCode(c, code) \/ \E s \in DOMAIN signin : ConfirmEmailChange(c, s, code)
  \/ \E s \in DOMAIN signin : RequestEmailChange(s) \/ SessionEnds(s) \/ RevokeOthers(s)

AccessSpec == AccessInit /\ [][AccessNext]_accessVars

-----------------------------------------------------------------------------
(* Access follows from what was proved, though either confirmation takes   *)
(* the token of any challenge that it finds. A device is signed in only as *)
(* the identity that has the address of the challenge which proved it      *)
(* last, so that a change of address signs the others out whatever is      *)
(* under way, and that challenge was consumed with the code it had then; a *)
(* challenge is used once, to sign one device in or to complete its change *)
(* and never for both; an identity has one customer, one address of its    *)
(* own and a limited number of devices.                                    *)
AccessIsProved ==
  /\ \A s \in DOMAIN signin :
       LET proof == challenge[signin[s].proof]
       IN  /\ signin[s].live => identity[signin[s].owner] = proof.email
           /\ proof.status = "VERIFIED" /\ signin[s].code = proof.code
  /\ \A c \in DOMAIN challenge :
       /\ challenge[c].change = "COMPLETED" => challenge[c].status = "VERIFIED"
       /\ Cardinality({s \in DOMAIN signin : signin[s].from = c})
            = IF challenge[c].status = "VERIFIED" /\ challenge[c].change # "COMPLETED" THEN 1 ELSE 0
  /\ \A i \in DOMAIN identity :
       /\ Holders(identity[i]) = {i}
       /\ Cardinality({k \in Customers : link[k] = i}) <= 1
       /\ Cardinality({s \in DOMAIN signin : signin[s].live /\ signin[s].owner = i}) <= MaxActive
=============================================================================
