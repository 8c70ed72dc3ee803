------------------------------ MODULE TillDrafts ------------------------------
(***************************************************************************)
(* An order on hold at the till: one draft that several tills resume,      *)
(* change, hold again, discard or turn into an order. Every write of the   *)
(* draft compares its version; a till saves the draft first and asks for   *)
(* the order next, with the version it was told. The server reads the      *)
(* draft to rebuild the order, and only then opens the transaction that    *)
(* creates it. Answers get lost, and requests arrive late.                 *)
(***************************************************************************)
EXTENDS Integers

CONSTANTS
  Tills,       \* screens of the till
  Intents,     \* what a draft can hold: never a price
  MaxVersion   \* bound: the version of the draft

ASSUME DraftsAssumption == MaxVersion \in Nat

VARIABLES
  draft,       \* the row of the draft
  till,        \* what each till shows
  posRequests, \* orders asked for: a key is the till and the version it saved
  posOrders    \* the orders created from the draft

draftVars == <<draft, till, posRequests, posOrders>>

Versions == 0..MaxVersion
Phases == {"idle", "saved", "waiting", "stuck"}
PosOrder == [till : Tills, version : Versions, intent : Intents]

DraftsTypeOK ==
  /\ draft \in [status : {"NONE", "OPEN", "CONVERTED", "DISCARDED", "EXPIRED"}, version : Versions,
                intent : Intents, due : BOOLEAN, converted : SUBSET PosOrder]
  /\ till \in [Tills -> [active : SUBSET Versions, intent : Intents, phase : Phases]]
  /\ posRequests \subseteq [order : PosOrder, rebuilt : BOOLEAN]
  /\ posOrders \subseteq PosOrder

DraftsInit ==
  /\ \E intent \in Intents :
       /\ draft = [status |-> "NONE", version |-> 0, intent |-> intent, due |-> FALSE, converted |-> {}]
       /\ till = [t \in Tills |-> [active |-> {}, intent |-> intent, phase |-> "idle"]]
  /\ posRequests = {} /\ posOrders = {}

Idle(t) == till[t].phase = "idle"
Usable == draft.status = "OPEN" /\ ~draft.due

(* The compare-and-set of savePosDraft.                                    *)
Saveable(version) == Usable /\ draft.version = version

SavedBy(t) == [draft EXCEPT !.version = @ + 1, !.intent = till[t].intent, !.due = FALSE]
Reset(t) == [till EXCEPT ![t].active = {}, ![t].phase = "idle"]
Stuck(t) == [till EXCEPT ![t].phase = "stuck"]

(*--------------------------------- Tills ---------------------------------*)
EditOrder(t) ==
  \E intent \in Intents \ {till[t].intent} :
    /\ Idle(t)
    /\ till' = [till EXCEPT ![t].intent = intent]
    /\ UNCHANGED <<draft, posRequests, posOrders>>

(* holdOrder: a draft of a new id, or the next version of the one resumed. *)
(* No answer to a save is caught: the till waits for it until it is opened *)
(* again.                                                                  *)
HoldOrder(t) ==
  /\ Idle(t)
  /\ \/ till[t].active = {} /\ draft.status = "NONE"
        /\ draft' = [draft EXCEPT !.status = "OPEN", !.intent = till[t].intent]
     \/ \E version \in till[t].active :
          Saveable(version) /\ version < MaxVersion /\ draft' = SavedBy(t)
  /\ till' \in {Reset(t), Stuck(t)}
  /\ UNCHANGED <<posRequests, posOrders>>

ResumeDraft(t) ==
  /\ Idle(t) /\ Usable
  /\ till' = [till EXCEPT ![t].active = {draft.version}, ![t].intent = draft.intent]
  /\ UNCHANGED <<draft, posRequests, posOrders>>

OpenAgain(t) ==
  /\ till[t].phase # "idle"
  /\ till' = Reset(t)
  /\ UNCHANGED <<draft, posRequests, posOrders>>

(* From a list that is up to date; out of date, it changes nothing.        *)
DiscardDraft ==
  /\ draft.status = "OPEN" /\ draft.version < MaxVersion
  /\ draft' = [draft EXCEPT !.status = "DISCARDED", !.version = @ + 1]
  /\ UNCHANGED <<till, posRequests, posOrders>>

TwelveHours ==
  /\ draft.status = "OPEN" /\ ~draft.due
  /\ draft' = [draft EXCEPT !.due = TRUE]
  /\ UNCHANGED <<till, posRequests, posOrders>>

CleanupExpired ==
  /\ draft.status = "OPEN" /\ draft.due /\ draft.version < MaxVersion
  /\ draft' = [draft EXCEPT !.status = "EXPIRED", !.version = @ + 1]
  /\ UNCHANGED <<till, posRequests, posOrders>>

(* finalizeOrder, as far as the save.                                      *)
SaveToFinalize(t) ==
  \E version \in till[t].active :
    /\ Idle(t) /\ Saveable(version) /\ version < MaxVersion
    /\ draft' = SavedBy(t)
    /\ till' \in {Stuck(t), [till EXCEPT ![t].phase = "saved", ![t].active = {version + 1}]}
    /\ UNCHANGED <<posRequests, posOrders>>

(* Every save gives the attempt another version, and so another key.       *)
AskForOrder(t) ==
  \E version \in till[t].active :
    /\ till[t].phase = "saved"
    /\ till' = [till EXCEPT ![t].phase = "waiting"]
    /\ posRequests' = posRequests \cup
         {[order |-> [till |-> t, version |-> version, intent |-> till[t].intent], rebuilt |-> FALSE]}
    /\ UNCHANGED <<draft, posOrders>>

(* The till is refused or hears nothing, or it is told of its order.       *)
Hear(t) ==
  /\ till[t].phase = "waiting"
  /\ \/ till' = [till EXCEPT ![t].phase = "idle"]
     \/ \E o \in posOrders :
          /\ o.till = t /\ till[t].active = {o.version}
          /\ till' = Reset(t)
  /\ UNCHANGED <<draft, posRequests, posOrders>>

(*-------------------------------- Server ---------------------------------*)
(* rebuildPosOrderInputFromDraft, or a refusal. A converted draft leaves   *)
(* the order as the till sent it.                                          *)
Rebuild(r) ==
  /\ ~r.rebuilt
  /\ posRequests' = (posRequests \ {r}) \cup
       CASE draft.status = "CONVERTED" -> {[r EXCEPT !.rebuilt = TRUE]}
         [] Usable /\ draft.version = r.order.version ->
              {[r EXCEPT !.rebuilt = TRUE, !.order.intent = draft.intent]}
         [] OTHER -> {}
  /\ UNCHANGED <<draft, till, posOrders>>

(* Faulty: a draft in the open is taken at any version.                    *)
DraftAdmitsAny(order) == Usable \/ draft.status = "CONVERTED"

(* The draft under its lock: of a converted one no version is asked.       *)
DraftAdmits(order) == (Usable /\ draft.version = order.version) \/ draft.status = "CONVERTED"

(* createOrder for the till: the order of the same key when there is one,  *)
(* unless the draft became another; and a draft in the open is converted.  *)
CreateFromDraft(r) ==
  LET sameKey == {o \in posOrders : o.till = r.order.till /\ o.version = r.order.version}
      order   == IF sameKey = {} THEN r.order ELSE CHOOSE o \in sameKey : TRUE
      refused == ~DraftAdmits(r.order) \/ (sameKey # {} /\ draft.status = "CONVERTED" /\ draft.converted # sameKey)
      full    == draft.status = "OPEN" /\ draft.version = MaxVersion
  IN  /\ r.rebuilt /\ ~full
      /\ posRequests' = posRequests \ {r}
      /\ posOrders' = IF refused THEN posOrders ELSE posOrders \cup {order}
      /\ draft' = IF refused \/ draft.status = "CONVERTED" THEN draft
                  ELSE [draft EXCEPT !.status = "CONVERTED", !.version = @ + 1, !.converted = {order}]
      /\ UNCHANGED till

DraftsNext ==
  \/ \E t \in Tills :
       \/ EditOrder(t) \/ HoldOrder(t) \/ ResumeDraft(t) \/ SaveToFinalize(t) \/ AskForOrder(t) \/ Hear(t)
       \/ OpenAgain(t)
  \/ DiscardDraft \/ TwelveHours \/ CleanupExpired
  \/ \E r \in posRequests : Rebuild(r) \/ CreateFromDraft(r)

DraftsSpec == DraftsInit /\ [][DraftsNext]_draftVars

(*------------------------------ Properties -------------------------------*)
(* A draft becomes an order only while it is open, as it was saved last by *)
(* whichever till, and no saved version is ordered twice. This does not    *)
(* say that a draft gives one order: OneOrderPerDraft does.                *)
ConvertedAsSaved ==
  /\ posOrders # {} => draft.status = "CONVERTED"
  /\ \A o \in draft.converted : o.intent = draft.intent /\ o.version = draft.version - 1
  /\ \A a, b \in posOrders : a # b => a.version # b.version

(* What docs/operations/pos.md says of a draft: to finalize it creates     *)
(* exactly one order. The code does not keep it: a request for a version   *)
(* saved before, which arrives once the draft is converted, is asked for   *)
(* no version and creates another.                                         *)
OneOrderPerDraft == \A a, b \in posOrders : a = b
=============================================================================
