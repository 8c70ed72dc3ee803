--------------------------- MODULE NotificationFeed ---------------------------
(***************************************************************************)
(* How the board of orders hears of a new order: a page polls the audit    *)
(* rows after its cursor, together with those of the minutes before it,    *)
(* since a row is visible only some time after its createdAt, and leaves   *)
(* out the rows it remembers; the realtime channel tells of the same       *)
(* orders, or does not. Every row here is the creation of an order. What   *)
(* the page remembers has a size and an age.                               *)
(***************************************************************************)
EXTENDS Integers, Sequences, SequencesExt, FiniteSetsExt

CONSTANTS
  MaxRows,     \* bound: audit rows; their ids are in no order of time
  MaxMinute,   \* bound: the last minute
  LoadBy,      \* bound: the minute by which the page is opened
  OverlapTime, \* NOTIFICATION_OVERLAP_MS
  Retention,   \* how long the page remembers a row
  CommitDelay, \* how long a transaction takes at most
  PageSize,    \* NOTIFICATION_SIGNAL_PAGE_SIZE
  SeenLimit,   \* ORDER_NOTIFICATION_SEEN_EVENT_LIMIT
  Window       \* NOTIFICATION_CLIENT_EVENT_WINDOW

ASSUME FeedAssumption ==
  /\ {MaxRows, MaxMinute, LoadBy, OverlapTime, Retention, CommitDelay, PageSize, SeenLimit, Window} \subseteq Nat
  /\ CommitDelay <= OverlapTime /\ 0 < PageSize /\ Window < SeenLimit

VARIABLES
  minute,      \* the time
  rows,        \* audit rows: when created, and whether committed
  page         \* what the page knows

feedVars == <<minute, rows, page>>

Ids == 1..MaxRows
Minutes == 0..MaxMinute

FeedTypeOK ==
  /\ minute \in Minutes
  /\ rows \in [Ids -> SUBSET [at : Minutes, visible : BOOLEAN]]
  /\ page \in [opened : SUBSET Minutes, at : Minutes, id : 0..MaxRows + 1,
               seen : Seq([id : Ids, since : Minutes]), notified : SUBSET Ids, known : SUBSET Ids,
               read : SUBSET Ids, stale : SUBSET Ids, again : SUBSET Minutes,
               more : BOOLEAN, drained : BOOLEAN]
  /\ \A i, j \in DOMAIN page.seen : i < j => page.seen[i].since <= page.seen[j].since

FeedInit ==
  /\ minute = 0 /\ rows = [e \in Ids |-> {}]
  /\ page = [opened |-> {}, at |-> 0, id |-> 0, seen |-> <<>>, notified |-> {}, known |-> {},
             read |-> {}, stale |-> {}, again |-> {}, more |-> FALSE, drained |-> FALSE]

Visible == {e \in Ids : \E r \in rows[e] : r.visible}
At(e) == (CHOOSE r \in rows[e] : TRUE).at
Before(a, b) == At(a) < At(b) \/ (At(a) = At(b) /\ a < b)
ByTime(S) == {es \in SetToSeqs(S) : \A i, j \in DOMAIN es : i < j => Before(es[i], es[j])}
Opened == page.opened # {}
Seen == {page.seen[i].id : i \in DOMAIN page.seen}
Since(from) == {e \in Visible : At(e) >= from}

(*------------------------------- The store -------------------------------*)
CreateRow ==
  \E e \in Ids :
    /\ rows[e] = {}
    /\ rows' = [rows EXCEPT ![e] = {[at |-> minute, visible |-> FALSE]}]
    /\ UNCHANGED <<minute, page>>

CommitRow ==
  \E e \in Ids : \E r \in rows[e] :
    /\ ~r.visible
    /\ rows' = [rows EXCEPT ![e] = {[r EXCEPT !.visible = TRUE]}]
    /\ page' = [page EXCEPT !.drained = FALSE]
    /\ UNCHANGED minute

(* No transaction outlives its limit, and no poll takes a minute.          *)
Tick ==
  /\ minute < MaxMinute
  /\ \A e \in Ids : \A r \in rows[e] : ~r.visible => minute < r.at + CommitDelay
  /\ ~page.more /\ (Opened \/ minute < LoadBy)
  /\ minute' = minute + 1
  /\ UNCHANGED <<rows, page>>

(*------------------------------- The page --------------------------------*)
Newest(s, n) == SubSeq(s, (IF Len(s) > n THEN Len(s) - n + 1 ELSE 1), Len(s))
Remember(es) == [i \in DOMAIN es |-> [id |-> es[i], since |-> minute]]

(* What is too old is forgotten, then what is too much. The rows are in the *)
(* order in which they came, so that the old ones are the first.           *)
Kept(s) ==
  LET young  == {i \in DOMAIN s : s[i].since >= minute - Retention}
      recent == IF young = {} THEN <<>> ELSE SubSeq(s, Min(young), Len(s))
  IN  IF Len(recent) >= SeenLimit THEN Newest(recent, Window) ELSE recent

(* loadOrderNotificationBaseline: what is visible now is on the board, and *)
(* the cursor is after every row of this moment.                           *)
OpenPage ==
  \E recent \in ByTime(Since(minute - OverlapTime)) :
    /\ ~Opened
    /\ page' = [page EXCEPT !.opened = {minute}, !.at = minute, !.id = MaxRows + 1, !.known = Visible,
                            !.seen = Remember(Newest(recent, Min({SeenLimit, Window})))]
    /\ UNCHANGED <<minute, rows>>

AfterCursor == {e \in Visible : At(e) > page.at \/ (At(e) = page.at /\ e > page.id)}

(* Faulty: what became visible late is not asked for.                      *)
AskedForOnce == AfterCursor

(* The rows that a poll asks for.                                          *)
AskedFor == AfterCursor \cup (IF Len(page.seen) < SeenLimit THEN Since(page.at - OverlapTime) ELSE {})

(* collectOrderSignals rings for an order once.                            *)
Rung(es) == page.notified \cup es

FirstPage(found) == SubSeq(found, 1, IF Len(found) > PageSize THEN PageSize ELSE Len(found))

(* One page of a poll: the cursor moves unless the page ends before it. A  *)
(* poll that moves it no more reads the same rows again if it forgets them.*)
PollPage ==
  \E found \in ByTime(AskedFor \ Seen) :
    LET more  == Len(found) > PageSize
        taken == FirstPage(found)
        es    == ToSet(taken)
        next  == {e \in es \cap AfterCursor : e = Last(taken)}
    IN  /\ Opened
        /\ page' = [page EXCEPT !.at = IF next = {} THEN @ ELSE At(Last(taken)),
                                !.id = IF next = {} THEN @ ELSE Last(taken),
                                !.seen = Kept(page.seen \o Remember(taken)),
                                !.notified = Rung(es), !.stale = @ \cup (es \cap page.known),
                                !.read = IF more /\ next = {} THEN @ \cup es ELSE {},
                                !.again = IF es \cap page.read = {} THEN {} ELSE {page.at},
                                !.more = more, !.drained = ~more]
        /\ UNCHANGED <<minute, rows>>

(* new-order on the realtime channel; it may never come.                   *)
HearOrder ==
  \E e \in Visible :
    /\ Opened
    /\ page' = [page EXCEPT !.notified = Rung({e})]
    /\ UNCHANGED <<minute, rows>>

FeedNext == CreateRow \/ CommitRow \/ Tick \/ OpenPage \/ PollPage \/ HearOrder

FeedSpec == FeedInit /\ [][FeedNext]_feedVars

(*------------------------------ Properties -------------------------------*)
Crowded(from) == Cardinality(Since(from - OverlapTime)) > Window

(* However late its row becomes visible and whatever the channel loses, a  *)
(* new order has rung when a poll comes to an end; an order that was on    *)
(* the board when the page was opened is not polled as new unless it is    *)
(* forgotten: there are more rows than the page remembers, or the page is  *)
(* open for longer than it remembers them. And a poll goes round in        *)
(* circles only when more rows than it remembers are asked for again.      *)
NewOrdersRing ==
  /\ page.drained => Visible \subseteq page.notified \cup page.known
  /\ \A at \in page.again : Crowded(at)
  /\ page.stale # {} =>
       \E opened \in page.opened : minute > opened + Retention \/ Crowded(opened)
=============================================================================
