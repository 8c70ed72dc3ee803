----------------------------- MODULE OfferSchedule -----------------------------
(***************************************************************************)
(* When an offer is active, and the scan that decides whether two offers   *)
(* are ever active together. Dates and minutes are counted, of a week and  *)
(* a day made short; a schedule has at most one first date, one date after *)
(* its last, a set of weekdays (empty for all) and at most one window.     *)
(***************************************************************************)
EXTENDS Integers, FiniteSetsExt

CONSTANTS
  Week,      \* days of a week
  Day,       \* minutes of a day
  LookAhead  \* bound: the dates at which a common moment is looked for

ASSUME ScheduleAssumption == Week \in Nat \ {0} /\ Day \in Nat \ {0} /\ LookAhead \in Nat

(* The scan of two schedules without a first date starts long ago.         *)
Epoch == Week
ScanLimit == 2 * Week + 1

Overnight(s) == \E w \in s.window : w.end < w.start

(* isBaseDateEligible                                                      *)
BaseDateEligible(s, date) ==
  /\ \A first \in s.starts : date >= first
  /\ \A end \in s.ends : date < end
  /\ s.weekdays = {} \/ date % Week \in s.weekdays

(* isOfferScheduleActiveAtLocal: the hours after midnight belong to the    *)
(* date on which the window began.                                         *)
ActiveAt(s, date, minute) ==
  \/ s.window = {} /\ BaseDateEligible(s, date)
  \/ \E w \in s.window :
       \/ w.start < w.end /\ minute \in w.start .. w.end - 1 /\ BaseDateEligible(s, date)
       \/ w.end < w.start /\ minute >= w.start /\ BaseDateEligible(s, date)
       \/ w.end < w.start /\ minute < w.end /\ BaseDateEligible(s, date - 1)

Together(l, r, date) == \E minute \in 0 .. Day - 1 : ActiveAt(l, date, minute) /\ ActiveAt(r, date, minute)

(* Faulty: the night of the last date is forgotten.                        *)
LastDateOnly(s) == s.ends

(* The dates before which a schedule is over, its last night included.     *)
OverBefore(s) == {end + (IF Overnight(s) THEN 1 ELSE 0) : end \in s.ends}

(* offerSchedulesOverlap                                                   *)
SchedulesOverlap(l, r) ==
  LET starts == l.starts \cup r.starts
      ends   == OverBefore(l) \cup OverBefore(r)
      first  == IF starts = {} THEN Epoch ELSE Max(starts)
      days   == IF ends = {} THEN ScanLimit ELSE Min({ScanLimit, Max({0, Min(ends) - first})})
  IN  \E offset \in 0 .. days - 1 : Together(l, r, first + offset)

(* Two offers are refused for overlapping exactly when there is a moment,  *)
(* however far, at which both would be active.                             *)
OverlapIsExact(l, r) == SchedulesOverlap(l, r) <=> \E date \in 1..LookAhead : Together(l, r, date)
=============================================================================
