--------------------------- MODULE CalendarProofs ---------------------------
(***************************************************************************)
(* check_conflicts is right for all times: the three conditions of the     *)
(* query together say that two slots overlap.  And get_available_slots     *)
(* finds the gaps of every day, which can be booked.                       *)
(***************************************************************************)
EXTENDS CalendarSlots, TLAPS

(***************************************************************************)
(* No overlap is missed, not even with a slot that ends before it starts   *)
(* (such a slot overlaps nothing).                                         *)
(***************************************************************************)
LEMMA OverlapIsConflict ==
  ASSUME NEW a, NEW b,
         a.from \in Int, a.to \in Int, b.from \in Int, b.to \in Int,
         Overlap(a, b)
  PROVE  Conflict(a, b)
  BY DEF Overlap, Conflict

(***************************************************************************)
(* Between proper slots nothing else is reported.                          *)
(***************************************************************************)
LEMMA ConflictIsOverlap ==
  ASSUME NEW a, NEW b,
         a.from \in Int, a.to \in Int, b.from \in Int, b.to \in Int,
         a.from < a.to, b.from < b.to, Conflict(a, b)
  PROVE  Overlap(a, b)
  BY DEF Overlap, Conflict

-----------------------------------------------------------------------------
(* Types *)

LEMMA OfTheDayTyped ==
  ASSUME TypeOK
  PROVE  /\ \A apt \in agenda : apt.from \in Int /\ apt.to \in Int
         /\ OfTheDay \subseteq agenda
         /\ \A apt \in OfTheDay : DayStart <= apt.from /\ apt.from < DayEnd
BY TimesAssumption DEF TypeOK, Appointment, OfTheDay

LEMMA OfferTyped ==
  ASSUME NEW now \in Int, NEW limit \in Int, NEW duration \in Int
  PROVE  Offer(now, limit, duration) \subseteq Slot
BY DEF Offer, Least, Slot

\* What is offered of the time between now and limit.
LEMMA OfferIs ==
  ASSUME NEW now \in Int, NEW limit \in Int, NEW duration \in Int, duration > 0
  PROVE  Offer(now, limit, duration) =
           IF now + duration <= limit THEN {[from |-> now, to |-> now + duration]} ELSE {}
BY DEF Offer, Least

LEMMA TypeStep == TypeOK /\ [Next]_vars => TypeOK'
<1> SUFFICES ASSUME TypeOK, [Next]_vars PROVE TypeOK'
  OBVIOUS
<1>1. /\ call \in Calls /\ call.duration \in Int /\ call.now \in Int
      /\ call.left \subseteq Appointment /\ call.found \subseteq Slot
  BY DEF TypeOK, Calls
<1>2. ASSUME NEW apt \in Appointment, Book(apt) PROVE TypeOK'
  BY <1>2 DEF TypeOK, Book
<1>3. ASSUME NEW duration \in Durations, Query(duration) PROVE TypeOK'
  <2>1. OfTheDay \subseteq Appointment /\ duration \in Int /\ DayStart \in Int
    BY OfTheDayTyped, TimesAssumption DEF TypeOK
  <2> QED  BY <1>3, <2>1 DEF TypeOK, Query, Calls
<1>4. ASSUME NEW apt \in call.left, Pass(apt) PROVE TypeOK'
  <2>1. apt.from \in Int /\ apt.to \in Int
    BY <1>1, TimesAssumption DEF Appointment
  <2>2. /\ Offer(call.now, apt.from, call.duration) \subseteq Slot
        /\ Greatest(call.now, apt.to) \in Int
    BY <1>1, <2>1, OfferTyped DEF Greatest
  <2> QED  BY <1>1, <1>4, <2>2 DEF TypeOK, Pass, Calls
<1>5. CASE Finish
  <2>1. Offer(call.now, DayEnd, call.duration) \subseteq Slot
    BY <1>1, OfferTyped, TimesAssumption
  <2> QED  BY <1>1, <1>5, <2>1 DEF TypeOK, Finish, Calls
<1>6. CASE Answer
  BY <1>6 DEF TypeOK, Answer, Idle, Calls
<1>7. CASE UNCHANGED vars
  BY <1>7 DEF vars, TypeOK
<1> QED  BY <1>2, <1>3, <1>4, <1>5, <1>6, <1>7 DEF Next

(***************************************************************************)
(* Agendas hold slots with integer times, and so do the answers.           *)
(***************************************************************************)
THEOREM AgendaTyped == Spec => []TypeOK
<1>1. Init => TypeOK
  BY DEF Init, TypeOK, Idle, Calls
<1>. QED
  BY <1>1, TypeStep, PTL DEF Spec

(***************************************************************************)
(* check_conflicts agrees with the overlap of slots in every agenda, of    *)
(* any size and with any times (calendar_service.py, check_conflicts).     *)
(***************************************************************************)
THEOREM ConflictsAreOverlaps == Spec => []ConflictMeansOverlap
<1>1. TypeOK => ConflictMeansOverlap
  <2>. SUFFICES ASSUME TypeOK, NEW a \in agenda, NEW b \in agenda
                PROVE  /\ Overlap(a, b) => Conflict(a, b)
                       /\ Proper(a) /\ Proper(b) /\ Conflict(a, b) => Overlap(a, b)
    BY DEF ConflictMeansOverlap
  <2>1. a.from \in Int /\ a.to \in Int /\ b.from \in Int /\ b.to \in Int
    BY TimesAssumption DEF TypeOK, Appointment
  <2>2. Overlap(a, b) => Conflict(a, b)
    BY <2>1, OverlapIsConflict
  <2>3. ASSUME Proper(a), Proper(b), Conflict(a, b)
        PROVE  Overlap(a, b)
    BY <2>1, <2>3, ConflictIsOverlap DEF Proper
  <2>. QED
    BY <2>2, <2>3
<1>. QED
  BY <1>1, AgendaTyped, PTL

-----------------------------------------------------------------------------
(***************************************************************************)
(* The pass over a day.  The time it has come to is where a gap may start, *)
(* nothing that it has passed lasts longer, and what it has found are the  *)
(* gaps before.                                                            *)
(***************************************************************************)
Sensible == call.duration > 0 /\ AllProper

PassInv ==
  call.at = "pass" /\ Sensible =>
    /\ call.left \subseteq OfTheDay
    /\ call.now \in GapStarts /\ DayStart <= call.now
    /\ \A apt \in OfTheDay \ call.left : apt.to <= call.now
    /\ call.found = {slot \in Gaps(call.duration) : slot.from < call.now}

IInv == TypeOK /\ PassInv /\ OneOfferPerGap

LEMMA GapIs ==
  ASSUME NEW duration, NEW slot
  PROVE  slot \in Gaps(duration) <=>
           \E t \in GapStarts :
             /\ slot = [from |-> t, to |-> t + duration]
             /\ t + duration <= DayEnd
             /\ \A apt \in OfTheDay : ~Overlap(slot, apt)
BY DEF Gaps

\* Gaps start with the day or later.
LEMMA GapStartsTyped ==
  ASSUME TypeOK, AllProper
  PROVE  GapStarts \subseteq Int /\ \A t \in GapStarts : DayStart <= t
<1>1. \A apt \in OfTheDay : apt.to \in Int /\ DayStart <= apt.to
  BY OfTheDayTyped, TimesAssumption DEF AllProper, Proper
<1> QED  BY <1>1, TimesAssumption DEF GapStarts

(***************************************************************************)
(* One round of the loop: what is offered before the next appointment is   *)
(* the gap between the time come to and the time after it, if there is one *)
(* (only one can be: all that starts later ends later still).              *)
(***************************************************************************)
LEMMA RoundFindsGap ==
  ASSUME TypeOK, PassInv, call.at = "pass", Sensible, NEW apt \in call.left, IsNext(apt)
  PROVE  Offer(call.now, apt.from, call.duration) =
           {slot \in Gaps(call.duration) :
              call.now <= slot.from /\ slot.from < Greatest(call.now, apt.to)}
<1> DEFINE d == call.duration
           now == call.now
           gap == [from |-> now, to |-> now + d]
<1>1. /\ d \in Int /\ d > 0 /\ now \in Int /\ now \in GapStarts /\ DayStart <= now
      /\ call.left \subseteq OfTheDay
      /\ \A other \in OfTheDay \ call.left : other.to <= now
  BY DEF TypeOK, Calls, PassInv, Sensible
<1>2. \A other \in OfTheDay : other.from \in Int /\ other.to \in Int /\ other.from < other.to
  BY OfTheDayTyped DEF Sensible, AllProper, Proper
<1>3. /\ apt \in OfTheDay /\ apt.from < DayEnd
      /\ \A other \in call.left : apt.from <= other.from
  BY <1>1, OfTheDayTyped DEF IsNext
<1>4. Offer(now, apt.from, d) = IF now + d <= apt.from THEN {gap} ELSE {}
  BY <1>1, <1>2, <1>3, OfferIs
<1> HIDE DEF d, now
<1>5. ASSUME now + d <= apt.from
      PROVE  gap \in Gaps(d) /\ now < Greatest(now, apt.to)
  <2>1. \A other \in OfTheDay : ~Overlap(gap, other)
    <3> SUFFICES ASSUME NEW other \in OfTheDay PROVE ~Overlap(gap, other)
      OBVIOUS
    <3>1. other.to <= now \/ now + d <= other.from
      BY <1>1, <1>2, <1>3, <1>5
    <3> QED  BY <1>1, <1>2, <3>1 DEF Overlap
  <2>2. now + d <= DayEnd
    BY <1>1, <1>2, <1>3, <1>5, TimesAssumption
  <2> QED  BY <1>1, <1>2, <1>3, <1>5, <2>1, <2>2, GapIs DEF Greatest
<1>6. ASSUME NEW slot \in Gaps(d), now <= slot.from, slot.from < Greatest(now, apt.to)
      PROVE  slot = gap /\ now + d <= apt.from
  <2>1. PICK t \in GapStarts :
          /\ slot = [from |-> t, to |-> t + d]
          /\ \A other \in OfTheDay : ~Overlap(slot, other)
    BY GapIs
  <2>2. t \in Int /\ slot.from = t /\ slot.to = t + d
    BY <2>1, GapStartsTyped DEF Sensible
  <2>3. now <= t /\ t < apt.to
    BY <1>1, <1>2, <1>3, <1>6, <2>2 DEF Greatest
  <2>4. t + d <= apt.from
    BY <1>1, <1>2, <1>3, <2>1, <2>2, <2>3 DEF Overlap
  <2>5. t = now
    <3>1. CASE t = DayStart
      BY <1>1, <2>2, <2>3, <3>1, TimesAssumption
    <3>2. ASSUME NEW other \in OfTheDay, t = other.to PROVE t = now
      <4>1. other \notin call.left
        BY <1>1, <1>2, <1>3, <2>2, <2>4, <3>2
      <4> QED  BY <1>1, <1>2, <2>2, <2>3, <3>2, <4>1
    <3> QED  BY <3>1, <3>2 DEF GapStarts
  <2> QED  BY <2>1, <2>4, <2>5
<1> HIDE DEF gap
<1>7. gap.from = now
  BY DEF gap
<1>8. CASE now + d <= apt.from
  BY <1>1, <1>4, <1>5, <1>6, <1>7, <1>8 DEF d, now
<1>9. CASE ~(now + d <= apt.from)
  BY <1>4, <1>6, <1>9 DEF d, now
<1> QED  BY <1>8, <1>9

\* The rest of the day, when all its appointments are passed.
LEMMA RestIsGap ==
  ASSUME TypeOK, PassInv, call.at = "pass", Sensible, call.left = {}
  PROVE  Offer(call.now, DayEnd, call.duration) =
           {slot \in Gaps(call.duration) : call.now <= slot.from}
<1> DEFINE d == call.duration
           now == call.now
           gap == [from |-> now, to |-> now + d]
<1>1. /\ d \in Int /\ d > 0 /\ now \in Int /\ now \in GapStarts /\ DayStart <= now
      /\ \A other \in OfTheDay : other.to <= now
  BY DEF TypeOK, Calls, PassInv, Sensible
<1>2. \A other \in OfTheDay : other.from \in Int /\ other.to \in Int
  BY OfTheDayTyped
<1>3. Offer(now, DayEnd, d) = IF now + d <= DayEnd THEN {gap} ELSE {}
  BY <1>1, OfferIs, TimesAssumption
<1>4. ASSUME now + d <= DayEnd PROVE gap \in Gaps(d)
  <2>1. \A other \in OfTheDay : ~Overlap(gap, other)
    BY <1>1, <1>2 DEF Overlap
  <2> QED  BY <1>1, <1>4, <2>1, GapIs
<1>5. ASSUME NEW slot \in Gaps(d), now <= slot.from
      PROVE  slot = gap /\ now + d <= DayEnd
  <2>1. PICK t \in GapStarts : slot = [from |-> t, to |-> t + d] /\ t + d <= DayEnd
    BY GapIs
  <2>2. t \in Int /\ slot.from = t
    BY <2>1, GapStartsTyped DEF Sensible
  <2>3. t <= now
    BY <1>1 DEF GapStarts
  <2> QED  BY <1>1, <1>5, <2>1, <2>2, <2>3
<1>6. gap.from = now
  OBVIOUS
<1> HIDE DEF d, now, gap
<1> QED  BY <1>1, <1>3, <1>4, <1>5, <1>6 DEF d, now

LEMMA IInvStep == IInv /\ [Next]_vars => IInv'
<1> SUFFICES ASSUME IInv, [Next]_vars PROVE IInv'
  OBVIOUS
<1>1. TypeOK'
  BY TypeStep DEF IInv
<1>2. ASSUME agenda' = agenda
      PROVE  OfTheDay' = OfTheDay /\ GapStarts' = GapStarts /\ (AllProper' <=> AllProper)
  BY <1>2 DEF OfTheDay, GapStarts, AllProper
<1>3. ASSUME call' = Idle PROVE IInv'
  BY <1>1, <1>3 DEF IInv, PassInv, OneOfferPerGap, Idle
<1>4. ASSUME NEW apt \in Appointment, Book(apt) PROVE IInv'
  BY <1>3, <1>4 DEF Book
<1>5. ASSUME NEW duration \in Durations, Query(duration) PROVE IInv'
  <2>1. /\ call'.at = "pass" /\ call'.duration = duration /\ call'.left = OfTheDay
        /\ call'.now = DayStart /\ call'.found = {} /\ agenda' = agenda
    BY <1>5 DEF Query
  <2>2. ASSUME Sensible'
        PROVE  \A slot \in Gaps(duration)' : ~(slot.from < DayStart)
    <3>1. TypeOK /\ AllProper
      BY <1>2, <2>1, <2>2 DEF Sensible, IInv
    <3>2. Gaps(duration)' = Gaps(duration)
      BY <1>2, <2>1 DEF Gaps
    <3> QED  BY <3>1, <3>2, GapIs, GapStartsTyped, TimesAssumption
  <2>3. PassInv'
    BY <1>2, <2>1, <2>2, TimesAssumption DEF PassInv, GapStarts, Gaps
  <2> QED  BY <1>1, <2>1, <2>3 DEF IInv, OneOfferPerGap
<1>6. ASSUME NEW apt \in call.left, Pass(apt) PROVE IInv'
  <2>1. /\ call.at = "pass" /\ IsNext(apt) /\ agenda' = agenda
        /\ call'.at = "pass" /\ call'.duration = call.duration
        /\ call'.left = call.left \ {apt}
        /\ call'.found = call.found \cup Offer(call.now, apt.from, call.duration)
        /\ call'.now = Greatest(call.now, apt.to)
    BY <1>6 DEF Pass, IInv, TypeOK, Calls
  <2>2. ASSUME Sensible'
        PROVE  /\ call'.left \subseteq OfTheDay
               /\ call'.now \in GapStarts /\ DayStart <= call'.now
               /\ \A other \in OfTheDay \ call'.left : other.to <= call'.now
               /\ call'.found = {slot \in Gaps(call.duration) : slot.from < call'.now}
    <3>1. Sensible
      BY <1>2, <2>1, <2>2 DEF Sensible
    <3>2. /\ call.left \subseteq OfTheDay
          /\ call.now \in GapStarts /\ DayStart <= call.now
          /\ \A other \in OfTheDay \ call.left : other.to <= call.now
          /\ call.found = {slot \in Gaps(call.duration) : slot.from < call.now}
      BY <2>1, <3>1 DEF IInv, PassInv
    <3>3. /\ call.now \in Int /\ \A other \in OfTheDay : other.to \in Int
          /\ call.duration \in Int /\ DayStart \in Int
      BY OfTheDayTyped, TimesAssumption DEF IInv, TypeOK, Calls
    <3>4. apt \in OfTheDay /\ apt.to \in GapStarts
      BY <3>2 DEF GapStarts
    <3>5. call'.now \in GapStarts /\ call.now <= call'.now /\ apt.to <= call'.now
      BY <2>1, <3>2, <3>3, <3>4 DEF Greatest
    <3>6. \A slot \in Gaps(call.duration) : slot.from \in Int
      BY <3>1, GapIs, GapStartsTyped DEF IInv, Sensible
    <3>7. call'.now \in Int
      BY <1>1 DEF TypeOK, Calls
    <3>8. Offer(call.now, apt.from, call.duration) =
            {slot \in Gaps(call.duration) : call.now <= slot.from /\ slot.from < call'.now}
      BY <2>1, <3>1, RoundFindsGap DEF IInv
    <3>9. call'.found = {slot \in Gaps(call.duration) : slot.from < call'.now}
      BY <2>1, <3>2, <3>3, <3>5, <3>6, <3>7, <3>8
    <3> QED  BY <2>1, <3>2, <3>3, <3>4, <3>5, <3>7, <3>9
  <2>3. Gaps(call.duration)' = Gaps(call.duration)
    BY <1>2, <2>1 DEF Gaps
  <2>4. PassInv'
    BY <1>2, <2>1, <2>2, <2>3 DEF PassInv
  <2> QED  BY <1>1, <2>1, <2>4 DEF IInv, OneOfferPerGap
<1>7. CASE Finish
  <2>1. /\ call.at = "pass" /\ call.left = {} /\ agenda' = agenda
        /\ call'.at = "done" /\ call'.duration = call.duration
        /\ call'.found = call.found \cup Offer(call.now, DayEnd, call.duration)
    BY <1>7 DEF Finish, IInv, TypeOK, Calls
  <2>2. ASSUME Sensible' PROVE call'.found = Gaps(call.duration)
    <3>1. Sensible
      BY <1>2, <2>1, <2>2 DEF Sensible
    <3>2. /\ call.found = {slot \in Gaps(call.duration) : slot.from < call.now}
          /\ call.now \in Int
      BY <2>1, <3>1 DEF IInv, PassInv, TypeOK, Calls
    <3>3. Offer(call.now, DayEnd, call.duration) =
            {slot \in Gaps(call.duration) : call.now <= slot.from}
      BY <2>1, <3>1, RestIsGap DEF IInv
    <3>4. \A slot \in Gaps(call.duration) : slot.from \in Int
      BY <3>1, GapIs, GapStartsTyped DEF IInv, Sensible
    <3> QED  BY <2>1, <3>2, <3>3, <3>4
  <2>3. Gaps(call.duration)' = Gaps(call.duration)
    BY <1>2, <2>1 DEF Gaps
  <2>4. OneOfferPerGap'
    BY <2>1, <2>2, <2>3 DEF OneOfferPerGap, Sensible
  <2> QED  BY <1>1, <2>1, <2>4 DEF IInv, PassInv
<1>8. CASE Answer
  BY <1>3, <1>8 DEF Answer
<1>9. CASE UNCHANGED vars
  BY <1>1, <1>9 DEF vars, IInv, PassInv, OneOfferPerGap, Sensible, AllProper, OfTheDay,
     GapStarts, Gaps
<1> QED  BY <1>4, <1>5, <1>6, <1>7, <1>8, <1>9 DEF Next

LEMMA IInvInit == Init => IInv
BY DEF Init, IInv, TypeOK, Idle, Calls, PassInv, OneOfferPerGap

(***************************************************************************)
(* For any agenda of proper appointments, any day and any positive         *)
(* duration the slots that get_available_slots answers are the gaps that   *)
(* are long enough, each once, in whatever order appointments that start   *)
(* together are passed.                                                    *)
(***************************************************************************)
THEOREM OffersAreTheGaps == Spec => []OneOfferPerGap
<1>1. IInv => OneOfferPerGap
  BY DEF IInv
<1> QED  BY IInvInit, IInvStep, <1>1, PTL DEF Spec

(***************************************************************************)
(* check_conflicts finds nothing against a slot that was offered, if no    *)
(* appointment ends before it starts or runs into the day from before.     *)
(***************************************************************************)
THEOREM OffersCanBeBooked == Spec => []OfferedSlotsAreBookable
<1>1. IInv => OfferedSlotsAreBookable
  <2> SUFFICES ASSUME IInv, call.at = "done", call.duration > 0, AllProper, NoEarlyStart,
                      NEW slot \in call.found, NEW apt \in agenda,
                      apt.status \notin Final, Conflict(slot, apt)
               PROVE  FALSE
    BY DEF OfferedSlotsAreBookable, Conflicts
  <2>1. slot \in Gaps(call.duration) /\ call.duration \in Int
    BY DEF IInv, OneOfferPerGap, TypeOK, Calls
  <2>2. PICK t \in GapStarts :
          /\ slot = [from |-> t, to |-> t + call.duration]
          /\ t + call.duration <= DayEnd
          /\ \A other \in OfTheDay : ~Overlap(slot, other)
    BY <2>1, GapIs
  <2>3. t \in Int /\ DayStart <= t /\ slot.from = t /\ slot.to = t + call.duration
    BY <2>2, GapStartsTyped DEF IInv
  <2>4. apt.from \in Int /\ apt.to \in Int /\ apt.from < apt.to
    BY OfTheDayTyped DEF IInv, AllProper, Proper
  <2>5. Overlap(slot, apt)
    BY <2>1, <2>3, <2>4, ConflictIsOverlap
  <2>6. apt \notin OfTheDay
    BY <2>2, <2>5
  <2>7. apt.from < DayStart \/ DayEnd <= apt.from
    BY <2>4, <2>6, TimesAssumption DEF OfTheDay, Final
  <2> QED  BY <2>1, <2>2, <2>3, <2>4, <2>5, <2>7, TimesAssumption DEF NoEarlyStart, Overlap
<1> QED  BY IInvInit, IInvStep, <1>1, PTL DEF Spec
=============================================================================
