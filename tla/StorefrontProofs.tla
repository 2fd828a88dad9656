------------------------- MODULE StorefrontProofs -------------------------
(***************************************************************************)
(* What the storefront shows, for all times an event may have, any number  *)
(* of tickets and any instants at which the clock is read.                 *)
(*                                                                         *)
(* Three facts carry the argument: getEventStage answers the stage of one  *)
(* of the instants it read (StageIsOfAReading); stages go forward in time  *)
(* (StagesGoForward); and until a late write hits the event, the row a     *)
(* request holds is the event's own once it is ACTIVE (InFlight), so that  *)
(* what a request holds never overtakes the event.  For the counters: once *)
(* an event was put on sale, no ticket joins those that make up a total    *)
(* but the overtaken ones (Counted).                                       *)
(***************************************************************************)
EXTENDS Storefront, FiniteSetTheorems, TLAPS

RankAt(e, t) == Rank(InstantStage(e, t))

\* Until a late write, no client has been shown more than what the event has
\* come to.
ShownIsPast == ~late => shown <= RankAt(event, now)

Counting == {"event.total", "event.left", "event.resale"}

\* Until a late write, a request holds the event itself or a row from before it
\* was published, with the same times unless that was a draft.
InFlight ==
    call.pc # "idle" =>
      /\ call.pc \in Counting => call.row.status # "DRAFT"
      /\ ~late =>
           /\ call.row.status = "ACTIVE" => event = call.row
           /\ call.row.status # "DRAFT" =>
                event.status # "DRAFT" /\ event.times = call.row.times
           /\ call.pc \in Counting \cup {"own.seats"} =>
                shown <= RankAt(call.row, now)

\* An event, or a row of it in flight, that is ACTIVE was published.
LaunchKnown ==
    /\ event.status = "ACTIVE" => launched
    /\ call.pc # "idle" /\ call.row.status = "ACTIVE" => launched

\* Ordered tickets stay in circulation unless the organizer's edit overtook them.
OrderedCirculate ==
    \A t \in ordered \ overtaken : tickets[t] \in {"NEW"} \cup Circulating

\* The tickets counted that no edit has overtaken.
Steady(S) == {t \in Ticket \ overtaken : tickets[t] \in S}

\* A request's total is no less than what is counted now without the overtaken.
Counted ==
    call.pc # "idle" /\ call.row.status = "ACTIVE" =>
      /\ call.pc = "event.left" => Cardinality(Steady(EventTotal)) <= call.total
      /\ call.pc = "event.resale" =>
           call.part <= call.total + Cardinality(overtaken)
      /\ call.pc = "types.sold" => Cardinality(Steady(TypeTotal)) <= call.total

AnswerFits ==
    StageOfAnInstant /\ CheckableAgrees /\ OnSaleIsListed /\ CountsAddUp

IInv ==
    /\ TypeOK
    /\ ShownIsPast
    /\ InFlight
    /\ LaunchKnown
    /\ OrderedCirculate
    /\ Counted
    /\ AnswerFits

-----------------------------------------------------------------------------
(* Stages and clocks *)

\* The fields of a row are integers, whatever an organizer chose.
LEMMA RowFields ==
    ASSUME NEW e \in EventRow
    PROVE  /\ e.status \in {"DRAFT", "PREVIEW", "ACTIVE"}
           /\ e.times.release \in Int /\ e.times.start \in Int
           /\ e.times.end \in Int /\ e.times.stop \in Int
           /\ e.times.checkIn \in Int
           /\ SaleEnd(e.times) \in Int
  <1>1. e.times \in Times /\ e.status \in {"DRAFT", "PREVIEW", "ACTIVE"}
    BY ConstantsAssumption DEF EventRow
  <1>. QED BY <1>1 DEF Times, SaleEnd

LEMMA BlankRow == Blank \in EventRow
  <1>1. PICK x \in Schedule : TRUE
    BY ConstantsAssumption
  <1>2. [status |-> "DRAFT", times |-> x] \in EventRow
    BY <1>1 DEF EventRow
  <1>. QED BY <1>2 DEF Blank

\* The clock a request reads never goes back.
LEMMA ReadingsAreOrdered ==
    ASSUME NEW c \in Readings
    PROVE  /\ \A i \in 1 .. 10 : c[i] \in Int /\ c[i] \in 0 .. Horizon
           /\ \A i, k \in 1 .. 10 : i <= k => c[i] <= c[k]
  <1>1. \A i \in 1 .. 10 : c[i] \in Int /\ c[i] \in 0 .. Horizon
    BY ConstantsAssumption DEF Readings
  <1>2. /\ c[1] <= c[2] /\ c[2] <= c[3] /\ c[3] <= c[4] /\ c[4] <= c[5]
        /\ c[5] <= c[6] /\ c[6] <= c[7] /\ c[7] <= c[8] /\ c[8] <= c[9]
        /\ c[9] <= c[10]
    BY DEF Readings
  <1>3. ASSUME NEW i \in 1 .. 10, NEW k \in 1 .. 10, i <= k
        PROVE  c[i] <= c[k]
    <2>1. /\ c[1] \in Int /\ c[2] \in Int /\ c[3] \in Int /\ c[4] \in Int
          /\ c[5] \in Int /\ c[6] \in Int /\ c[7] \in Int /\ c[8] \in Int
          /\ c[9] \in Int /\ c[10] \in Int
      BY <1>1
    <2>. QED BY <1>2, <1>3, <2>1
  <1>. QED BY <1>1, <1>3

\* Whatever the order of the four times and whatever passes between the eight
\* readings, the stage answered is that of one of them.
LEMMA StageIsOfAReading ==
    ASSUME NEW e \in EventRow, NEW c \in Readings
    PROVE  \E i \in 1 .. 10 : GetEventStage(e, c) = InstantStage(e, c[i])
  <1>. DEFINE x == e.times
  <1>1. /\ x.release \in Int /\ x.start \in Int /\ x.end \in Int
        /\ SaleEnd(x) \in Int
    BY RowFields
  <1>2. \A i \in 1 .. 10 : c[i] \in Int
    BY ReadingsAreOrdered
  <1>3. c[1] <= c[2] /\ c[2] <= c[3] /\ c[3] <= c[4] /\ c[4] <= c[5]
        /\ c[5] <= c[6] /\ c[6] <= c[7] /\ c[7] <= c[8]
    BY ReadingsAreOrdered
  <1>. HIDE DEF x
  <1>4. CASE e.status # "ACTIVE"
    BY <1>4 DEF GetEventStage, InstantStage
  <1>5. CASE e.status = "ACTIVE" /\ c[1] < x.release
    <2>1. GetEventStage(e, c) = "PREVIEW" /\ InstantStage(e, c[1]) = "PREVIEW"
      BY <1>5 DEF GetEventStage, InstantStage, x
    <2>. QED BY <2>1
  <1>6. CASE e.status = "ACTIVE" /\ ~(c[1] < x.release) /\ c[2] < SaleEnd(x)
    <2>1. ~(c[2] < x.release) /\ c[3] >= x.release
      BY <1>1, <1>2, <1>3, <1>6
    <2>2. GetEventStage(e, c) = "ONSALE" /\ InstantStage(e, c[2]) = "ONSALE"
      BY <1>6, <2>1 DEF GetEventStage, InstantStage, x
    <2>. QED BY <2>2
  <1>7. CASE /\ e.status = "ACTIVE" /\ ~(c[1] < x.release)
             /\ ~(c[2] < SaleEnd(x)) /\ c[5] < x.start
    <2>1. ~(c[5] < x.release) /\ ~(c[5] < SaleEnd(x)) /\ c[4] >= SaleEnd(x)
      BY <1>1, <1>2, <1>3, <1>7
    <2>2. /\ GetEventStage(e, c) = "SALE_ENDED"
          /\ InstantStage(e, c[5]) = "SALE_ENDED"
      BY <1>7, <2>1 DEF GetEventStage, InstantStage, x
    <2>. QED BY <2>2
  <1>8. CASE /\ e.status = "ACTIVE" /\ ~(c[1] < x.release)
             /\ ~(c[2] < SaleEnd(x)) /\ ~(c[5] < x.start) /\ c[7] < x.end
    <2>1. /\ ~(c[7] < x.release) /\ ~(c[7] < SaleEnd(x)) /\ ~(c[7] < x.start)
          /\ c[6] >= x.start
      BY <1>1, <1>2, <1>3, <1>8
    <2>2. GetEventStage(e, c) = "LIVE" /\ InstantStage(e, c[7]) = "LIVE"
      BY <1>8, <2>1 DEF GetEventStage, InstantStage, x
    <2>. QED BY <2>2
  <1>9. CASE /\ e.status = "ACTIVE" /\ ~(c[1] < x.release)
             /\ ~(c[2] < SaleEnd(x)) /\ ~(c[5] < x.start) /\ ~(c[7] < x.end)
    <2>1. /\ ~(c[8] < x.release) /\ ~(c[8] < SaleEnd(x)) /\ ~(c[8] < x.start)
          /\ ~(c[8] < x.end) /\ c[8] >= x.end
      BY <1>1, <1>2, <1>3, <1>9
    <2>2. GetEventStage(e, c) = "ENDED" /\ InstantStage(e, c[8]) = "ENDED"
      BY <1>9, <2>1 DEF GetEventStage, InstantStage, x
    <2>. QED BY <2>2
  <1>. QED BY <1>4, <1>5, <1>6, <1>7, <1>8, <1>9

\* A stage of a row has one of six ranks; a row no longer a draft is past 0.
LEMMA RankBounds ==
    ASSUME NEW e \in EventRow, NEW t \in Int
    PROVE  /\ InstantStage(e, t) \in Stages \ {"none"}
           /\ RankAt(e, t) \in 0 .. 5
           /\ e.status = "DRAFT" => RankAt(e, t) = 0
           /\ e.status = "PREVIEW" => RankAt(e, t) = 1
           /\ e.status = "ACTIVE" => RankAt(e, t) >= 1
  BY RowFields DEF InstantStage, Stages, RankAt, Rank

\* An event that nobody edits goes through its stages in their order.
LEMMA StagesGoForward ==
    ASSUME NEW e \in EventRow, NEW s \in Int, NEW t \in Int, s <= t
    PROVE  RankAt(e, s) <= RankAt(e, t)
  <1>. DEFINE x == e.times
  <1>1. /\ x.release \in Int /\ x.start \in Int /\ x.end \in Int
        /\ SaleEnd(x) \in Int
    BY RowFields
  <1>2. CASE e.status # "ACTIVE"
    BY <1>2, RankBounds DEF RankAt, InstantStage
  <1>3. CASE e.status = "ACTIVE"
    <2>1. \A u \in Int :
            RankAt(e, u) = IF u < x.release THEN 1
                           ELSE IF u < SaleEnd(x) THEN 2
                           ELSE IF u < x.start THEN 3
                           ELSE IF u < x.end THEN 4 ELSE 5
      BY <1>3 DEF RankAt, Rank, InstantStage
    <2>. HIDE DEF x
    <2>. QED BY <1>1, <2>1
  <1>. QED BY <1>2, <1>3

\* A row read earlier is no further on than the event.
LEMMA LaterRow ==
    ASSUME NEW e \in EventRow, NEW f \in EventRow, NEW t \in Int,
           \/ e = f
           \/ e.status = "DRAFT"
           \/ e.status = "PREVIEW" /\ f.status # "DRAFT"
    PROVE  RankAt(e, t) <= RankAt(f, t)
  BY RankBounds, RowFields

\* Both counters of one statement are numbers of tickets.
LEMMA CountIsNatural ==
    ASSUME NEW S, NEW T, S \subseteq T
    PROVE  Count(S) \in Nat /\ Count(S) <= Count(T)
  <1>1. IsFiniteSet(Ticket)
    BY ConstantsAssumption
  <1>2. /\ {t \in Ticket : tickets[t] \in S} \subseteq {t \in Ticket : tickets[t] \in T}
        /\ {t \in Ticket : tickets[t] \in T} \subseteq Ticket
    OBVIOUS
  <1>. QED BY <1>1, <1>2, FS_Subset, FS_CardinalityType DEF Count

\* A part counted now is at most the total without the overtaken, and those.
LEMMA PartIsSteady ==
    ASSUME NEW S, NEW T, S \subseteq T, overtaken \subseteq Ticket
    PROVE  /\ Cardinality(Steady(T)) \in Nat /\ Cardinality(overtaken) \in Nat
           /\ Cardinality(Steady(T)) <= Count(T)
           /\ Count(S) <= Cardinality(Steady(T)) + Cardinality(overtaken)
  <1>. DEFINE C == {t \in Ticket : tickets[t] \in S}
  <1>1. IsFiniteSet(Ticket)
    BY ConstantsAssumption
  <1>2. /\ Steady(T) \subseteq Ticket
        /\ Steady(T) \subseteq {t \in Ticket : tickets[t] \in T}
        /\ {t \in Ticket : tickets[t] \in T} \subseteq Ticket
        /\ C \subseteq Steady(T) \cup overtaken
    BY DEF Steady
  <1>3. /\ IsFiniteSet(Steady(T)) /\ IsFiniteSet(overtaken)
        /\ IsFiniteSet({t \in Ticket : tickets[t] \in T})
    BY <1>1, <1>2, FS_Subset
  <1>4. /\ IsFiniteSet(Steady(T) \cup overtaken)
        /\ Cardinality(Steady(T) \cup overtaken)
             = Cardinality(Steady(T)) + Cardinality(overtaken)
               - Cardinality(Steady(T) \cap overtaken)
    BY <1>3, FS_Union
  <1>5. /\ IsFiniteSet(C) /\ Cardinality(C) <= Cardinality(Steady(T) \cup overtaken)
    BY <1>2, <1>4, FS_Subset
  <1>6. /\ Cardinality(Steady(T)) \in Nat /\ Cardinality(overtaken) \in Nat
        /\ Cardinality(C) \in Nat
        /\ Cardinality(Steady(T) \cap overtaken) \in Nat
    <2>1. Steady(T) \cap overtaken \subseteq overtaken
      OBVIOUS
    <2>2. IsFiniteSet(Steady(T) \cap overtaken)
      BY <1>3, <2>1, FS_Subset
    <2>. QED BY <1>3, <1>5, <2>2, FS_CardinalityType
  <1>7. Cardinality(Steady(T)) <= Count(T)
    BY <1>2, <1>3, FS_Subset DEF Count
  <1>8. Count(S) = Cardinality(C)
    BY DEF Count
  <1>. HIDE DEF C
  <1>. QED BY <1>4, <1>5, <1>6, <1>7, <1>8

\* Fewer tickets are steady than were.
LEMMA SteadyShrinks ==
    ASSUME NEW T, Steady(T)' \subseteq Steady(T)
    PROVE  Cardinality(Steady(T))' <= Cardinality(Steady(T))
  <1>1. IsFiniteSet(Ticket) /\ Steady(T) \subseteq Ticket
    BY ConstantsAssumption DEF Steady
  <1>2. IsFiniteSet(Steady(T))
    BY <1>1, FS_Subset
  <1>3. Cardinality(Steady(T)') <= Cardinality(Steady(T))
    BY <1>2, FS_Subset
  <1>. QED BY <1>3

-----------------------------------------------------------------------------
(* The steps *)

\* A step that answers nothing leaves nothing to be checked of the answer.
LEMMA SilenceFits ==
    ASSUME answer' = NoAnswer, overtaken' \subseteq Ticket
    PROVE  AnswerFits' /\ answer' \in AnswerRecord
  <1>1. /\ answer'.kind = "none" /\ answer'.total = 0 /\ answer'.part = 0
        /\ answer' \in AnswerRecord
    BY BlankRow DEF NoAnswer, AnswerRecord, Stages
  <1>2. Cardinality(overtaken') \in Nat
    BY ConstantsAssumption, FS_Subset, FS_CardinalityType
  <1>. QED
    BY <1>1, <1>2 DEF AnswerFits, StageOfAnInstant, CheckableAgrees,
                      OnSaleIsListed, CountsAddUp

LEMMA InitInv == Init => IInv
  <1>. SUFFICES ASSUME Init PROVE IInv
    OBVIOUS
  <1>1. PICK x \in Schedule : event = [status |-> "DRAFT", times |-> x]
    BY DEF Init
  <1>2. event \in EventRow /\ event.status = "DRAFT"
    BY <1>1 DEF EventRow
  <1>3. NoCall \in CallRecord /\ NoCall.pc = "idle"
    BY BlankRow DEF NoCall, CallRecord, Pc
  <1>4. /\ answer.kind = "none" /\ answer.total = 0 /\ answer.part = 0
        /\ answer \in AnswerRecord
    BY BlankRow DEF Init, NoAnswer, AnswerRecord, Stages
  <1>5. TypeOK
    <2>1. tickets \in [Ticket -> TicketStatus]
      BY DEF Init, TicketStatus
    <2>2. now \in 0 .. Horizon /\ shown \in 0 .. 5
      BY ConstantsAssumption DEF Init
    <2>. QED BY <1>2, <1>3, <1>4, <2>1, <2>2 DEF Init, TypeOK
  <1>6. ShownIsPast
    BY <1>2, RankBounds DEF Init, ShownIsPast
  <1>7. InFlight /\ Counted /\ OrderedCirculate /\ LaunchKnown
    BY <1>2, <1>3 DEF Init, InFlight, Counted, OrderedCirculate, LaunchKnown
  <1>8. AnswerFits
    <2>1. Cardinality(overtaken) \in Nat
      BY FS_EmptySet DEF Init
    <2>. QED
      BY <1>4, <2>1 DEF AnswerFits, StageOfAnInstant, CheckableAgrees,
                        OnSaleIsListed, CountsAddUp
  <1>. QED BY <1>5, <1>6, <1>7, <1>8 DEF IInv

LEMMA TickInv ==
    ASSUME IInv, Tick
    PROVE  IInv' /\ shown' = shown
  <1>1. /\ now' = now + 1 /\ now < Horizon /\ answer' = NoAnswer
        /\ event' = event /\ launched' = launched /\ late' = late
        /\ tickets' = tickets /\ ordered' = ordered /\ overtaken' = overtaken
        /\ call' = call /\ shown' = shown
    BY DEF Tick, world, offer
  <1>2. TypeOK
    BY DEF IInv
  <1>3. now \in Int /\ now' \in 0 .. Horizon /\ now <= now'
    BY <1>1, <1>2, ConstantsAssumption DEF TypeOK
  <1>a. AnswerFits' /\ answer' \in AnswerRecord
    BY <1>1, <1>2, SilenceFits DEF TypeOK
  <1>4. TypeOK'
    BY <1>1, <1>2, <1>3, <1>a DEF TypeOK
  <1>5. ShownIsPast'
    <2>1. event \in EventRow /\ shown \in Int /\ RankAt(event, now) \in Int
          /\ RankAt(event, now') \in Int
      BY <1>2, <1>3, RankBounds DEF TypeOK
    <2>2. RankAt(event, now) <= RankAt(event, now')
      BY <1>3, <2>1, StagesGoForward
    <2>3. ShownIsPast' = (~late => shown <= RankAt(event, now'))
      BY <1>1 DEF ShownIsPast, RankAt, Rank, InstantStage, SaleEnd
    <2>. QED BY <2>1, <2>2, <2>3 DEF IInv, ShownIsPast
  <1>6. InFlight'
    <2>1. call.row \in EventRow /\ shown \in Int
      BY <1>2 DEF TypeOK, CallRecord
    <2>2. /\ RankAt(call.row, now) <= RankAt(call.row, now')
          /\ RankAt(call.row, now) \in Int /\ RankAt(call.row, now') \in Int
      BY <1>3, <2>1, StagesGoForward, RankBounds
    <2>3. shown <= RankAt(call.row, now) => shown <= RankAt(call.row, now')
      BY <2>1, <2>2
    <2>4. RankAt(call.row, now)' = RankAt(call.row, now')
      BY <1>1 DEF RankAt, Rank, InstantStage, SaleEnd
    <2>. QED BY <1>1, <2>3, <2>4 DEF IInv, InFlight
  <1>7. OrderedCirculate' /\ Counted' /\ LaunchKnown'
    BY <1>1 DEF IInv, OrderedCirculate, Counted, Steady, LaunchKnown
  <1>. QED BY <1>1, <1>4, <1>5, <1>6, <1>7, <1>a DEF IInv

\* The organizer's writes of the event: one that is not late finds it no
\* further on than PREVIEW, and leaves what is no longer a draft its times.
LEMMA EventStepInv ==
    ASSUME IInv, Reschedule \/ Announce
    PROVE  IInv' /\ shown' = shown
  <1>1. /\ now' = now /\ tickets' = tickets /\ ordered' = ordered
        /\ overtaken' = overtaken
        /\ call' = call /\ shown' = shown /\ answer' = NoAnswer
        /\ launched => launched'
    BY DEF Reschedule, Announce, UpdateEvent, PreviewEvent, PublishEvent, offer
  <1>2. TypeOK
    BY DEF IInv
  <1>3. event' \in EventRow /\ launched' \in BOOLEAN /\ late' \in BOOLEAN
    BY <1>2 DEF Reschedule, Announce, UpdateEvent, PreviewEvent, PublishEvent,
                TypeOK, EventRow
  <1>a. AnswerFits' /\ answer' \in AnswerRecord
    BY <1>1, <1>2, SilenceFits DEF TypeOK
  <1>4. TypeOK'
    BY <1>1, <1>2, <1>3, <1>a DEF TypeOK
  <1>5. ASSUME ~late'
        PROVE  /\ ~late
               /\ event.status \in {"DRAFT", "PREVIEW"}
               /\ event.status # "DRAFT" =>
                    event'.status # "DRAFT" /\ event'.times = event.times
    <2>1. event \in EventRow
      BY <1>2 DEF TypeOK
    <2>2. event.status \in {"DRAFT", "PREVIEW", "ACTIVE"}
      BY <2>1, RowFields
    <2>3. CASE Reschedule
      BY <1>5, <2>2, <2>3 DEF Reschedule, UpdateEvent
    <2>4. CASE PreviewEvent
      BY <1>5, <2>1, <2>2, <2>4 DEF PreviewEvent, EventRow
    <2>5. CASE PublishEvent
      BY <1>5, <2>1, <2>2, <2>5 DEF PublishEvent, EventRow
    <2>. QED BY <2>3, <2>4, <2>5 DEF Announce
  <1>6. now \in Int /\ shown \in Int /\ event \in EventRow
    BY <1>2 DEF TypeOK
  <1>7. ShownIsPast'
    <2>. SUFFICES ASSUME ~late' PROVE (shown <= RankAt(event, now))'
      BY DEF ShownIsPast
    <2>1. RankAt(event, now) <= RankAt(event', now)
      BY <1>3, <1>5, <1>6, LaterRow
    <2>2. RankAt(event, now) \in Int /\ RankAt(event', now) \in Int
      BY <1>3, <1>6, RankBounds
    <2>3. shown <= RankAt(event, now)
      BY <1>5 DEF IInv, ShownIsPast
    <2>4. RankAt(event, now)' = RankAt(event', now)
      BY <1>1 DEF RankAt, Rank, InstantStage, SaleEnd
    <2>. QED BY <1>1, <1>6, <2>1, <2>2, <2>3, <2>4
  <1>8. InFlight'
    <2>1. RankAt(call.row, now)' = RankAt(call.row, now)
      BY <1>1 DEF RankAt, Rank, InstantStage, SaleEnd
    <2>2. ~late' /\ call.pc # "idle" => call.row.status # "ACTIVE"
      BY <1>5 DEF IInv, InFlight
    <2>. QED BY <1>1, <1>5, <2>1, <2>2 DEF IInv, InFlight
  <1>9. LaunchKnown'
    <2>1. event'.status = "ACTIVE" => launched'
      BY <1>6 DEF IInv, LaunchKnown, Reschedule, Announce, UpdateEvent,
                  PreviewEvent, PublishEvent, EventRow
    <2>. QED BY <1>1, <2>1 DEF IInv, LaunchKnown
  <1>10. OrderedCirculate' /\ Counted'
    BY <1>1, <1>9 DEF IInv, OrderedCirculate, Counted, Steady
  <1>. QED BY <1>1, <1>4, <1>7, <1>8, <1>9, <1>10, <1>a DEF IInv

\* Tickets: a step by which, once an event was published, no ticket joins those
\* that totals are made of but overtaken ones.
LEMMA TicketStepInv ==
    ASSUME IInv, now' = now, event' = event, launched' = launched, late' = late,
           call' = call, shown' = shown, answer' = NoAnswer,
           tickets' \in [Ticket -> TicketStatus],
           ordered' \subseteq Ticket,
           overtaken \subseteq overtaken', overtaken' \subseteq Ticket,
           OrderedCirculate',
           launched =>
             \A S \in {EventTotal, TypeTotal} : \A t \in Ticket \ overtaken' :
               tickets'[t] \in S => tickets[t] \in S
    PROVE  IInv' /\ shown' = shown
  <1>a. AnswerFits' /\ answer' \in AnswerRecord
    BY SilenceFits
  <1>1. TypeOK'
    BY <1>a DEF IInv, TypeOK
  <1>2. ShownIsPast' /\ InFlight' /\ LaunchKnown'
    BY DEF IInv, ShownIsPast, InFlight, LaunchKnown, RankAt, Rank, InstantStage,
           SaleEnd
  <1>3. Counted'
    <2>. SUFFICES ASSUME call.pc # "idle", call.row.status = "ACTIVE"
                  PROVE  /\ Cardinality(Steady(EventTotal))'
                              <= Cardinality(Steady(EventTotal))
                         /\ Cardinality(Steady(TypeTotal))'
                              <= Cardinality(Steady(TypeTotal))
                         /\ Cardinality(overtaken) <= Cardinality(overtaken')
      <3>1. /\ Cardinality(Steady(EventTotal)) \in Int
            /\ Cardinality(Steady(TypeTotal)) \in Int
            /\ Cardinality(overtaken) \in Int
        BY PartIsSteady DEF IInv, TypeOK
      <3>2. /\ Cardinality(Steady(EventTotal))' \in Int
            /\ Cardinality(Steady(TypeTotal))' \in Int
            /\ Cardinality(overtaken') \in Int
        <4>1. \A T \in {EventTotal, TypeTotal} :
                Steady(T)' \subseteq Ticket
          BY DEF Steady
        <4>2. IsFiniteSet(Ticket)
          BY ConstantsAssumption
        <4>3. /\ Steady(EventTotal)' \subseteq Ticket
              /\ Steady(TypeTotal)' \subseteq Ticket
          BY <4>1
        <4>4. /\ Cardinality(Steady(EventTotal)') \in Nat
              /\ Cardinality(Steady(TypeTotal)') \in Nat
              /\ Cardinality(overtaken') \in Nat
          BY <4>2, <4>3, FS_Subset, FS_CardinalityType
        <4>. QED BY <4>4
      <3>3. call.total \in Int /\ call.part \in Int
        BY DEF IInv, TypeOK, CallRecord
      <3>. QED BY <3>1, <3>2, <3>3 DEF IInv, Counted
    <2>1. launched
      BY DEF IInv, LaunchKnown
    <2>2. /\ Steady(EventTotal)' \subseteq Steady(EventTotal)
          /\ Steady(TypeTotal)' \subseteq Steady(TypeTotal)
      BY <2>1 DEF Steady, EventTotal, TypeTotal
    <2>3. IsFiniteSet(overtaken')
      BY ConstantsAssumption, FS_Subset
    <2>. QED BY <2>2, <2>3, SteadyShrinks, FS_Subset
  <1>. QED BY <1>1, <1>2, <1>3, <1>a DEF IInv

LEMMA AddSeatInv ==
    ASSUME IInv, NEW t \in Ticket, NEW st \in Unsold, AddSeat(t, st)
    PROVE  IInv' /\ shown' = shown
  <1>1. TypeOK
    BY DEF IInv
  <1>2. /\ tickets' = [tickets EXCEPT ![t] = st] /\ tickets[t] = "NONE"
        /\ overtaken \subseteq overtaken' /\ overtaken' \subseteq Ticket
        /\ launched => t \in overtaken'
        /\ ordered' = ordered /\ now' = now /\ event' = event
        /\ launched' = launched /\ late' = late
        /\ call' = call /\ shown' = shown /\ answer' = NoAnswer
    BY <1>1 DEF AddSeat, TypeOK
  <1>3. tickets' \in [Ticket -> TicketStatus]
    BY <1>1, <1>2 DEF TypeOK, TicketStatus
  <1>4. OrderedCirculate'
    <2>1. t \notin ordered \ overtaken
      BY <1>2 DEF IInv, OrderedCirculate, Circulating
    <2>. QED BY <1>1, <1>2, <2>1 DEF IInv, OrderedCirculate, TypeOK
  <1>5. launched => \A u \in Ticket \ overtaken' : tickets'[u] = tickets[u]
    BY <1>1, <1>2 DEF TypeOK
  <1>6. ordered' \subseteq Ticket
    BY <1>1, <1>2 DEF TypeOK
  <1>. QED BY <1>2, <1>3, <1>4, <1>5, <1>6, TicketStepInv

LEMMA EditTicketInv ==
    ASSUME IInv, NEW t \in Ticket, NEW st \in Unsold, EditTicket(t, st)
    PROVE  IInv' /\ shown' = shown
  <1>1. TypeOK
    BY DEF IInv
  <1>2. /\ tickets' = [tickets EXCEPT ![t] = st]
        /\ overtaken \subseteq overtaken' /\ overtaken' \subseteq Ticket
        /\ launched \/ t \in ordered => t \in overtaken'
        /\ ordered' = ordered /\ now' = now /\ event' = event
        /\ launched' = launched /\ late' = late
        /\ call' = call /\ shown' = shown /\ answer' = NoAnswer
    BY <1>1 DEF EditTicket, TypeOK
  <1>3. tickets' \in [Ticket -> TicketStatus]
    BY <1>1, <1>2 DEF TypeOK, TicketStatus
  <1>4. OrderedCirculate'
    BY <1>1, <1>2 DEF IInv, OrderedCirculate, TypeOK
  <1>5. launched => \A u \in Ticket \ overtaken' : tickets'[u] = tickets[u]
    BY <1>1, <1>2 DEF TypeOK
  <1>6. ordered' \subseteq Ticket
    BY <1>1, <1>2 DEF TypeOK
  <1>. QED BY <1>2, <1>3, <1>4, <1>5, <1>6, TicketStepInv

LEMMA RemoveSeatsInv ==
    ASSUME IInv, RemoveSeats
    PROVE  IInv' /\ shown' = shown
  <1>1. TypeOK
    BY DEF IInv
  <1>2. /\ tickets' = [t \in Ticket |-> "NONE"] /\ ordered' = {}
        /\ overtaken' = overtaken /\ now' = now /\ event' = event
        /\ launched' = launched /\ late' = late
        /\ call' = call /\ shown' = shown /\ answer' = NoAnswer
    BY DEF RemoveSeats
  <1>3. tickets' \in [Ticket -> TicketStatus]
    BY <1>2 DEF TicketStatus
  <1>4. OrderedCirculate'
    BY <1>2 DEF OrderedCirculate
  <1>5. \A S \in {EventTotal, TypeTotal} : \A t \in Ticket : tickets'[t] \notin S
    BY <1>2 DEF EventTotal, TypeTotal
  <1>6. overtaken \subseteq overtaken' /\ overtaken' \subseteq Ticket
        /\ ordered' \subseteq Ticket
    BY <1>1, <1>2 DEF TypeOK
  <1>. QED BY <1>2, <1>3, <1>4, <1>5, <1>6, TicketStepInv

LEMMA PlaceOrderInv ==
    ASSUME IInv, NEW t \in Ticket, PlaceOrder(t)
    PROVE  IInv' /\ shown' = shown
  <1>1. TypeOK
    BY DEF IInv
  <1>2. /\ tickets' = tickets /\ ordered' = ordered \cup {t}
        /\ overtaken \subseteq overtaken' /\ overtaken' \subseteq Ticket
        /\ tickets[t] \in {"NEW"} \cup Circulating \/ t \in overtaken'
        /\ now' = now /\ event' = event /\ launched' = launched /\ late' = late
        /\ call' = call /\ shown' = shown /\ answer' = NoAnswer
    BY <1>1 DEF PlaceOrder, TypeOK
  <1>3. OrderedCirculate'
    BY <1>2 DEF IInv, OrderedCirculate
  <1>4. tickets' \in [Ticket -> TicketStatus] /\ ordered' \subseteq Ticket
    BY <1>1, <1>2 DEF TypeOK
  <1>. QED BY <1>2, <1>3, <1>4, TicketStepInv

LEMMA TradeInv ==
    ASSUME IInv, NEW t \in Ticket, NEW st \in Circulating, Trade(t, st)
    PROVE  IInv' /\ shown' = shown
  <1>1. TypeOK
    BY DEF IInv
  <1>2. /\ tickets' = [tickets EXCEPT ![t] = st] /\ ordered' = ordered
        /\ overtaken' = overtaken /\ t \in ordered
        /\ now' = now /\ event' = event /\ launched' = launched /\ late' = late
        /\ call' = call /\ shown' = shown /\ answer' = NoAnswer
    BY DEF Trade
  <1>3. OrderedCirculate'
    BY <1>1, <1>2 DEF IInv, OrderedCirculate, TypeOK
  <1>4. tickets' \in [Ticket -> TicketStatus] /\ ordered' \subseteq Ticket
    BY <1>1, <1>2 DEF TypeOK, TicketStatus
  <1>5. ASSUME NEW S \in {EventTotal, TypeTotal}, NEW u \in Ticket \ overtaken',
               tickets'[u] \in S
        PROVE  tickets[u] \in S
    <2>1. CASE u # t
      BY <1>1, <1>2, <1>5, <2>1 DEF TypeOK
    <2>2. CASE u = t
      <3>1. tickets[t] \in {"NEW"} \cup Circulating
        BY <1>2, <2>2 DEF IInv, OrderedCirculate
      <3>2. {"NEW"} \cup Circulating \subseteq S
        BY DEF Circulating, EventTotal, TypeTotal
      <3>. QED BY <2>2, <3>1, <3>2
    <2>. QED BY <2>1, <2>2
  <1>6. overtaken' \subseteq Ticket
    BY <1>1, <1>2 DEF TypeOK
  <1>. QED BY <1>2, <1>3, <1>4, <1>5, <1>6, TicketStepInv

-----------------------------------------------------------------------------
(* The requests *)

\* A step that reads only, and answers nothing yet.
LEMMA ReadingInv ==
    ASSUME IInv, now' = now, UNCHANGED world, shown' = shown, answer' = NoAnswer,
           call' \in CallRecord,
           call'.pc # "idle",
           call'.row.status = "ACTIVE" => launched,
           InFlight', Counted'
    PROVE  IInv' /\ shown' = shown
  <1>1. /\ event' = event /\ launched' = launched /\ late' = late
        /\ tickets' = tickets /\ ordered' = ordered /\ overtaken' = overtaken
    BY DEF world, offer
  <1>2. overtaken' \subseteq Ticket
    BY <1>1 DEF IInv, TypeOK
  <1>3. AnswerFits' /\ answer' \in AnswerRecord
    BY <1>2, SilenceFits
  <1>4. TypeOK'
    BY <1>1, <1>3 DEF IInv, TypeOK
  <1>5. ShownIsPast' /\ LaunchKnown' /\ OrderedCirculate'
    BY <1>1 DEF IInv, ShownIsPast, LaunchKnown, OrderedCirculate, RankAt, Rank,
                InstantStage, SaleEnd
  <1>. QED BY <1>3, <1>4, <1>5 DEF IInv

LEMMA BeginInv ==
    ASSUME IInv, NEW pc \in {"own.seats", "gate.time", "event.total", "types.total"},
           Begin(pc),
           pc = "event.total" => event.status # "DRAFT"
    PROVE  IInv' /\ shown' = shown
  <1>1. /\ now' = now /\ UNCHANGED world /\ event' = event /\ late' = late
        /\ shown' = shown /\ answer' = NoAnswer
        /\ call' = [NoCall EXCEPT !.pc = pc, !.row = event]
    BY DEF Begin, world
  <1>2. /\ call'.pc = pc /\ call'.row = event
        /\ call'.total = 0 /\ call'.part = 0
    BY <1>1 DEF NoCall
  <1>3. TypeOK
    BY DEF IInv
  <1>4. call' \in CallRecord
    BY <1>1, <1>3 DEF NoCall, CallRecord, Pc, TypeOK
  <1>5. InFlight'
    <2>1. RankAt(call.row, now)' = RankAt(event, now)
      BY <1>1, <1>2 DEF RankAt, Rank, InstantStage, SaleEnd
    <2>2. ~late => shown <= RankAt(event, now)
      BY DEF IInv, ShownIsPast
    <2>3. call'.pc \in Counting => event.status # "DRAFT"
      BY <1>2 DEF Counting
    <2>. QED BY <1>1, <1>2, <2>1, <2>2, <2>3 DEF InFlight
  <1>6. Counted'
    BY <1>2 DEF Counted
  <1>7. call'.row.status = "ACTIVE" => launched
    BY <1>2 DEF IInv, LaunchKnown
  <1>. QED BY <1>1, <1>2, <1>4, <1>5, <1>6, <1>7, ReadingInv

\* A request goes on to its next counter.
LEMMA CountingInv ==
    ASSUME IInv, now' = now, UNCHANGED world, shown' = shown, answer' = NoAnswer,
           call.pc # "idle", call' \in CallRecord, call'.row = call.row,
           call'.pc # "idle",
           call'.pc \in {"event.left", "event.resale"} =>
             call.pc \in {"event.total", "event.left"},
           call'.pc \notin {"event.total", "own.seats"}, Counted'
    PROVE  IInv' /\ shown' = shown
  <1>1. event' = event /\ late' = late
    BY DEF world
  <1>2. InFlight'
    <2>1. RankAt(call.row, now)' = RankAt(call.row, now)
      BY DEF RankAt, Rank, InstantStage, SaleEnd
    <2>. QED BY <1>1, <2>1 DEF IInv, InFlight, Counting
  <1>3. call'.row.status = "ACTIVE" => launched
    BY DEF IInv, LaunchKnown
  <1>. QED BY <1>2, <1>3, ReadingInv

LEMMA CountTotalInv ==
    ASSUME IInv, CountTotal
    PROVE  IInv' /\ shown' = shown
  <1>1. call \in CallRecord /\ call.pc = "event.total" /\ overtaken \subseteq Ticket
    BY DEF IInv, TypeOK, CountTotal
  <1>2. Count(EventTotal) \in Nat /\ Cardinality(Steady(EventTotal)) <= Count(EventTotal)
    BY <1>1, CountIsNatural, PartIsSteady
  <1>3. /\ call' \in CallRecord /\ call'.row = call.row
        /\ call'.pc = "event.left" /\ call'.total = Count(EventTotal)
    BY <1>1, <1>2 DEF CountTotal, CallRecord, Pc
  <1>4. Counted'
    <2>1. Steady(EventTotal)' = Steady(EventTotal)
      BY DEF CountTotal, world, offer, Steady
    <2>. QED BY <1>2, <1>3, <2>1 DEF Counted
  <1>. QED BY <1>1, <1>3, <1>4, CountingInv DEF CountTotal

LEMMA CountLeftInv ==
    ASSUME IInv, CountLeft
    PROVE  IInv' /\ shown' = shown
  <1>1. call \in CallRecord /\ call.pc = "event.left" /\ overtaken \subseteq Ticket
    BY DEF IInv, TypeOK, CountLeft
  <1>2. /\ Count(EventLeft) \in Nat
        /\ Count(EventLeft)
             <= Cardinality(Steady(EventTotal)) + Cardinality(overtaken)
        /\ Cardinality(Steady(EventTotal)) \in Nat /\ Cardinality(overtaken) \in Nat
    <2>1. EventLeft \subseteq EventTotal
      BY DEF EventLeft, EventTotal
    <2>. QED BY <1>1, <2>1, CountIsNatural, PartIsSteady
  <1>3. /\ call' \in CallRecord /\ call'.row = call.row
        /\ call'.pc = "event.resale" /\ call'.total = call.total
        /\ call'.part = Count(EventLeft) /\ call.total \in Nat
    BY <1>1, <1>2 DEF CountLeft, CallRecord, Pc
  <1>4. overtaken' = overtaken
    BY DEF CountLeft, world, offer
  <1>5. Counted'
    BY <1>1, <1>2, <1>3, <1>4 DEF IInv, Counted
  <1>. QED BY <1>1, <1>3, <1>5, CountingInv DEF CountLeft

LEMMA CountTypeTotalInv ==
    ASSUME IInv, CountTypeTotal
    PROVE  IInv' /\ shown' = shown
  <1>1. call \in CallRecord /\ call.pc = "types.total" /\ overtaken \subseteq Ticket
    BY DEF IInv, TypeOK, CountTypeTotal
  <1>2. Count(TypeTotal) \in Nat /\ Cardinality(Steady(TypeTotal)) <= Count(TypeTotal)
    BY <1>1, CountIsNatural, PartIsSteady
  <1>3. /\ call' \in CallRecord /\ call'.row = call.row
        /\ call'.pc = "types.sold" /\ call'.total = Count(TypeTotal)
    BY <1>1, <1>2 DEF CountTypeTotal, CallRecord, Pc
  <1>4. Counted'
    <2>1. Steady(TypeTotal)' = Steady(TypeTotal)
      BY DEF CountTypeTotal, world, offer, Steady
    <2>. QED BY <1>2, <1>3, <2>1 DEF Counted
  <1>. QED BY <1>1, <1>3, <1>4, CountingInv DEF CountTypeTotal

\* No request is in flight after these steps.
LEMMA IdleFits ==
    ASSUME call' = NoCall
    PROVE  InFlight' /\ Counted' /\ call' \in CallRecord /\ call'.pc = "idle"
  BY BlankRow DEF NoCall, InFlight, Counted, CallRecord, Pc

LEMMA CountTypeSoldInv ==
    ASSUME IInv, CountTypeSold
    PROVE  IInv' /\ shown' = shown
  <1>1. /\ now' = now /\ event' = event /\ launched' = launched /\ late' = late
        /\ tickets' = tickets /\ ordered' = ordered /\ overtaken' = overtaken
        /\ shown' = shown /\ call' = NoCall
        /\ call.pc = "types.sold"
    BY DEF CountTypeSold, world, offer
  <1>2. TypeOK /\ call \in CallRecord /\ overtaken \subseteq Ticket
    BY DEF IInv, TypeOK
  <1>3. /\ Count(TypeSold) \in Nat
        /\ Count(TypeSold) <= Cardinality(Steady(TypeTotal)) + Cardinality(overtaken)
        /\ Cardinality(Steady(TypeTotal)) \in Nat /\ Cardinality(overtaken) \in Nat
    <2>1. TypeSold \subseteq TypeTotal
      BY DEF TypeSold, TypeTotal
    <2>. QED BY <1>2, <2>1, CountIsNatural, PartIsSteady
  <1>4. /\ answer'.kind = "counts" /\ answer'.row = call.row
        /\ answer'.total = call.total /\ answer'.part = Count(TypeSold)
        /\ answer' \in AnswerRecord /\ call.total \in Nat
    <2>1. call.row \in EventRow /\ call.total \in Nat
      BY <1>2 DEF CallRecord
    <2>. QED BY <1>3, <2>1 DEF CountTypeSold, AnswerRecord, Stages
  <1>5. TypeOK'
    BY <1>1, <1>2, <1>4, IdleFits DEF TypeOK
  <1>6. AnswerFits'
    <2>1. CountsAddUp'
      BY <1>1, <1>3, <1>4 DEF CountsAddUp, IInv, Counted
    <2>. QED
      BY <1>4, <2>1 DEF AnswerFits, StageOfAnInstant, CheckableAgrees, OnSaleIsListed
  <1>7. ShownIsPast' /\ OrderedCirculate' /\ LaunchKnown'
    BY <1>1, IdleFits DEF IInv, ShownIsPast, RankAt, Rank, InstantStage, SaleEnd,
                          OrderedCirculate, LaunchKnown
  <1>. QED BY <1>1, <1>5, <1>6, <1>7, IdleFits DEF IInv

LEMMA GetEventTicketsInv ==
    ASSUME IInv, GetEventTickets
    PROVE  IInv' /\ shown' = shown
  <1>1. /\ now' = now /\ event' = event /\ launched' = launched /\ late' = late
        /\ tickets' = tickets /\ ordered' = ordered /\ overtaken' = overtaken
        /\ shown' = shown /\ call' = call
    BY DEF GetEventTickets, world, offer
  <1>2. TypeOK
    BY DEF IInv
  <1>3. event \in EventRow /\ now \in Int
    BY <1>2 DEF TypeOK
  <1>4. /\ answer'.kind = "listing" /\ answer'.row = event
        /\ answer'.listed = ListsTickets(event, now) /\ answer'.from = now
        /\ answer'.total = 0 /\ answer'.part = 0
        /\ answer' \in AnswerRecord
    BY <1>3, BlankRow
       DEF GetEventTickets, NoAnswer, AnswerRecord, Stages, ListsTickets
  <1>5. TypeOK'
    BY <1>1, <1>2, <1>4 DEF TypeOK
  <1>6. OnSaleIsListed'
    <2>. DEFINE x == event.times
    <2>1. /\ x.release \in Int /\ x.start \in Int /\ x.end \in Int
          /\ x.stop \in Int /\ now \in Int
          /\ event.status \in {"DRAFT", "PREVIEW", "ACTIVE"}
      BY <1>2, RowFields DEF TypeOK
    <2>2. ASSUME ~ListsTickets(event, now), x.start <= x.end
          PROVE  InstantStage(event, now) # "ONSALE"
      <3>1. ~(now < SaleEnd(x))
        BY <2>1, <2>2 DEF ListsTickets, SaleEnd
      <3>. QED BY <2>1, <3>1 DEF InstantStage
    <2>. QED BY <1>4, <2>2 DEF OnSaleIsListed, InstantStage, SaleEnd
  <1>7. AnswerFits'
    <2>1. Cardinality(overtaken') \in Nat
      BY <1>1, <1>2, ConstantsAssumption, FS_Subset, FS_CardinalityType DEF TypeOK
    <2>. QED
      BY <1>4, <1>6, <2>1
         DEF AnswerFits, StageOfAnInstant, CheckableAgrees, CountsAddUp
  <1>8. ShownIsPast' /\ InFlight'
    BY <1>1 DEF IInv, ShownIsPast, InFlight, RankAt, Rank, InstantStage, SaleEnd
  <1>9. OrderedCirculate' /\ Counted' /\ LaunchKnown'
    BY <1>1 DEF IInv, OrderedCirculate, Counted, Steady, LaunchKnown
  <1>. QED BY <1>1, <1>5, <1>7, <1>8, <1>9 DEF IInv

\* The stage a request ends with, of the event or of a row it read before.
LEMMA ShowStageInv ==
    ASSUME IInv, NEW row \in EventRow, NEW total \in Nat, NEW part \in Nat,
           ShowStage(row, total, part),
           ~late =>
             /\ shown <= RankAt(row, now)
             /\ \/ row = event
                \/ row.status = "DRAFT"
                \/ row.status = "PREVIEW" /\ event.status # "DRAFT",
           row.status = "ACTIVE" => part <= total + Cardinality(overtaken)
    PROVE  IInv' /\ (~late' => shown' >= shown)
  <1>1. PICK c \in Readings :
          /\ now <= c[1]
          /\ answer' =
               [NoAnswer EXCEPT !.row = row, !.kind = "stage",
                  !.stage = GetEventStage(row, c),
                  !.checkable = GetCheckable(row, c),
                  !.from = c[1], !.to = c[10], !.total = total, !.part = part]
          /\ shown' = Rank(GetEventStage(row, c))
          /\ now' = c[10]
    <2>1. PICK view \in Views :
            /\ view.row = row /\ view.from >= now
            /\ answer' =
                 [NoAnswer EXCEPT !.row = row, !.kind = "stage",
                    !.stage = view.stage, !.checkable = view.checkable,
                    !.from = view.from, !.to = view.to, !.total = total,
                    !.part = part]
            /\ shown' = Rank(view.stage)
            /\ now' = view.to
      BY DEF ShowStage
    <2>2. PICK e \in EventRow, c \in Readings : view = View(e, c)
      BY <2>1 DEF Views
    <2>3. /\ e = row /\ view.stage = GetEventStage(row, c)
          /\ view.checkable = GetCheckable(row, c)
          /\ view.from = c[1] /\ view.to = c[10]
      BY <2>1, <2>2 DEF View
    <2>4. now \in Int /\ c[1] \in Int
      BY ReadingsAreOrdered DEF IInv, TypeOK
    <2>5. now <= c[1]
      BY <2>1, <2>3, <2>4
    <2>. QED BY <2>1, <2>3, <2>5
  <1>2. /\ call' = NoCall /\ event' = event /\ launched' = launched
        /\ late' = late /\ tickets' = tickets /\ ordered' = ordered
        /\ overtaken' = overtaken
    BY DEF ShowStage, world, offer
  <1>3. TypeOK /\ now \in 0 .. Horizon /\ now \in Int /\ event \in EventRow
    BY DEF IInv, TypeOK
  <1>4. /\ \A i \in 1 .. 10 : c[i] \in Int /\ now <= c[i]
        /\ \A i, k \in 1 .. 10 : i <= k => c[i] <= c[k]
        /\ c[10] \in 0 .. Horizon
    <2>1. /\ \A i \in 1 .. 10 : c[i] \in Int /\ c[i] \in 0 .. Horizon
          /\ \A i, k \in 1 .. 10 : i <= k => c[i] <= c[k]
      BY ReadingsAreOrdered
    <2>2. ASSUME NEW i \in 1 .. 10 PROVE now <= c[i]
      <3>1. c[1] <= c[i] /\ c[1] \in Int /\ c[i] \in Int
        BY <2>1
      <3>. QED BY <1>1, <1>3, <3>1
    <2>. QED BY <2>1, <2>2
  <1>5. PICK i \in 1 .. 10 : GetEventStage(row, c) = InstantStage(row, c[i])
    BY StageIsOfAReading
  <1>6. /\ c[i] \in Int /\ now <= c[i] /\ c[i] <= c[10] /\ c[10] \in Int
        /\ c[1] \in Int /\ c[i] \in c[1] .. c[10]
    BY <1>4
  <1>7. shown' = RankAt(row, c[i]) /\ shown' \in 0 .. 5
    BY <1>1, <1>5, <1>6, RankBounds DEF RankAt
  <1>8. ~late' => shown' >= shown
    <2>1. /\ RankAt(row, now) <= RankAt(row, c[i]) /\ RankAt(row, now) \in Int
          /\ RankAt(row, c[i]) \in Int /\ shown \in Int
      BY <1>3, <1>6, StagesGoForward, RankBounds DEF TypeOK
    <2>. QED BY <1>2, <1>7, <2>1
  <1>9. ShownIsPast'
    <2>. SUFFICES ASSUME ~late PROVE (shown <= RankAt(event, now))'
      BY <1>2 DEF ShownIsPast
    <2>1. RankAt(row, c[i]) <= RankAt(row, c[10])
      BY <1>6, StagesGoForward
    <2>2. RankAt(row, c[10]) <= RankAt(event, c[10])
      BY <1>3, <1>6, LaterRow
    <2>3. /\ RankAt(row, c[i]) \in Int /\ RankAt(row, c[10]) \in Int
          /\ RankAt(event, c[10]) \in Int
      BY <1>3, <1>6, RankBounds
    <2>4. now' = c[10] /\ event' = event
      BY <1>1, <1>2
    <2>5. RankAt(event, now)' = RankAt(event, c[10])
      BY <2>4 DEF RankAt, Rank, InstantStage, SaleEnd
    <2>. QED BY <1>7, <2>1, <2>2, <2>3, <2>5
  <1>10. /\ answer'.kind = "stage" /\ answer'.row = row
         /\ answer'.stage = InstantStage(row, c[i])
         /\ answer'.stage = GetEventStage(row, c)
         /\ answer'.checkable = GetCheckable(row, c)
         /\ answer'.from = c[1] /\ answer'.to = c[10]
         /\ answer'.total = total /\ answer'.part = part
    BY <1>1, <1>5 DEF NoAnswer
  <1>11. answer' \in AnswerRecord
    <2>1. InstantStage(row, c[i]) \in Stages /\ GetCheckable(row, c) \in BOOLEAN
      BY <1>6, RankBounds DEF GetCheckable
    <2>. QED BY <1>1, <1>5, <1>6, <2>1, BlankRow DEF NoAnswer, AnswerRecord
  <1>12. TypeOK'
    BY <1>1, <1>2, <1>3, <1>4, <1>7, <1>11, IdleFits DEF TypeOK
  <1>13. StageOfAnInstant'
    BY <1>6, <1>10 DEF StageOfAnInstant, InstantStage, SaleEnd
  <1>14. CheckableAgrees'
    <2>. DEFINE x == row.times
    <2>1. /\ x.release \in Int /\ x.start \in Int /\ x.end \in Int
          /\ x.checkIn \in Int /\ row.status \in {"DRAFT", "PREVIEW", "ACTIVE"}
      BY RowFields
    <2>2. /\ c[1] \in Int /\ c[6] \in Int /\ c[8] \in Int /\ c[9] \in Int
          /\ c[10] \in Int /\ c[1] <= c[10] /\ c[6] <= c[9] /\ c[8] <= c[10]
      BY <1>4
    <2>3. ASSUME GetCheckable(row, c)
          PROVE  GetEventStage(row, c) # "ENDED" /\ ~(c[1] > x.end)
      <3>1. c[10] < x.end /\ ~(c[8] >= x.end)
        BY <2>1, <2>2, <2>3 DEF GetCheckable
      <3>. QED BY <2>1, <2>2, <3>1 DEF GetEventStage
    <2>4. ASSUME GetEventStage(row, c) = "LIVE", ~GetCheckable(row, c),
                 x.checkIn >= 0
          PROVE  c[10] >= x.end
      <3>1. c[6] >= x.start
        BY <2>1, <2>4 DEF GetEventStage
      <3>2. c[9] >= x.start - x.checkIn
        BY <2>1, <2>2, <2>4, <3>1
      <3>. QED BY <2>1, <2>2, <2>4, <3>2 DEF GetCheckable
    <2>. QED BY <1>10, <2>3, <2>4 DEF CheckableAgrees, GateOpen
  <1>15. OnSaleIsListed' /\ CountsAddUp'
    BY <1>2, <1>10 DEF OnSaleIsListed, CountsAddUp
  <1>16. OrderedCirculate' /\ LaunchKnown'
    BY <1>2, IdleFits DEF IInv, OrderedCirculate, LaunchKnown
  <1>. QED
    BY <1>2, <1>8, <1>9, <1>12, <1>13, <1>14, <1>15, <1>16, IdleFits
       DEF IInv, AnswerFits

\* A request that counts nothing answers 0 of 0.
LEMMA NothingAddsUp ==
    ASSUME IInv
    PROVE  0 <= 0 + Cardinality(overtaken)
  <1>1. IsFiniteSet(overtaken)
    BY ConstantsAssumption, FS_Subset DEF IInv, TypeOK
  <1>2. Cardinality(overtaken) \in Nat
    BY <1>1, FS_CardinalityType
  <1>. QED BY <1>2

LEMMA ReadStageInv ==
    ASSUME IInv, ReadStage \/ StaffEvents
    PROVE  IInv' /\ (~late' => shown' >= shown)
  <1>1. ShowStage(event, 0, 0) /\ event \in EventRow
    BY DEF ReadStage, StaffEvents, IInv, TypeOK
  <1>2. ~late => shown <= RankAt(event, now)
    BY DEF IInv, ShownIsPast
  <1>. QED BY <1>1, <1>2, NothingAddsUp, ShowStageInv

LEMMA OwnSeatsInv ==
    ASSUME IInv, OwnSeats
    PROVE  IInv' /\ (~late' => shown' >= shown)
  <1>1. /\ ShowStage(call.row, 0, 0)
        /\ call.pc = "own.seats" /\ call \in CallRecord
    BY DEF OwnSeats, IInv, TypeOK
  <1>2. call.row \in EventRow
    BY <1>1 DEF CallRecord
  <1>3. ~late =>
          /\ shown <= RankAt(call.row, now)
          /\ call.row.status = "ACTIVE" => call.row = event
          /\ call.row.status # "DRAFT" => event.status # "DRAFT"
    BY <1>1 DEF IInv, InFlight
  <1>4. ~late =>
          \/ call.row = event
          \/ call.row.status = "DRAFT"
          \/ call.row.status = "PREVIEW" /\ event.status # "DRAFT"
    BY <1>2, <1>3, RowFields
  <1>. QED BY <1>1, <1>2, <1>3, <1>4, NothingAddsUp, ShowStageInv

LEMMA GateTimeInv ==
    ASSUME IInv, GateTime
    PROVE  IInv' /\ shown' = shown
  <1>1. /\ now' = now /\ event' = event /\ launched' = launched /\ late' = late
        /\ tickets' = tickets /\ ordered' = ordered /\ overtaken' = overtaken
        /\ shown' = shown /\ call' = NoCall
        /\ call.pc = "gate.time"
    BY DEF GateTime, world, offer
  <1>2. TypeOK /\ call.row \in EventRow /\ event \in EventRow /\ now \in Int
    BY DEF IInv, TypeOK, CallRecord
  <1>3. /\ answer'.kind = "gate" /\ answer'.row = call.row
        /\ answer'.checkable = GateOpen(call.row, now) /\ answer'.from = now
        /\ answer'.total = 0 /\ answer'.part = 0
        /\ answer' \in AnswerRecord
    BY <1>2, BlankRow DEF GateTime, NoAnswer, AnswerRecord, Stages, GateOpen
  <1>4. TypeOK'
    BY <1>1, <1>2, <1>3, IdleFits DEF TypeOK
  <1>5. CheckableAgrees'
    <2>1. call.row.status # "DRAFT" /\ ~late => event.times = call.row.times
      BY <1>1 DEF IInv, InFlight
    <2>2. ASSUME ~GateOpen(event, now) PROVE InstantStage(event, now) # "LIVE"
      BY <1>2, <2>2, RowFields DEF GateOpen, InstantStage
    <2>3. InstantStage(event, now)' = InstantStage(event, now)
      BY <1>1 DEF InstantStage, SaleEnd
    <2>4. answer'.kind # "stage"
      BY <1>3
    <2>5. InstantStage(event', answer'.from) = InstantStage(event, now)
      BY <1>1, <1>3
    <2>6. call.row.status # "DRAFT" /\ ~late =>
            (GateOpen(call.row, now) <=> GateOpen(event, now))
      BY <2>1 DEF GateOpen
    <2>. QED
      BY <1>1, <1>3, <2>2, <2>4, <2>5, <2>6
         DEF CheckableAgrees, InstantStage, SaleEnd
  <1>6. AnswerFits'
    <2>1. 0 <= 0 + Cardinality(overtaken')
      BY <1>1, NothingAddsUp
    <2>. QED
      BY <1>3, <1>5, <2>1
         DEF AnswerFits, StageOfAnInstant, OnSaleIsListed, CountsAddUp
  <1>7. ShownIsPast' /\ OrderedCirculate' /\ LaunchKnown'
    BY <1>1, IdleFits DEF IInv, ShownIsPast, RankAt, Rank, InstantStage, SaleEnd,
                          OrderedCirculate, LaunchKnown
  <1>. QED BY <1>1, <1>4, <1>6, <1>7, IdleFits DEF IInv

LEMMA CountResaleInv ==
    ASSUME IInv, CountResale
    PROVE  IInv' /\ (~late' => shown' >= shown)
  <1>1. /\ ShowStage(call.row, call.total, call.part)
        /\ call.pc = "event.resale" /\ call \in CallRecord
    BY DEF CountResale, IInv, TypeOK
  <1>2. call.row \in EventRow /\ call.total \in Nat /\ call.part \in Nat
    BY <1>1 DEF CallRecord
  <1>3. /\ call.row.status # "DRAFT"
        /\ ~late =>
             /\ shown <= RankAt(call.row, now)
             /\ call.row.status = "ACTIVE" => call.row = event
             /\ event.status # "DRAFT"
    BY <1>1 DEF IInv, InFlight, Counting
  <1>4. call.row.status = "ACTIVE" =>
          call.part <= call.total + Cardinality(overtaken)
    BY <1>1 DEF IInv, Counted
  <1>5. ~late =>
          \/ call.row = event
          \/ call.row.status = "PREVIEW" /\ event.status # "DRAFT"
    BY <1>2, <1>3, RowFields
  <1>. QED BY <1>1, <1>2, <1>3, <1>4, <1>5, ShowStageInv

-----------------------------------------------------------------------------
(* The theorems *)

LEMMA NextInv ==
    ASSUME IInv, Next
    PROVE  IInv' /\ (~late' => shown' >= shown)
  <1>. shown \in Int
    BY DEF IInv, TypeOK
  <1>1. CASE Tick
    BY <1>1, TickInv
  <1>2. CASE Reschedule \/ Announce
    BY <1>2, EventStepInv
  <1>3. CASE Offer
    <2>1. ASSUME NEW t \in Ticket, NEW st \in Unsold,
                 AddSeat(t, st) \/ EditTicket(t, st)
          PROVE  IInv' /\ shown' = shown
      BY <2>1, AddSeatInv, EditTicketInv
    <2>. QED BY <1>3, <2>1, RemoveSeatsInv DEF Offer
  <1>5. CASE Sell
    <2>1. PICK t \in Ticket : PlaceOrder(t) \/ \E st \in Circulating : Trade(t, st)
      BY <1>5 DEF Sell
    <2>. QED BY <2>1, PlaceOrderInv, TradeInv
  <1>4. CASE Read
    <2>1. CASE ReadStage \/ StaffEvents \/ OwnSeats \/ CountResale
      BY <2>1, ReadStageInv, OwnSeatsInv, CountResaleInv
    <2>2. CASE GetEvent
      BY <2>2, BeginInv DEF GetEvent
    <2>3. CASE GetOwnEvent \/ CheckInVerify \/ GetEventTicketTypes
      BY <2>3, BeginInv DEF GetOwnEvent, CheckInVerify, GetEventTicketTypes
    <2>4. CASE CountTotal \/ CountLeft \/ CountTypeTotal
      BY <2>4, CountTotalInv, CountLeftInv, CountTypeTotalInv
    <2>5. CASE CountTypeSold \/ GetEventTickets \/ GateTime
      BY <2>5, CountTypeSoldInv, GetEventTicketsInv, GateTimeInv
    <2>. QED BY <1>4, <2>1, <2>2, <2>3, <2>4, <2>5 DEF Read
  <1>. QED BY <1>1, <1>2, <1>3, <1>4, <1>5 DEF Next

LEMMA StutterInv ==
    ASSUME IInv, UNCHANGED vars
    PROVE  IInv'
  <1>. USE DEF vars, world, offer, IInv
  <1>1. TypeOK'
    BY DEF TypeOK
  <1>2. ShownIsPast'
    BY DEF ShownIsPast, RankAt, Rank, InstantStage, SaleEnd
  <1>3. InFlight'
    BY DEF InFlight, RankAt, Rank, InstantStage, SaleEnd
  <1>4. OrderedCirculate' /\ LaunchKnown'
    BY DEF OrderedCirculate, LaunchKnown
  <1>5. Counted'
    BY DEF Counted, Steady
  <1>6. StageOfAnInstant'
    BY DEF AnswerFits, StageOfAnInstant, InstantStage, SaleEnd
  <1>7. CheckableAgrees' /\ CountsAddUp'
    BY DEF AnswerFits, CheckableAgrees, CountsAddUp, InstantStage, SaleEnd, GateOpen
  <1>8. OnSaleIsListed'
    BY DEF AnswerFits, OnSaleIsListed, InstantStage, SaleEnd
  <1>. QED BY <1>1, <1>2, <1>3, <1>4, <1>5, <1>6, <1>7, <1>8 DEF AnswerFits

\* The invariant of the storefront, for all schedules and any number of tickets.
THEOREM StorefrontInvariant == Spec => []IInv
  <1>1. IInv /\ [Next]_vars => IInv'
    BY NextInv, StutterInv
  <1>. QED BY InitInv, <1>1, PTL DEF Spec

\* Rows, the request and its answer have their types.
THEOREM StorefrontTypeCorrect == Spec => []TypeOK
  <1>1. IInv => TypeOK
    BY DEF IInv
  <1>. QED BY <1>1, StorefrontInvariant, PTL

\* getEventStage always answers, and answers the stage of an instant it saw.
THEOREM StageIsAtomic == Spec => []StageOfAnInstant
  <1>1. IInv => StageOfAnInstant
    BY DEF IInv, AnswerFits
  <1>. QED BY <1>1, StorefrontInvariant, PTL

\* A client sees an event go back only after updateEvent or previewEvent wrote
\* late.
THEOREM StageOnlyAdvances == Spec => StageGoesForward
  <1>1. IInv /\ [Next]_vars => [~late' => shown' >= shown]_vars
    BY NextInv
  <1>. QED BY <1>1, StorefrontInvariant, PTL DEF Spec, StageGoesForward

\* What is checkable agrees with the stage shown beside it, and the gate with
\* the event until a late write.
THEOREM CheckableIsConsistent == Spec => []CheckableAgrees
  <1>1. IInv => CheckableAgrees
    BY DEF IInv, AnswerFits
  <1>. QED BY <1>1, StorefrontInvariant, PTL

\* Tickets on sale are listed if the event does not end before it starts.
THEOREM SaleIsListed == Spec => []OnSaleIsListed
  <1>1. IInv => OnSaleIsListed
    BY DEF IInv, AnswerFits
  <1>. QED BY <1>1, StorefrontInvariant, PTL

\* Counters read one by one during trading add up, but for overtaken tickets.
THEOREM CountersAreConsistent == Spec => []CountsAddUp
  <1>1. IInv => CountsAddUp
    BY DEF IInv, AnswerFits
  <1>. QED BY <1>1, StorefrontInvariant, PTL

=============================================================================
