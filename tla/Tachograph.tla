----------------------------- MODULE Tachograph -----------------------------
(***************************************************************************)
(* The driver card file made of the activities of a user over a period     *)
(* (helpers/tachograph/__init__.py): one record a day with the changes of  *)
(* activity, the vehicles used, the period out of scope, in files of fixed *)
(* lengths.                                                                *)
(*                                                                         *)
(* Times are minutes from the midnight of day 0, UTC, CardMinutes a day.   *)
(* An entry of the activity file is the sixteen bits the code writes.      *)
(* Kilometers, the day counter, the name and the files of constants are    *)
(* left out.                                                               *)
(***************************************************************************)
EXTENDS Integers, Sequences, FiniteSets, SequencesExt

CONSTANTS
  CardMinutes,    \* the minutes of a day
  CardSpace,      \* ACTIVITY_BYTES
  MaxCabRecords,  \* MAX_VEHICLE_RECORDS
  Ride,           \* the missions of the driver, numbers in time order
  CabOf(_),       \* the vehicle of a mission
  NoCab,
  CardType,       \* the activity types he logs
  LastCardMinute, \* bound: the clock
  MaxDriverActs   \* bound: the activities

VARIABLES
  cardClock,   \* the minute
  driverActs,  \* the activities of the driver, in order
  card         \* the file just made, NoCard when work went on

tachographVars == <<cardClock, driverActs, card>>

NoCard == [days |-> <<>>]
StillRuns == -1
IsRunning(a) == a.end = StillRuns
Today == cardClock \div CardMinutes
DayStart(day) == day * CardMinutes
Sooner(s, t) == IF s < t THEN s ELSE t
LaterOf(s, t) == IF s < t THEN t ELSE s

-----------------------------------------------------------------------------
(* The work days (as Regulations has them), running activities until today. *)

OnDay(day) == SelectSeq(driverActs, LAMBDA a :
  /\ day <= Today
  /\ a.start < DayStart(day + 1)
  /\ IsRunning(a) \/ a.end > DayStart(day))

OfRide(ride) == {a \in ToSet(driverActs) : a.ride = ride}

\* is_first_mission_overlapping_with_previous_day
FirstRideOverlaps(day) ==
  /\ OnDay(day) # <<>>
  /\ \E a \in OfRide(OnDay(day)[1].ride) : a.start < DayStart(day)

\* is_last_mission_overlapping_with_next_day
LastRideOverlaps(day) ==
  /\ OnDay(day) # <<>>
  /\ \E a \in OfRide(Last(OnDay(day)).ride) : IsRunning(a) \/ a.end > DayStart(day + 1)

-----------------------------------------------------------------------------
(* The changes of activity of a day, as sixteen bits.                       *)

Bits(type) ==
  CASE type = "rest"                  -> 0
    [] type = "transfer"              -> 1
    [] type \in {"drive", "support"}  -> 3
    [] OTHER                          -> 2

Bit(condition, weight) == IF condition THEN weight ELSE 0

Entry(type, minute, unknown) ==
  Bit(type = "support", 32768 + 16384) + Bit(unknown, 8192) + Bits(type) * 2048 + minute

\* Seeded fault: an activity that starts at midnight is not under way.
AtMidnightAfter(day) ==
  IF OnDay(day) # <<>> /\ OnDay(day)[1].start < DayStart(day)
    THEN Entry(OnDay(day)[1].type, 0, FALSE)
    ELSE Entry("rest", 0, ~FirstRideOverlaps(day))

AtMidnight(day) ==
  IF OnDay(day) # <<>> /\ OnDay(day)[1].start <= DayStart(day)
    THEN Entry(OnDay(day)[1].type, 0, FALSE)
    ELSE Entry("rest", 0, ~FirstRideOverlaps(day))

AtStart(a, day) ==
  IF a.start > DayStart(day) THEN <<Entry(a.type, a.start - DayStart(day), FALSE)>> ELSE <<>>

AtEnd(acts, i, day) ==
  LET a == acts[i]
  IN  IF /\ ~IsRunning(a)
         /\ a.end < DayStart(day + 1)
         /\ i < Len(acts) => acts[i + 1].start # a.end
        THEN <<Entry("rest", a.end - DayStart(day),
                     i = Len(acts) /\ ~LastRideOverlaps(day))>>
        ELSE <<>>

IsUnknown(entry) == (entry \div 8192) % 2 = 1

\* The card is out of the reader from now on.
ThroughNow(entries, day) ==
  IF day = Today /\ ~IsUnknown(Last(entries))
    THEN Append(entries, Entry("rest", cardClock - DayStart(day), TRUE))
    ELSE entries

Entries(day) ==
  LET acts == OnDay(day)
  IN  ThroughNow(<<AtMidnight(day)>> \o
        FlattenSeq([i \in DOMAIN acts |-> AtStart(acts[i], day) \o AtEnd(acts, i, day)]), day)

-----------------------------------------------------------------------------
(* The days that fit, from the last one back.                               *)

SpaceNeeded(day) ==
  LET acts == ToSet(OnDay(day))
  IN  14 + 2 * Cardinality({a.start : a \in acts} \cup {a.end : a \in {b \in acts : ~IsRunning(b)}})

\* Two bytes are kept for the entry of now.
SpaceFor(last) == CardSpace - (IF last = Today THEN 2 ELSE 0)

KeptDays(first, last) ==
  {day \in first..last :
     FoldLeft(LAMBDA sum, d : sum + SpaceNeeded(d), 0,
              [i \in 1..(last - day + 1) |-> day + i - 1]) <= SpaceFor(last)}

FirstKept(first, last) ==
  CHOOSE day \in first..(last + 1) :
    /\ KeptDays(first, last) = day..last

RecordLength(entries) == 12 + 2 * Len(entries)

LengthsBefore(days, i) ==
  FoldLeft(LAMBDA sum, d : sum + d.length, 0, SubSeq(days, 1, i - 1))

DayRecords(first, last) ==
  [i \in 1..(last - first + 1) |->
     LET day == first + i - 1
     IN  [day      |-> day,
          entries  |-> Entries(day),
          length   |-> RecordLength(Entries(day)),
          previous |-> IF i = 1 THEN 0 ELSE RecordLength(Entries(day - 1))]]

NewestOffset(days) == LengthsBefore(days, Len(days))

-----------------------------------------------------------------------------
(* build_vehicles_file                                                      *)

LastMinuteIn(a, day) ==
  IF IsRunning(a) THEN DayStart(day + 1) - 1 ELSE Sooner(a.end, DayStart(day + 1) - 1)

\* A mission without a vehicle leaves the record of the one before open.
UseCab(use, a, day) ==
  LET cab == CabOf(a.ride)
      rows == use.rows
  IN  IF cab = NoCab THEN use
      ELSE [ride |-> a.ride, cab |-> cab,
            rows |-> IF a.ride # use.ride /\ cab # use.cab
              THEN Append(rows, [cab |-> cab, from |-> LaterOf(a.start, DayStart(day)),
                                 to |-> LastMinuteIn(a, day)])
              ELSE [rows EXCEPT ![Len(rows)].to = LastMinuteIn(a, day)]]

CabsOn(day) ==
  FoldLeft(LAMBDA use, a : UseCab(use, a, day),
           [ride |-> 0, cab |-> NoCab, rows |-> <<>>], OnDay(day)).rows

NewestCabs(rows) == SubSeq(rows, LaterOf(1, Len(rows) - MaxCabRecords + 1), Len(rows))

CabRecords(first, last) ==
  NewestCabs(FlattenSeq([i \in 1..(last - first + 1) |-> CabsOn(first + i - 1)]))

-----------------------------------------------------------------------------
\* build_specific_conditions_file
Scope(first, last) ==
  [from |-> DayStart(first), to |-> Sooner(cardClock, DayStart(last + 1) - 1)]

\* generate_tachograph_parts
MakeCard(first, last) ==
  LET kept == FirstKept(first, last)
      days == DayRecords(kept, last)
  IN  /\ card = NoCard
      /\ card' = [days   |-> days,
                  newest |-> NewestOffset(days),
                  cabs   |-> CabRecords(kept, last),
                  scope  |-> Scope(kept, last),
                  last   |-> last]
      /\ UNCHANGED <<cardClock, driverActs>>

\* An activity is logged now; the one that runs ends.
LogDriverAct(type, ride) ==
  LET before == IF driverActs # <<>> /\ IsRunning(Last(driverActs))
                  THEN [driverActs EXCEPT ![Len(driverActs)].end = cardClock]
                  ELSE driverActs
  IN  /\ Len(driverActs) < MaxDriverActs
      /\ driverActs # <<>> =>
           /\ ride >= Last(driverActs).ride
           /\ Last(driverActs).start < cardClock
      /\ driverActs' = Append(before, [type |-> type, ride |-> ride,
                                       start |-> cardClock, end |-> StillRuns])
      /\ card' = NoCard
      /\ UNCHANGED cardClock

EndDriverAct ==
  /\ driverActs # <<>>
  /\ IsRunning(Last(driverActs))
  /\ Last(driverActs).start < cardClock
  /\ driverActs' = [driverActs EXCEPT ![Len(driverActs)].end = cardClock]
  /\ card' = NoCard
  /\ UNCHANGED cardClock

NextCardMinute ==
  /\ cardClock < LastCardMinute
  /\ cardClock' = cardClock + 1
  /\ card' = NoCard
  /\ UNCHANGED driverActs

TachographInit == cardClock = 0 /\ driverActs = <<>> /\ card = NoCard

TachographNext ==
  \/ \E type \in CardType, ride \in Ride : LogDriverAct(type, ride)
  \/ EndDriverAct
  \/ NextCardMinute
  \/ \E first, last \in 0..(LastCardMinute \div CardMinutes) :
       first <= Today /\ first <= last /\ MakeCard(first, last)

TachographSpec == TachographInit /\ [][TachographNext]_tachographVars

-----------------------------------------------------------------------------
(* What reads the file.                                                     *)

MinuteOf(entry) == entry % 2048

EntryAt(record, minute) ==
  LET known == {i \in DOMAIN record.entries : MinuteOf(record.entries[i]) <= minute}
  IN  record.entries[CHOOSE i \in known : \A j \in known : j <= i]

CoversCut(a, time) == a.start <= time /\ (IsRunning(a) \/ time < a.end)

\* Every variable has its type; activities follow one another; each record
\* starts with midnight, in sixteen bits and in the order of time.
CardTypeOK ==
  /\ cardClock \in 0..LastCardMinute
  /\ \A i \in DOMAIN driverActs :
       /\ driverActs[i].ride \in Ride /\ driverActs[i].type \in CardType
       /\ driverActs[i].end \in {StillRuns} \cup (driverActs[i].start + 1)..cardClock
  /\ \A i \in DOMAIN card.days : LET words == card.days[i].entries IN
       /\ MinuteOf(words[1]) = 0
       /\ \A j \in DOMAIN words : words[j] \in 0..65535
       /\ \A j \in 1..(Len(words) - 1) : MinuteOf(words[j]) <= MinuteOf(words[j + 1])

\* The file tells, minute by minute until now, the activity of the driver and
\* whether he was the passenger; from now on, and only when he does nothing,
\* the card is out of the reader.
CardTellsTheWork ==
  \A i \in DOMAIN card.days : \A minute \in 0..(CardMinutes - 1) :
    LET entry == EntryAt(card.days[i], minute)
        time == DayStart(card.days[i].day) + minute
        done == {a \in ToSet(driverActs) : CoversCut(a, time)}
    IN  IF time < cardClock /\ done # {}
          THEN \A a \in done : entry - MinuteOf(entry) = Entry(a.type, 0, FALSE)
          ELSE /\ (entry \div 2048) % 4 = 0
               /\ time >= cardClock => IsUnknown(entry)

\* The records fit in the space of the file, and a reader that goes back from
\* the newest one by the lengths of the previous finds every day, the last day
\* of the period first, and none missing.
CardReadsBack ==
  card # NoCard =>
    LET days == card.days
    IN  /\ card.last <= Today => LengthsBefore(days, Len(days) + 1) <= CardSpace
        /\ days # <<>> =>
             /\ card.newest = LengthsBefore(days, Len(days))
             /\ Last(days).day = card.last
        /\ \A i \in 2..Len(days) :
             /\ LengthsBefore(days, i) - days[i].previous = LengthsBefore(days, i - 1)
             /\ days[i].day = days[i - 1].day + 1

\* The vehicle records follow one another, and tell of every minute worked
\* with a vehicle in the days of the file; once the table is full the oldest
\* are left out.
CabsAreRecorded ==
  card # NoCard =>
    LET cabs == card.cabs
    IN  /\ Len(cabs) <= MaxCabRecords
        /\ \A i \in 1..(Len(cabs) - 1) : cabs[i].to <= cabs[i + 1].from
        /\ \A i \in DOMAIN card.days : \A a \in ToSet(OnDay(card.days[i].day)) :
             LET day == card.days[i].day
             IN  CabOf(a.ride) # NoCab =>
                   \/ \E r \in ToSet(cabs) :
                        /\ r.cab = CabOf(a.ride)
                        /\ r.from <= LaterOf(a.start, DayStart(day))
                        /\ r.to >= LastMinuteIn(a, day)
                   \/ Len(cabs) = MaxCabRecords /\ a.start < cabs[1].from

\* Nothing the file tells is outside the period it declares out of scope.
ScopeHoldsTheWork ==
  \A i \in DOMAIN card.days : \A a \in ToSet(OnDay(card.days[i].day)) :
    /\ card.scope.from <= LaterOf(a.start, DayStart(card.days[i].day))
    /\ ~IsRunning(a) => Sooner(a.end, DayStart(card.last + 1)) - 1 <= card.scope.to

\* The card of a driver tells his work minute by minute, with his vehicles,
\* in the space it has and so that a reader finds every day.
CardIsFaithful ==
  /\ CardTypeOK
  /\ CardTellsTheWork
  /\ CardReadsBack
  /\ CabsAreRecorded
  /\ ScopeHoldsTheWork
=============================================================================
