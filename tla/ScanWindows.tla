----------------------------- MODULE ScanWindows -----------------------------
(***************************************************************************)
(* The firing window of a scan schedule: the form that sets it, the row it *)
(* becomes, and the tick that leaves a due schedule for later while the    *)
(* wall clock of its time zone is outside.                                 *)
(*                                                                         *)
(* Time is a minute of the week in UTC, minute 0 being the start of Sunday *)
(* (weekday 0).  A day has MinutesPerDay minutes, so that a model may use  *)
(* short days.  A zone is ahead of UTC by its offset, which daylight       *)
(* saving changes while schedules are waiting (external: the zone          *)
(* database).                                                              *)
(***************************************************************************)
EXTENDS Integers

CONSTANTS
  MinutesPerDay,  \* 1440 in the program
  Offsets,        \* Offsets[z]: the offsets from UTC that zone z takes in turn
  DayChoices      \* the sets of weekdays that are ticked in forms

Weekdays == 0 .. 6
Minutes  == 0 .. MinutesPerDay - 1
Week     == 7 * MinutesPerDay
Zones    == DOMAIN Offsets
Blank    == -1     \* an empty field of the form; -1 also is "no bound" in a scanWindow

ASSUME ScanWindowsAssumption ==
  /\ MinutesPerDay \in Nat \ {0}
  /\ "UTC" \in Zones /\ Offsets["UTC"] = {0}
  /\ \A z \in Zones : Offsets[z] \subseteq Int /\ Offsets[z] # {}

VARIABLES
  form,     \* the form last accepted, as it was filled in
  row,      \* the window columns of the schedule
  offset,   \* offset[z]: how far z is ahead of UTC now
  now,      \* UTC, as a minute of the week
  due,      \* the schedule is enabled and next_run_at has passed
  tick      \* history: what the tick that has just ended did, "none" after any other step

windowVars == <<form, row, offset, now, due, tick>>

-----------------------------------------------------------------------------
Form == [start : Minutes \cup {Blank}, end : Minutes \cup {Blank},
         days : DayChoices, tz : Zones \cup {"", "unknown"}]

\* parseScheduleWindow: what is refused.
Refused(f) ==
  \/ (f.start = Blank) # (f.end = Blank)
  \/ f.start # Blank /\ f.start = f.end
  \/ ~ (f.days \subseteq Weekdays)
  \/ f.tz = "unknown"

parseScheduleWindow(f) ==
  [start |-> f.start, end |-> f.end, days |-> f.days, tz |-> IF f.tz = "" THEN "UTC" ELSE f.tz]

windowFromSchedule(r) ==
  [startMin |-> r.start, endMin |-> r.end, days |-> r.days \cap Weekdays,
   loc |-> IF r.tz # "UTC" /\ r.tz \in Zones THEN r.tz ELSE "UTC"]

\* now.In(loc)
In(loc) == (now + offset[loc]) % Week

\* Mutant: a window that ends before it starts is read as one that does not.
windowAllowsUnwrapped(w) ==
  LET local == In(w.loc)
      cur   == local % MinutesPerDay
  IN /\ w.days = {} \/ local \div MinutesPerDay \in w.days
     /\ \/ w.startMin < 0 \/ w.endMin < 0 \/ w.startMin = w.endMin
        \/ w.startMin <= cur /\ cur < w.endMin

windowAllows(w) ==
  LET local == In(w.loc)
      cur   == local % MinutesPerDay
  IN /\ w.days = {} \/ local \div MinutesPerDay \in w.days
     /\ \/ w.startMin < 0 \/ w.endMin < 0 \/ w.startMin = w.endMin
        \/ w.startMin < w.endMin /\ w.startMin <= cur /\ cur < w.endMin
        \/ w.startMin > w.endMin /\ (w.startMin <= cur \/ cur < w.endMin)

-----------------------------------------------------------------------------
\* The schedule is edited with an accepted form; a refused one changes nothing, and
\* creation stores the same columns.
SaveSchedule(f) ==
  /\ ~ Refused(f)
  /\ form' = f
  /\ row' = parseScheduleWindow(f)
  /\ tick' = "none"
  /\ UNCHANGED <<offset, now, due>>

FallsDue == ~ due /\ due' = TRUE /\ tick' = "none" /\ UNCHANGED <<form, row, offset, now>>

\* One tick, for this schedule: it judges the row that it listed by one look at the
\* clock, so a save comes before it or after it.
RunDueSchedules ==
  /\ due
  /\ LET fires == windowAllows(windowFromSchedule(row))
     IN /\ due' = ~ fires
        /\ tick' = IF fires THEN "fired" ELSE "skipped"
  /\ UNCHANGED <<form, row, offset, now>>

MinutePasses ==
  /\ now' = (now + 1) % Week
  /\ tick' = "none"
  /\ UNCHANGED <<form, row, offset, due>>

ZoneShifts(z, o) ==
  /\ o # offset[z]
  /\ offset' = [offset EXCEPT ![z] = o]
  /\ tick' = "none"
  /\ UNCHANGED <<form, row, now, due>>

-----------------------------------------------------------------------------
\* A schedule without a window, at the start of the week.
WindowInit ==
  /\ form = [start |-> Blank, end |-> Blank, days |-> {}, tz |-> ""]
  /\ row = parseScheduleWindow(form)
  /\ offset \in [Zones -> UNION {Offsets[z] : z \in Zones}]
  /\ \A z \in Zones : offset[z] \in Offsets[z]
  /\ now = 0 /\ due = FALSE /\ tick = "none"

WindowNext ==
  \/ \E f \in Form : SaveSchedule(f)
  \/ FallsDue \/ RunDueSchedules \/ MinutePasses
  \/ \E z \in Zones : \E o \in Offsets[z] : ZoneShifts(z, o)

-----------------------------------------------------------------------------
(* Properties.                                                             *)

\* The minutes of the local week that a form asks for: on each ticked day (on every
\* day, if none is ticked), those met walking from start up to end around the clock
\* of that same day.
OpenMinutes(f) ==
  LET length == IF f.start = Blank THEN MinutesPerDay ELSE (f.end - f.start) % MinutesPerDay
      start  == IF f.start = Blank THEN 0 ELSE f.start
  IN {d * MinutesPerDay + ((start + k) % MinutesPerDay) :
        d \in IF f.days = {} THEN Weekdays ELSE f.days, k \in 0 .. length - 1}

\* A tick fires a due schedule exactly when the clock of its zone shows a minute that
\* the form asked for, overnight windows and zones across midnight or the end of the
\* week included.
TickHonoursWindow ==
  LET asked == In(IF form.tz = "" THEN "UTC" ELSE form.tz) \in OpenMinutes(form)
  IN (tick = "fired" => asked) /\ (tick = "skipped" => ~ asked)
=============================================================================
