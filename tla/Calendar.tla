------------------------------- MODULE Calendar -------------------------------
(***************************************************************************)
(* The calendar (src/models/calendar.rs): the videos of the library that   *)
(* are released in the selected month, by the day, from the answers of     *)
(* the add-ons' catalogs.                                                  *)
(*                                                                         *)
(* A date is [year, month, day]; a request is represented by a name and    *)
(* what it is answered with by the set of its videos' release dates.       *)
(***************************************************************************)
EXTENDS Loadables, Sequences, Functions

CONSTANTS
  Months,     \* bound: months that are selected, [year, month]
  Dates,      \* bound: dates that it may be
  Plans,      \* bound: the requests that the library's items lead to
  Answers     \* bound: sets of release dates; None is a video without

Requests == UNION {{plan[i] : i \in DOMAIN plan} : plan \in Plans}

MonthOf(date) == [year |-> date.year, month |-> date.month]

Leap(year) == year % 4 = 0 /\ (year % 100 # 0 \/ year % 400 = 0)

\* The day before the first of the next month.
DaysIn(m) ==
  IF m.month = 2 THEN (IF Leap(m.year) THEN 29 ELSE 28)
  ELSE IF m.month \in {4, 6, 9, 11} THEN 30 ELSE 31

\* No plan has a request twice, and what is released is released on a day there is.
PlansAssumption == Free \notin Requests /\ \A plan \in Plans : plan \in Seq(Requests) /\ IsInjective(plan)
AnswersAssumption ==
  \A answer \in Answers :
    /\ answer \notin {Loading, Failed}
    /\ \A date \in answer \ {None} : date.day \in 1 .. DaysIn(MonthOf(date))

VARIABLES
  now,          \* Env::now()
  selected, selectable, month_info, items,
  meta_items,   \* a sequence of [request, content]
  asked         \* requests under way

calendarVars == <<now, selected, selectable, month_info, items, meta_items, asked>>

\* The first of the month after, and before.
After(m) == IF m.month = 12 THEN [year |-> m.year + 1, month |-> 1] ELSE [m EXCEPT !.month = @ + 1]
Before(m) == IF m.month = 1 THEN [year |-> m.year - 1, month |-> 12] ELSE [m EXCEPT !.month = @ - 1]

\* weekday().num_days_from_monday() of the first, by Zeller's rule.
FirstWeekday(m) ==
  LET y == IF m.month < 3 THEN m.year - 1 ELSE m.year
      k == IF m.month < 3 THEN m.month + 12 ELSE m.month
  IN ((13 * (k + 1)) \div 5 + y + y \div 4 - y \div 100 + y \div 400 + 6) % 7
-----------------------------------------------------------------------------
\* month_info_update and selectable_update
MonthInfo(m) ==
  [today |-> IF MonthOf(now) = m THEN now.day ELSE None,
   days |-> DaysIn(m), first_weekday |-> FirstWeekday(m)]

Selectable(m) == [prev |-> Before(m), next |-> After(m)]

\* items_update: of each day, what is released on it, by the answers that are there.
ItemsOf(m, info, metas) ==
  [day \in 1 .. info.days |->
     UNION {{<<i, date>> : date \in {d \in metas[i].content : d # None /\ MonthOf(d) = m /\ d.day = day}} :
              i \in {j \in DOMAIN metas : metas[j].content \notin {Loading, Failed}}}]

\* ActionLoad::Calendar.  What was asked for is not asked again until it is unloaded.
Load(choice, plan) ==
  /\ selected' = IF choice = None THEN MonthOf(now) ELSE choice
  /\ month_info' = MonthInfo(selected') /\ selectable' = Selectable(selected')
  /\ IF meta_items = <<>>
       THEN /\ meta_items' = [i \in DOMAIN plan |-> [request |-> plan[i], content |-> Loading]]
            /\ asked' \in SentAll(asked, {plan[i] : i \in DOMAIN plan})
       ELSE UNCHANGED <<meta_items, asked>>
  /\ items' = ItemsOf(selected', month_info', meta_items')
  /\ UNCHANGED now

\* Action::Unload
Unload ==
  /\ selected' = None /\ selectable' = None /\ month_info' = None /\ items' = <<>>
  /\ meta_items' = <<>>
  /\ UNCHANGED <<now, asked>>

\* The first resource with the request, while it is loading.
Waiting(request) ==
  {i \in DOMAIN meta_items : meta_items[i] = [request |-> request, content |-> Loading] /\
     \A j \in 1 .. i - 1 : meta_items[j].request # request \/ meta_items[j].content # Loading}

\* Internal::ResourceRequestResult
ResourceRequestResult(s, result) ==
  /\ asked[s] # Free
  /\ meta_items' = [i \in DOMAIN meta_items |->
       IF i \in Waiting(asked[s]) THEN [meta_items[i] EXCEPT !.content = result] ELSE meta_items[i]]
  /\ items' = IF selected = None THEN <<>> ELSE ItemsOf(selected, month_info, meta_items')
  /\ asked' = Ended(asked, s)
  /\ UNCHANGED <<now, selected, selectable, month_info>>

Tick(date) ==
  /\ now' = date
  /\ UNCHANGED <<selected, selectable, month_info, items, meta_items, asked>>
-----------------------------------------------------------------------------
Init ==
  /\ now \in Dates
  /\ selected = None /\ selectable = None /\ month_info = None /\ items = <<>>
  /\ meta_items = <<>> /\ asked = NoFlight

Next ==
  \/ \E choice \in Months \cup {None}, plan \in Plans : Load(choice, plan)
  \/ Unload
  \/ \E s \in Slots, result \in Answers \cup {Failed} : ResourceRequestResult(s, result)
  \/ \E date \in Dates \ {now} : Tick(date)

Spec == Init /\ [][Next]_calendarVars
-----------------------------------------------------------------------------
\* Every video of the answers that is released in the selected month is on the
\* calendar, on one day, and no other is: whichever answers came before the month
\* was selected, and on the last days of the month too (calendar.rs:236).
CalendarIsOfMonth ==
  selected # None =>
    /\ UNION {items[day] : day \in DOMAIN items} =
         UNION {{<<i, date>> : date \in {d \in meta_items[i].content : d # None /\ MonthOf(d) = selected}} :
                  i \in {j \in DOMAIN meta_items : meta_items[j].content \notin {Loading, Failed}}}
    /\ \A day \in DOMAIN items : \A video \in items[day] : video[2].day = day

\* What is Loading will be answered, also by what was asked before an Unload.
CalendarIsAnswered ==
  \A i \in DOMAIN meta_items :
    meta_items[i].content = Loading => UnderWay(asked, meta_items[i].request)
=============================================================================
