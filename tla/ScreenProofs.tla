---------------------------- MODULE ScreenProofs ----------------------------
(***************************************************************************)
(* Proofs about ScreenModels for any add-ons, titles, answers and urls and *)
(* any number of requests under way.  Each part has an invariant of its    *)
(* own, which its steps keep; the last section puts them together.         *)
(* That a catalog's request is not the mark of a free slot is a hypothesis *)
(* of WhatLoadsIsUnderWay alone, since TLC could not evaluate it.          *)
(***************************************************************************)
EXTENDS ScreenModels, Integers, FiniteSetTheorems, WellFoundedInduction, TLAPS

(* Requests under way, in any of the parts *)

\* What there is under way in some slots after some requests were sent.
AllSent(slots, flight, requests) ==
  LET free == {s \in slots : flight[s] = Free} IN
  {[s \in slots |-> IF \E r \in requests : at[r] = s
                      THEN CHOOSE r \in requests : at[r] = s ELSE flight[s]] :
     at \in {a \in [requests -> free] : \A q, r \in requests : a[q] = a[r] => q = r}}

\* What is sent is under way, and what was remains so.
LEMMA SentAllIs ==
  ASSUME NEW slots, NEW flight, NEW requests, NEW next \in AllSent(slots, flight, requests)
  PROVE  /\ next = [s \in slots |-> next[s]]
         /\ \A r \in requests : \E s \in slots : next[s] = r
         /\ \A s \in slots : flight[s] # Free => next[s] = flight[s]
         /\ \A s \in slots : next[s] = flight[s] \/ next[s] \in requests
<1> DEFINE free == {s \in slots : flight[s] = Free}
<1>1. PICK at \in {a \in [requests -> free] : \A q, r \in requests : a[q] = a[r] => q = r} :
             next = [s \in slots |-> IF \E r \in requests : at[r] = s
                                       THEN CHOOSE r \in requests : at[r] = s ELSE flight[s]]
  BY DEF AllSent
<1>2. ASSUME NEW r \in requests
      PROVE  at[r] \in slots /\ next[at[r]] = r
  <2>1. at[r] \in slots
    BY <1>1
  <2>2. (CHOOSE q \in requests : at[q] = at[r]) = r
    BY <1>1
  <2> QED
    BY <1>1, <2>1, <2>2
<1>3. ASSUME NEW s \in slots, flight[s] # Free
      PROVE  next[s] = flight[s]
  BY <1>1, <1>3
<1>4. ASSUME NEW s \in slots
      PROVE  next[s] = flight[s] \/ next[s] \in requests
  BY <1>1
<1> QED
  BY <1>1, <1>2, <1>3, <1>4
-----------------------------------------------------------------------------
(* Local search *)

SearchInv ==
  /\ Search!SearchIsOfRecords /\ Search!RecordsAreAnswered
  /\ feeds \in [Slots -> {Feed, Free}]

LEMMA SearchBegins ==
  ASSUME Search!Init
  PROVE  SearchInv
BY MarksAssumption
DEF SearchInv, Search!Init, Search!SearchIsOfRecords, Search!RecordsAreAnswered, Search!NoFlight,
    Details!LoadableAssumption

LEMMA SearchSteps ==
  ASSUME SearchInv, [Search!Next]_searchVars
  PROVE  SearchInv'
<1> USE MarksAssumption, SearchAssumption DEF SearchInv, Details!LoadableAssumption, Search!FeedsAssumption
<1>1. CASE Search!Load
  <2>1. PICK s \in Slots : feeds[s] = Free /\ feeds' = [feeds EXCEPT ![s] = Feed]
    BY <1>1 DEF Search!Load, Search!Sent
  <2> QED
    BY <1>1, <2>1 DEF Search!Load, Search!SearchIsOfRecords, Search!RecordsAreAnswered, Search!UnderWay
<1>2. ASSUME NEW query \in Queries, Search!Search(query)
      PROVE  SearchInv'
  BY <1>2 DEF Search!Search, Search!SearchIsOfRecords, Search!RecordsAreAnswered, Search!UnderWay
<1>3. ASSUME NEW s \in Slots, NEW result \in Feeds \cup {Failed}, Search!LoadLocalSearchResult(s, result)
      PROVE  SearchInv'
  <2>1. feeds' \in [Slots -> {Feed, Free}] /\ latest_records' # Loading
    BY <1>3 DEF Search!LoadLocalSearchResult, Search!Ended
  <2>2. CASE result = Failed
    BY <1>3, <2>1, <2>2 DEF Search!LoadLocalSearchResult, Search!SearchIsOfRecords, Search!RecordsAreAnswered
  <2>3. CASE result # Failed
    <3>1. /\ current_records' = result \ Nameless /\ latest_records' = current_records'
          /\ searcher' = IF current_records' # current_records THEN current_records' ELSE searcher
          /\ current_records' # None
      BY <1>3, <2>3 DEF Search!LoadLocalSearchResult, Search!Indexed
    <3> QED
      BY <2>1, <3>1 DEF Search!SearchIsOfRecords, Search!RecordsAreAnswered
  <2> QED
    BY <2>2, <2>3
<1>4. CASE UNCHANGED searchVars
  BY <1>4 DEF searchVars, Search!SearchIsOfRecords, Search!RecordsAreAnswered, Search!UnderWay
<1> QED
  BY <1>1, <1>2, <1>3, <1>4 DEF Search!Next
-----------------------------------------------------------------------------
(* The calendar *)

MonthInv ==
  /\ calendar_items = [i \in 1 .. Len(calendar_items) |-> calendar_items[i]] /\ Len(calendar_items) \in Nat
  /\ \A i \in DOMAIN calendar_items :
       /\ calendar_items[i] = [request |-> calendar_items[i].request, content |-> calendar_items[i].content]
       /\ calendar_items[i].request # Free
       /\ calendar_items[i].content \in Answers \cup {Loading, Failed}
       /\ \A j \in DOMAIN calendar_items : calendar_items[i].request = calendar_items[j].request => i = j
  /\ asked = [s \in Slots |-> asked[s]]
  /\ Month!CalendarIsAnswered
  /\ month # None => /\ month_info.days = Month!DaysIn(month)
                     /\ days = Month!ItemsOf(month, month_info, calendar_items)

\* The calendar of the invariant has what is released in the month, each on its day.
LEMMA MonthIsShown ==
  ASSUME MonthInv
  PROVE  Month!CalendarIsOfMonth
<1> SUFFICES ASSUME month # None
             PROVE  /\ UNION {days[day] : day \in DOMAIN days} =
                         UNION {{<<i, date>> : date \in {d \in calendar_items[i].content : d # None /\ Month!MonthOf(d) = month}} :
                                  i \in {j \in DOMAIN calendar_items : calendar_items[j].content \notin {Loading, Failed}}}
                    /\ \A day \in DOMAIN days : \A video \in days[day] : video[2].day = day
  BY DEF Month!CalendarIsOfMonth
<1> DEFINE Known == {j \in DOMAIN calendar_items : calendar_items[j].content \notin {Loading, Failed}}
           Of(i) == {d \in calendar_items[i].content : d # None /\ Month!MonthOf(d) = month}
           On(i, day) == {d \in calendar_items[i].content : d # None /\ Month!MonthOf(d) = month /\ d.day = day}
<1>1. days = [day \in 1 .. Month!DaysIn(month) |-> UNION {{<<i, date>> : date \in On(i, day)} : i \in Known}]
  BY DEF MonthInv, Month!ItemsOf
<1>2. ASSUME NEW i \in Known, NEW d \in Of(i)
      PROVE  d.day \in 1 .. Month!DaysIn(month) /\ d \in On(i, d.day)
  BY <1>2, MonthAssumption DEF MonthInv, Month!AnswersAssumption
<1>3. ASSUME NEW day \in DOMAIN days, NEW video \in days[day]
      PROVE  \E i \in Known : \E d \in On(i, day) : video = <<i, d>>
  BY <1>1, <1>3
<1> HIDE DEF Known
<1>4. ASSUME NEW day \in DOMAIN days, NEW video \in days[day]
      PROVE  /\ video[2].day = day
             /\ video \in UNION {{<<i, date>> : date \in Of(i)} : i \in Known}
  <2>1. PICK i \in Known : \E d \in On(i, day) : video = <<i, d>>
    BY <1>3, <1>4
  <2>2. PICK d \in On(i, day) : video = <<i, d>>
    BY <2>1
  <2>3. d \in Of(i) /\ d.day = day
    OBVIOUS
  <2> QED
    BY <2>2, <2>3
<1>5. ASSUME NEW video \in UNION {{<<i, date>> : date \in Of(i)} : i \in Known}
      PROVE  video \in UNION {days[day] : day \in DOMAIN days}
  <2>0. PICK i \in Known : video \in {<<i, date>> : date \in Of(i)}
    BY <1>5
  <2>1. PICK d \in Of(i) : video = <<i, d>>
    BY <2>0
  <2>2. d.day \in 1 .. Month!DaysIn(month) /\ d \in On(i, d.day)
    BY <1>2, <2>1
  <2>3. video \in UNION {{<<j, date>> : date \in On(j, d.day)} : j \in Known}
    BY <2>1, <2>2
  <2>4. d.day \in DOMAIN days /\ video \in days[d.day]
    BY <1>1, <2>2, <2>3
  <2> QED
    BY <2>4
<1>6. UNION {days[day] : day \in DOMAIN days} = UNION {{<<i, date>> : date \in Of(i)} : i \in Known}
  BY <1>4, <1>5
<1> QED
  BY <1>4, <1>6 DEF Known

LEMMA MonthBegins ==
  ASSUME Month!Init
  PROVE  MonthInv
BY DEF MonthInv, Month!Init, Month!CalendarIsAnswered, Month!NoFlight

LEMMA MonthLoads ==
  ASSUME MonthInv, NEW choice, NEW plan \in Plans, Month!Load(choice, plan)
  PROVE  MonthInv'
<1> DEFINE requests == {plan[i] : i \in DOMAIN plan}
<1>1. /\ month_info'.days = Month!DaysIn(month')
      /\ days' = Month!ItemsOf(month', month_info', calendar_items')
  BY DEF Month!Load, Month!MonthInfo
<1>2. CASE calendar_items = <<>>
  <2>1. /\ calendar_items' = [i \in DOMAIN plan |-> [request |-> plan[i], content |-> Loading]]
        /\ asked' \in AllSent(Slots, asked, requests)
    BY <1>2 DEF Month!Load, Month!SentAll, AllSent
  <2>2. /\ asked' = [s \in Slots |-> asked'[s]]
        /\ \A r \in requests : \E s \in Slots : asked'[s] = r
    BY <2>1, SentAllIs
  <2>3. /\ plan \in Seq(Month!Requests) /\ Free \notin requests
        /\ \A i, j \in DOMAIN plan : plan[i] = plan[j] => i = j
    BY MonthAssumption DEF Month!PlansAssumption, Month!IsInjective, Month!Requests
  <2>4. calendar_items' = [i \in 1 .. Len(calendar_items') |-> calendar_items'[i]] /\ Len(calendar_items') \in Nat
    BY <2>1, <2>3
  <2>5. Month!CalendarIsAnswered'
    BY <2>1, <2>2 DEF Month!CalendarIsAnswered, Month!UnderWay
  <2> QED
    BY <1>1, <2>1, <2>2, <2>3, <2>4, <2>5 DEF MonthInv
<1>3. CASE calendar_items # <<>>
  <2>1. UNCHANGED <<calendar_items, asked>>
    BY <1>3 DEF Month!Load
  <2> QED
    BY <1>1, <2>1 DEF MonthInv, Month!CalendarIsAnswered, Month!UnderWay
<1> QED
  BY <1>2, <1>3

LEMMA MonthIsAnswered ==
  ASSUME MonthInv, NEW s \in Slots, NEW result \in Answers \cup {Failed},
         Month!ResourceRequestResult(s, result)
  PROVE  MonthInv'
<1> DEFINE waiting == Month!Waiting(asked[s])
<1>1. /\ DOMAIN calendar_items' = DOMAIN calendar_items
      /\ \A i \in DOMAIN calendar_items :
           calendar_items'[i] = IF i \in waiting THEN [calendar_items[i] EXCEPT !.content = result]
                                                ELSE calendar_items[i]
      /\ calendar_items' = [i \in DOMAIN calendar_items |-> calendar_items'[i]]
  BY DEF Month!ResourceRequestResult
<1>2. \A i \in DOMAIN calendar_items :
        calendar_items[i].request = asked[s] /\ calendar_items[i].content = Loading => i \in waiting
  BY DEF MonthInv, Month!Waiting
<1>3. result # Loading
  BY MonthAssumption, MarksAssumption DEF Month!AnswersAssumption, Details!LoadableAssumption
<1> HIDE DEF waiting
<1>4. \A i \in DOMAIN calendar_items :
        /\ calendar_items'[i] = [request |-> calendar_items[i].request, content |-> calendar_items'[i].content]
        /\ calendar_items'[i].request = calendar_items[i].request
        /\ calendar_items'[i].content = IF i \in waiting THEN result ELSE calendar_items[i].content
  BY <1>1 DEF MonthInv
<1>5. /\ DOMAIN calendar_items = 1 .. Len(calendar_items) /\ Len(calendar_items) \in Nat
      /\ Len(calendar_items') = Len(calendar_items)
  BY <1>1 DEF MonthInv
<1>6. Month!CalendarIsAnswered'
  <2> SUFFICES ASSUME NEW i \in DOMAIN calendar_items, calendar_items'[i].content = Loading
               PROVE  \E t \in Slots : asked'[t] = calendar_items'[i].request
    BY <1>1 DEF Month!CalendarIsAnswered, Month!UnderWay
  <2>1. calendar_items[i].content = Loading /\ i \notin waiting
    BY <1>3, <1>4
  <2>2. PICK t \in Slots : asked[t] = calendar_items[i].request
    BY <2>1 DEF MonthInv, Month!CalendarIsAnswered, Month!UnderWay
  <2>3. t # s
    BY <1>2, <2>1, <2>2
  <2>4. asked'[t] = asked[t]
    BY <2>3 DEF Month!ResourceRequestResult, Month!Ended, MonthInv
  <2>5. calendar_items'[i].request = calendar_items[i].request
    BY <1>4
  <2> QED
    BY <2>2, <2>4, <2>5
<1>7. month' = month /\ month_info' = month_info
      /\ (month # None => days' = Month!ItemsOf(month, month_info, calendar_items'))
      /\ asked' = [t \in Slots |-> asked'[t]]
  BY DEF Month!ResourceRequestResult, Month!Ended, MonthInv
<1> QED
  BY <1>1, <1>4, <1>5, <1>6, <1>7 DEF MonthInv

LEMMA MonthSteps ==
  ASSUME MonthInv, [Month!Next]_calendarVars
  PROVE  MonthInv'
<1>1. ASSUME NEW choice, NEW plan \in Plans, Month!Load(choice, plan)
      PROVE  MonthInv'
  BY <1>1, MonthLoads
<1>2. CASE Month!Unload
  BY <1>2 DEF Month!Unload, MonthInv, Month!CalendarIsAnswered
<1>3. ASSUME NEW s \in Slots, NEW result \in Answers \cup {Failed}, Month!ResourceRequestResult(s, result)
      PROVE  MonthInv'
  BY <1>3, MonthIsAnswered
<1>4. CASE (\E date \in Dates \ {now} : Month!Tick(date)) \/ UNCHANGED calendarVars
  BY <1>4 DEF Month!Tick, calendarVars, MonthInv, Month!CalendarIsAnswered, Month!UnderWay
<1> QED
  BY <1>1, <1>2, <1>3, <1>4 DEF Month!Next
-----------------------------------------------------------------------------
(* The library's screens *)

LibraryInv == Library!ScreensAreCurrent /\ DOMAIN screens = Library!Screens

\* What has been notified does not matter to the page of the library.
LEMMA LibraryUnnotified ==
  \A request, list, n, m : Library!Updated("library", request, list, n) = Library!Updated("library", request, list, m)
<1> TAKE request, list, n, m
<1>1. \A id : Library!Predicate("library", list, n, id) = Library!Predicate("library", list, m, id)
  BY DEF Library!Predicate
<1>2. Library!Selection("library", request, list, n) = Library!Selection("library", request, list, m)
  BY <1>1 DEF Library!Selection
<1>3. Library!TypesOf("library", list, n) = Library!TypesOf("library", list, m)
  BY <1>1 DEF Library!TypesOf
<1> QED
  BY <1>2, <1>3 DEF Library!Updated

LEMMA UpdatedSelects ==
  \A screen, request, list, n : Library!Updated(screen, request, list, n).selected = request
BY DEF Library!Updated

LEMMA LibraryBegins ==
  ASSUME Library!Init
  PROVE  LibraryInv
BY UpdatedSelects DEF LibraryInv, Library!Init, Library!ScreensAreCurrent, Library!Screens, Library!Lists

LEMMA LibrarySteps ==
  ASSUME LibraryInv, [Library!Next]_libraryVars
  PROVE  LibraryInv'
<1>1. ASSUME Library!LibraryChanged, Library!PreviewChanged, Library!Reaches(Library!Lists), UNCHANGED installs
      PROVE  LibraryInv'
  BY <1>1, UpdatedSelects
  DEF LibraryInv, Library!ScreensAreCurrent, Library!LibraryChanged, Library!PreviewChanged,
      Library!ScreensChanged, Library!Screens, Library!installedAddons, Library!Reaches, Library!Lists
<1>2. ASSUME NEW id, NEW item, Library!UpdateLibraryItem(id, item)
      PROVE  LibraryInv'
  BY <1>1, <1>2 DEF Library!UpdateLibraryItem
<1>3. ASSUME NEW list, Library!Replaced(list)
      PROVE  LibraryInv'
  BY <1>1, <1>3 DEF Library!Replaced
<1>4. ASSUME NEW notified, Library!ResourceRequestResult(notified) \/ Library!PullNotifications(notified)
      PROVE  LibraryInv'
  <2>1. /\ UNCHANGED <<items, screens, type, installed, installs>>
        /\ heard["continue_watching"]' = heard["continue_watching"]
    BY <1>4
    DEF Library!ResourceRequestResult, Library!PullNotifications, Library!Reaches, Library!Lists, Library!installedAddons
  <2>2. Library!Updated("library", screens["library"].selected, items, notifications')
          = Library!Updated("library", screens["library"].selected, items, notifications)
    BY LibraryUnnotified
  <2>3. preview' = Library!PreviewItems(items', heard["preview"]')
    <3>1. CASE Library!ResourceRequestResult(notified)
      BY <3>1 DEF Library!ResourceRequestResult, Library!PreviewChanged, Library!Reaches, Library!Lists
    <3>2. CASE Library!PullNotifications(notified)
      BY <3>2 DEF Library!PullNotifications, Library!Reaches, Library!Lists, LibraryInv, Library!ScreensAreCurrent
    <3> QED
      BY <1>4, <3>1, <3>2
  <2> QED
    BY <2>1, <2>2, <2>3 DEF LibraryInv, Library!ScreensAreCurrent
<1>5. ASSUME NEW id, NEW item, Library!DismissNotificationItem(id, item)
      PROVE  LibraryInv'
  BY <1>1, <1>5 DEF Library!DismissNotificationItem
<1>6. ASSUME NEW screen \in Library!Screens, NEW request, Library!LoadScreen(screen, request)
      PROVE  LibraryInv'
  <2>1. /\ UNCHANGED <<items, notifications, preview, type, installed, installs>>
        /\ screens' = [screens EXCEPT ![screen] = Library!Updated(screen, request, items, notifications)]
    BY <1>6 DEF Library!LoadScreen, Library!installedAddons, Library!ctx
  <2>2. /\ heard["preview"]' = heard["preview"]
        /\ heard["continue_watching"]' =
             IF screen = "continue_watching" THEN notifications ELSE heard["continue_watching"]
    BY <1>6, <2>1 DEF Library!LoadScreen, Library!Reaches, Library!Lists, Library!Screens
  <2> QED
    BY <2>1, <2>2, UpdatedSelects DEF LibraryInv, Library!ScreensAreCurrent, Library!Screens
<1>7. ASSUME NEW screen \in Library!Screens, Library!NextScreenPage(screen)
      PROVE  LibraryInv'
  BY <1>6, <1>7 DEF Library!NextScreenPage
<1>8. CASE (\E by \in Sorts : Library!LoadByType(by)) \/ Library!UnloadByType
           \/ \E index \in DOMAIN rows : Library!NextRowPage(index)
  BY <1>8
  DEF LibraryInv, Library!ScreensAreCurrent, Library!LoadByType, Library!UnloadByType, Library!NextRowPage,
      Library!installedAddons, Library!ctx
<1>9. ASSUME NEW t, Library!LoadInstalled(t)
      PROVE  LibraryInv'
  BY <1>9 DEF LibraryInv, Library!ScreensAreCurrent, Library!LoadInstalled, Library!ctx
<1>10. ASSUME NEW collection, Library!ProfileChanged(collection)
      PROVE  LibraryInv'
  BY <1>10 DEF LibraryInv, Library!ScreensAreCurrent, Library!ProfileChanged, Library!byType
<1>11. CASE UNCHANGED libraryVars
  BY <1>11 DEF libraryVars, LibraryInv, Library!ScreensAreCurrent
<1> QED
  BY <1>2, <1>3, <1>4, <1>5, <1>6, <1>7, <1>8, <1>9, <1>10, <1>11 DEF Library!Next
-----------------------------------------------------------------------------
(* The streaming server *)

\* The requests under way are those there are: for the properties, a set.
CallsOK == Server!IsABag(probes) /\ DOMAIN probes \subseteq Server!Call

ShownTyped ==
  /\ key \in Server!Option(Keys) /\ url \in Urls /\ watched \in Server!Option(Torrents)
  /\ settings \in Server!Loadable(Server!Settings)
  /\ {base_url, remote_url} \subseteq Server!Option(Urls)
  /\ playback_devices \in Server!Loadable(Urls) /\ info \in [Infos -> Server!Loadable(Urls)]
  /\ torrent \in Server!Option(Server!Torrent)
  /\ statistics \in Server!Option(Server!Loadable(Server!Statistics))

ServerInv ==
  /\ ShownTyped /\ CallsOK
  /\ Server!ShownIsOfServer /\ Server!ServerIsAnswered /\ Server!OfflineTogether

LEMMA BagsAdd ==
  ASSUME NEW b, NEW c, Server!IsABag(b), Server!IsABag(c)
  PROVE  /\ Server!IsABag(Server!(+)(b, c))
         /\ DOMAIN Server!(+)(b, c) = DOMAIN b \cup DOMAIN c
BY DEF Server!(+), Server!IsABag

LEMMA BagOfSet ==
  ASSUME NEW S
  PROVE  Server!IsABag(Server!SetToBag(S)) /\ DOMAIN Server!SetToBag(S) = S
BY DEF Server!SetToBag, Server!IsABag

LEMMA BagLoses ==
  ASSUME NEW b, NEW c, Server!IsABag(b)
  PROVE  /\ Server!IsABag(Server!(-)(b, Server!SetToBag({c})))
         /\ DOMAIN Server!(-)(b, Server!SetToBag({c})) \subseteq DOMAIN b
         /\ \A d \in DOMAIN b : d # c => d \in DOMAIN Server!(-)(b, Server!SetToBag({c}))
BY DEF Server!(-), Server!SetToBag, Server!IsABag

LEMMA SendAdds ==
  ASSUME CallsOK, NEW bag, Server!IsABag(bag), DOMAIN bag \subseteq Server!Call, Server!Send(bag)
  PROVE  CallsOK' /\ DOMAIN probes' = DOMAIN probes \cup DOMAIN bag
BY BagsAdd DEF CallsOK, Server!Send

LEMMA BagsOfCalls ==
  ASSUME NEW c \in Server!Call, NEW d \in Server!Call
  PROVE  /\ Server!IsABag(Server!SetToBag({c})) /\ DOMAIN Server!SetToBag({c}) \subseteq Server!Call
         /\ Server!IsABag(Server!(+)(Server!SetToBag({c}), Server!SetToBag({d})))
         /\ DOMAIN Server!(+)(Server!SetToBag({c}), Server!SetToBag({d})) \subseteq Server!Call
<1>1. /\ Server!IsABag(Server!SetToBag({c})) /\ DOMAIN Server!SetToBag({c}) = {c}
      /\ Server!IsABag(Server!SetToBag({d})) /\ DOMAIN Server!SetToBag({d}) = {d}
  <2>1. ASSUME NEW x
        PROVE  Server!IsABag(Server!SetToBag({x})) /\ DOMAIN Server!SetToBag({x}) = {x}
    BY DEF Server!SetToBag, Server!IsABag
  <2> QED
    BY <2>1
<1>2. DOMAIN Server!(+)(Server!SetToBag({c}), Server!SetToBag({d})) = {c, d}
  BY DEF Server!(+), Server!SetToBag
<1>3. Server!IsABag(Server!(+)(Server!SetToBag({c}), Server!SetToBag({d})))
  BY DEF Server!(+), Server!SetToBag, Server!IsABag
<1> QED
  BY <1>1, <1>2, <1>3

LEMMA SendsOne ==
  ASSUME CallsOK, NEW c \in Server!Call, Server!Send(Server!SetToBag({c}))
  PROVE  CallsOK' /\ DOMAIN probes' = DOMAIN probes \cup {c}
<1>1. Server!IsABag(Server!SetToBag({c})) /\ DOMAIN Server!SetToBag({c}) = {c}
  BY DEF Server!SetToBag, Server!IsABag
<1> DEFINE bag == Server!SetToBag({c})
<1>2. Server!IsABag(bag) /\ DOMAIN bag \subseteq Server!Call /\ Server!Send(bag) /\ DOMAIN bag = {c}
  BY <1>1
<1> HIDE DEF bag
<1> QED
  BY <1>2, SendAdds

LEMMA EndLoses ==
  ASSUME CallsOK, NEW call, Server!Ends(call)
  PROVE  /\ CallsOK' /\ DOMAIN probes' \subseteq DOMAIN probes
         /\ \A d \in DOMAIN probes : d # call => d \in DOMAIN probes'
BY BagLoses DEF CallsOK, Server!Ends

\* Every request is for one thing of one server.
LEMMA CallsDiffer ==
  /\ \A kind, u : Server!To(kind, u).kind = kind /\ Server!To(kind, u).url = u
  /\ \A kind, u, t : /\ Server!About(kind, u, t).kind = kind /\ Server!About(kind, u, t).url = u
                     /\ Server!About(kind, u, t).of = t
  /\ \A u \in Urls : \A kind \in {"settings", "devices", "set", "https"} \cup Infos : Server!To(kind, u) \in Server!Call
  /\ \A u \in Urls, t \in Torrents : /\ Server!About("create", u, t) \in Server!Call
                                     /\ Server!About("statistics", u, t) \in Server!Call
  /\ \A i \in Infos : i \notin {"settings", "devices", "set", "https", "create", "statistics"}
BY ServerAssumption DEF Server!To, Server!About, Server!Call, Server!InfosAssumption

\* What is probed of a server when everything of it becomes Loading.
LEMMA ProbesAre ==
  ASSUME NEW u \in Urls
  PROVE  /\ Server!IsABag(Server!Probes(u)) /\ DOMAIN Server!Probes(u) \subseteq Server!Call
         /\ Server!To("settings", u) \in DOMAIN Server!Probes(u)
         /\ Server!To("devices", u) \in DOMAIN Server!Probes(u)
         /\ \A i \in Infos : Server!To(i, u) \in DOMAIN Server!Probes(u)
<1> DEFINE probed == {Server!To(kind, u) : kind \in {"settings", "devices"} \cup Infos}
<1>1. probed \subseteq Server!Call
  BY CallsDiffer
<1>2. /\ Server!To("settings", u) \in probed /\ Server!To("devices", u) \in probed
      /\ \A i \in Infos : Server!To(i, u) \in probed
  OBVIOUS
<1>3. Server!Probes(u) = Server!SetToBag(probed)
  BY DEF Server!Probes
<1> HIDE DEF probed
<1> QED
  BY <1>1, <1>2, <1>3, BagOfSet

\* A request that ends takes none from what is Loading, but what it was for.
LEMMA StillAnswered ==
  ASSUME ServerInv, NEW call, Server!Ends(call), UNCHANGED url,
         settings' = Loading => settings = Loading /\ call # Server!To("settings", url),
         playback_devices' = Loading => playback_devices = Loading /\ call # Server!To("devices", url),
         \A i \in Infos : info'[i] = Loading => info[i] = Loading /\ call # Server!To(i, url),
         torrent' # None /\ torrent'.path = Loading =>
           torrent' = torrent /\ \A u \in Urls : call # Server!About("create", u, torrent.hash)
  PROVE  CallsOK' /\ Server!ServerIsAnswered'
<1>1. CallsOK' /\ \A d \in DOMAIN probes : d # call => d \in DOMAIN probes'
  BY EndLoses DEF ServerInv
<1>2. /\ settings' = Loading => Server!To("settings", url) \in DOMAIN probes'
      /\ playback_devices' = Loading => Server!To("devices", url) \in DOMAIN probes'
      /\ \A i \in Infos : info'[i] = Loading => Server!To(i, url) \in DOMAIN probes'
  BY <1>1 DEF ServerInv, Server!ServerIsAnswered
<1>3. ASSUME torrent' # None, torrent'.path = Loading
      PROVE  \E u \in Urls : Server!About("create", u, torrent'.hash) \in DOMAIN probes'
  BY <1>1, <1>3 DEF ServerInv, Server!ServerIsAnswered
<1>4. url' = url
  OBVIOUS
<1> QED
  BY <1>1, <1>2, <1>3, <1>4 DEF Server!ServerIsAnswered, Server!To, Server!About

LEMMA ServerBegins ==
  ASSUME Server!Init
  PROVE  ServerInv
<1> USE DEF Server!Init
<1>1. url \in Urls /\ probes = Server!Probes(url)
  OBVIOUS
<1>2. CallsOK /\ Server!ServerIsAnswered
  BY <1>1, ProbesAre DEF CallsOK, Server!ServerIsAnswered
<1>3. ShownTyped
  BY ServerAssumption
  DEF ShownTyped, Server!Option, Server!Loadable, Server!UrlsAssumption
<1>4. Server!ShownIsOfServer /\ Server!OfflineTogether
  BY MarksAssumption, ServerAssumption
  DEF Server!ShownIsOfServer, Server!OfflineTogether, Server!Option, Server!UrlsAssumption,
      Server!MarksAssumption, Details!LoadableAssumption
<1> QED
  BY <1>2, <1>3, <1>4 DEF ServerInv

\* The marks, the urls and what there is of them are different things.
LEMMA ServerMarks ==
  /\ None # Loading /\ None # Failed /\ Loading # Failed
  /\ None \notin Urls /\ Loading \notin Urls /\ Failed \notin Urls
  /\ None \notin Server!Settings /\ Loading \notin Server!Settings /\ Failed \notin Server!Settings
  /\ None \notin Server!Torrent
  /\ None \notin Server!Statistics /\ Loading \notin Server!Statistics /\ Failed \notin Server!Statistics
  /\ None \notin Torrents
BY MarksAssumption, ServerAssumption
DEF Details!LoadableAssumption, Server!UrlsAssumption, Server!MarksAssumption

LEMMA ServerReloads ==
  ASSUME ServerInv, Server!Reload \/ (\E u \in Urls : Server!ChangeUrl(u))
  PROVE  ServerInv'
<1>1. PICK u \in Urls : /\ url' = u /\ Server!Send(Server!Probes(u)) /\ Server!AllLoading
                        /\ base_url' = None /\ remote_url' = None
                        /\ UNCHANGED <<key, playback_devices>>
                        /\ \/ u = url /\ UNCHANGED <<watched, torrent, statistics>>
                           \/ watched' = None /\ torrent' = None /\ statistics' = None
  BY DEF Server!Reload, Server!ChangeUrl, ServerInv, ShownTyped
<1>2. /\ CallsOK' /\ DOMAIN probes \subseteq DOMAIN probes'
      /\ Server!To("settings", u) \in DOMAIN probes' /\ Server!To("devices", u) \in DOMAIN probes'
      /\ \A i \in Infos : Server!To(i, u) \in DOMAIN probes'
  BY <1>1, ProbesAre, SendAdds DEF ServerInv
<1>3. ShownTyped'
  BY <1>1, ServerMarks DEF ServerInv, ShownTyped, Server!AllLoading, Server!Option, Server!Loadable
<1>4. Server!ShownIsOfServer' /\ Server!OfflineTogether'
  BY <1>1, ServerMarks
  DEF ServerInv, Server!ShownIsOfServer, Server!OfflineTogether, Server!AllLoading, Server!Option
<1>5. Server!ServerIsAnswered'
  <2>1. torrent' # None /\ torrent'.path = Loading =>
          \E v \in Urls : Server!About("create", v, torrent'.hash) \in DOMAIN probes'
    BY <1>1, <1>2 DEF ServerInv, Server!ServerIsAnswered
  <2> QED
    BY <1>1, <1>2, <2>1 DEF Server!ServerIsAnswered, Server!To, Server!About
<1> QED
  BY <1>2, <1>3, <1>4, <1>5 DEF ServerInv

\* What is Loading stays answered when more is asked for.
LEMMA AlsoAnswered ==
  ASSUME ServerInv, CallsOK', DOMAIN probes \subseteq DOMAIN probes',
         UNCHANGED <<url, playback_devices, info>>, settings' = Loading => settings = Loading,
         torrent' # None /\ torrent'.path = Loading =>
           torrent' = torrent \/ Server!About("create", url, torrent'.hash) \in DOMAIN probes'
  PROVE  Server!ServerIsAnswered'
<1>1. ASSUME torrent' # None, torrent'.path = Loading
      PROVE  \E u \in Urls : Server!About("create", u, torrent'.hash) \in DOMAIN probes'
  BY <1>1 DEF ServerInv, ShownTyped, Server!ServerIsAnswered
<1>2. /\ settings' = Loading => Server!To("settings", url) \in DOMAIN probes'
      /\ playback_devices = Loading => Server!To("devices", url) \in DOMAIN probes'
      /\ \A i \in Infos : info[i] = Loading => Server!To(i, url) \in DOMAIN probes'
  BY DEF ServerInv, Server!ServerIsAnswered
<1>3. url' = url /\ playback_devices' = playback_devices /\ info' = info
  OBVIOUS
<1> QED
  BY <1>1, <1>2, <1>3 DEF Server!ServerIsAnswered, Server!To, Server!About

LEMMA ServerAsks ==
  ASSUME ServerInv,
         \/ \E remote_https \in BOOLEAN : Server!UpdateSettings(remote_https)
         \/ \E t \in Server!Option(Torrents) : Server!CreateTorrent(t)
         \/ \E t \in Torrents : Server!GetStatistics(t)
         \/ \E k \in Server!Option(Keys) : Server!ChangeAccount(k)
  PROVE  ServerInv'
<1>0. url \in Urls
  BY DEF ServerInv, ShownTyped
<1>1. ASSUME NEW remote_https \in BOOLEAN, Server!UpdateSettings(remote_https)
      PROVE  ServerInv'
  <2> DEFINE set == Server!SetToBag({Server!To("set", url)})
             https == Server!SetToBag({Server!To("https", url)})
  <2>1. /\ settings \in Server!Settings /\ settings' \in Server!Settings
        /\ settings'.server = settings.server
    BY <1>1 DEF Server!UpdateSettings, ServerInv, ShownTyped, Server!Loadable, Server!Settings
  <2>2. /\ \/ remote_url' = remote_url /\ Server!Send(Server!(+)(https, set))
           \/ remote_url' = None /\ Server!Send(set)
        /\ UNCHANGED <<key, url, watched, base_url, playback_devices, torrent, statistics, info>>
    BY <1>1 DEF Server!UpdateSettings, Server!RemoteUrl
  <2>3. /\ Server!IsABag(set) /\ DOMAIN set \subseteq Server!Call
        /\ Server!IsABag(Server!(+)(https, set)) /\ DOMAIN Server!(+)(https, set) \subseteq Server!Call
    <3>1. Server!To("set", url) \in Server!Call /\ Server!To("https", url) \in Server!Call
      BY <1>0, CallsDiffer
    <3> QED
      BY <3>1, BagsOfCalls
  <2> HIDE DEF set, https
  <2>4. CallsOK' /\ DOMAIN probes \subseteq DOMAIN probes'
    <3>1. CallsOK
      BY DEF ServerInv
    <3> QED
      BY <2>2, <2>3, <3>1, SendAdds
  <2>5. ShownTyped'
    BY <2>1, <2>2 DEF ServerInv, ShownTyped, Server!Loadable, Server!Option
  <2>6. settings' # Loading /\ settings # Loading /\ settings' # Failed /\ settings # Failed
    BY <2>1, ServerMarks
  <2>7. Server!ServerIsAnswered'
    BY <2>2, <2>4, <2>6, AlsoAnswered
  <2>8. Server!ShownIsOfServer' /\ Server!OfflineTogether'
    BY <2>1, <2>2, <2>6 DEF ServerInv, Server!ShownIsOfServer, Server!OfflineTogether, Server!Option
  <2> QED
    BY <2>4, <2>5, <2>7, <2>8 DEF ServerInv
<1>2. ASSUME NEW t \in Server!Option(Torrents), Server!CreateTorrent(t)
      PROVE  ServerInv'
  <2>1. UNCHANGED <<key, url, watched, settings, base_url, remote_url, playback_devices, statistics, info>>
    BY <1>2 DEF Server!CreateTorrent
  <2>2. CASE t = None
    <3>1. torrent' = None /\ UNCHANGED probes
      BY <1>2, <2>2 DEF Server!CreateTorrent
    <3>2. CallsOK' /\ ShownTyped'
      BY <2>1, <3>1 DEF ServerInv, ShownTyped, CallsOK, Server!Option
    <3>3. Server!ServerIsAnswered'
      BY <2>1, <3>1, <3>2, AlsoAnswered
    <3>4. Server!ShownIsOfServer' /\ Server!OfflineTogether'
      BY <2>1 DEF ServerInv, Server!ShownIsOfServer, Server!OfflineTogether
    <3> QED
      BY <3>2, <3>3, <3>4 DEF ServerInv
  <2>3. CASE t \in Torrents
    <3>1. /\ torrent' = [hash |-> t, path |-> Loading]
          /\ Server!Send(Server!SetToBag({Server!About("create", url, t)}))
      BY <1>2, <2>3, ServerMarks DEF Server!CreateTorrent
    <3>2. /\ CallsOK' /\ DOMAIN probes \subseteq DOMAIN probes'
          /\ Server!About("create", url, t) \in DOMAIN probes'
      <4>1. Server!About("create", url, t) \in Server!Call
        BY <1>0, <2>3, CallsDiffer
      <4> QED
        BY <3>1, <4>1, SendsOne DEF ServerInv
    <3>3. ShownTyped'
      BY <2>1, <2>3, <3>1 DEF ServerInv, ShownTyped, Server!Option, Server!Torrent, Server!Loadable
    <3>4. Server!ServerIsAnswered'
      BY <2>1, <3>1, <3>2, AlsoAnswered
    <3>5. Server!ShownIsOfServer' /\ Server!OfflineTogether'
      BY <2>1 DEF ServerInv, Server!ShownIsOfServer, Server!OfflineTogether
    <3> QED
      BY <3>2, <3>3, <3>4, <3>5 DEF ServerInv
  <2> QED
    BY <2>2, <2>3 DEF Server!Option
<1>3. ASSUME NEW t \in Torrents, Server!GetStatistics(t)
      PROVE  ServerInv'
  <2>1. /\ watched' = t /\ statistics' = IF statistics = None THEN Loading ELSE statistics
        /\ UNCHANGED <<key, url, settings, base_url, remote_url, playback_devices, torrent, info>>
        /\ Server!Send(Server!SetToBag({Server!About("statistics", url, t)}))
    BY <1>3 DEF Server!GetStatistics
  <2>2. CallsOK' /\ DOMAIN probes \subseteq DOMAIN probes'
    <3>1. Server!About("statistics", url, t) \in Server!Call
      BY <1>0, CallsDiffer
    <3> QED
      BY <2>1, <3>1, SendsOne DEF ServerInv
  <2>3. ShownTyped'
    BY <2>1 DEF ServerInv, ShownTyped, Server!Option, Server!Loadable
  <2>4. Server!ServerIsAnswered'
    BY <2>1, <2>2, AlsoAnswered
  <2>5. Server!ShownIsOfServer' /\ Server!OfflineTogether'
    BY <2>1 DEF ServerInv, Server!ShownIsOfServer, Server!OfflineTogether, Server!Option
  <2> QED
    BY <2>2, <2>3, <2>4, <2>5 DEF ServerInv
<1>4. ASSUME NEW k \in Server!Option(Keys), Server!ChangeAccount(k)
      PROVE  ServerInv'
  BY <1>4
  DEF Server!ChangeAccount, ServerInv, ShownTyped, CallsOK, Server!ShownIsOfServer, Server!ServerIsAnswered,
      Server!OfflineTogether, Server!To, Server!About
<1> QED
  BY <1>1, <1>2, <1>3, <1>4

\* A server that failed leaves nothing Loading, and shows nothing.
LEMMA OfflineIs ==
  ASSUME ServerInv, NEW call, Server!Offline, Server!Ends(call), UNCHANGED <<key, url, watched, statistics>>
  PROVE  ServerInv'
<1>1. /\ settings' = Failed /\ playback_devices' = Failed /\ info' = [i \in Infos |-> Failed]
      /\ base_url' = None /\ remote_url' = None /\ torrent' = None
  BY DEF Server!Offline
<1>2. CallsOK' /\ Server!ServerIsAnswered'
  BY <1>1, ServerMarks, StillAnswered
<1>3. ShownTyped'
  BY <1>1 DEF ServerInv, ShownTyped, Server!Loadable, Server!Option
<1>4. Server!ShownIsOfServer' /\ Server!OfflineTogether'
  BY <1>1, ServerMarks DEF ServerInv, Server!ShownIsOfServer, Server!OfflineTogether, Server!Option
<1> QED
  BY <1>2, <1>3, <1>4 DEF ServerInv

LEMMA ServerSettles ==
  ASSUME ServerInv, NEW u \in Urls, NEW ok \in BOOLEAN, NEW remote_https \in BOOLEAN,
         Server!SettingsResult(u, ok, remote_https)
  PROVE  ServerInv'
<1> DEFINE call == Server!To("settings", u)
<1>0. /\ UNCHANGED <<key, url, watched, statistics>> /\ call \in DOMAIN probes
      /\ \A d \in {"devices"} \cup Infos : \A v : call # Server!To(d, v)
      /\ \A v, t : call # Server!About("create", v, t)
      /\ u # url => call # Server!To("settings", url)
  BY CallsDiffer DEF Server!SettingsResult
<1>1. CASE u = url /\ settings = Loading /\ ~ok /\ Server!Offline /\ Server!Ends(call)
  BY <1>0, <1>1, OfflineIs
<1>2. CASE /\ ~(u = url /\ settings = Loading) /\ Server!Ends(call)
           /\ UNCHANGED <<settings, base_url, remote_url, playback_devices, torrent, info>>
  <2>1. CallsOK' /\ Server!ServerIsAnswered'
    BY <1>0, <1>2, StillAnswered
  <2>2. ShownTyped' /\ Server!ShownIsOfServer' /\ Server!OfflineTogether'
    BY <1>0, <1>2 DEF ServerInv, ShownTyped, Server!ShownIsOfServer, Server!OfflineTogether
  <2> QED
    BY <2>1, <2>2 DEF ServerInv
<1>3. CASE /\ u = url /\ settings = Loading /\ ok
           /\ settings' = [server |-> u, remote_https |-> remote_https]
           /\ base_url' = u
           /\ IF remote_https /\ key # None
                THEN /\ UNCHANGED remote_url
                     /\ probes' = Server!(+)(Server!(-)(probes, Server!SetToBag({call})),
                                             Server!SetToBag({Server!To("https", url)}))
                ELSE remote_url' = None /\ Server!Ends(call)
           /\ UNCHANGED <<playback_devices, torrent, info>>
  <2>1. settings' \in Server!Settings /\ settings'.server = url
    BY <1>3 DEF Server!Settings
  <2>2. ShownTyped'
    BY <1>0, <1>3, <2>1 DEF ServerInv, ShownTyped, Server!Loadable, Server!Option
  <2>3. Server!ShownIsOfServer' /\ Server!OfflineTogether'
    BY <1>0, <1>3, <2>1, ServerMarks
    DEF ServerInv, Server!ShownIsOfServer, Server!OfflineTogether, Server!Option
  <2>4. CallsOK' /\ Server!ServerIsAnswered'
    <3>1. CASE Server!Ends(call)
      BY <1>0, <1>3, <2>1, <3>1, ServerMarks, StillAnswered
    <3>2. CASE probes' = Server!(+)(Server!(-)(probes, Server!SetToBag({call})),
                                    Server!SetToBag({Server!To("https", url)}))
      <4> DEFINE left == Server!(-)(probes, Server!SetToBag({call}))
                 more == Server!SetToBag({Server!To("https", url)})
      <4>1. /\ Server!IsABag(left) /\ DOMAIN left \subseteq DOMAIN probes
            /\ \A d \in DOMAIN probes : d # call => d \in DOMAIN left
        BY BagLoses DEF ServerInv, CallsOK
      <4>2. Server!To("https", url) \in Server!Call
        BY CallsDiffer DEF ServerInv, ShownTyped
      <4>3. Server!IsABag(more) /\ DOMAIN more \subseteq Server!Call
        BY <4>2, BagsOfCalls
      <4>4. probes' = Server!(+)(left, more)
        BY <3>2
      <4> HIDE DEF left, more
      <4>5. Server!IsABag(probes') /\ DOMAIN probes' = DOMAIN left \cup DOMAIN more
        BY <4>1, <4>3, <4>4, BagsAdd
      <4>6. CallsOK' /\ \A d \in DOMAIN probes : d # call => d \in DOMAIN probes'
        BY <4>1, <4>3, <4>5 DEF CallsOK, ServerInv
      <4>7. settings' # Loading
        BY <2>1, ServerMarks
      <4>8. /\ playback_devices = Loading => Server!To("devices", url) \in DOMAIN probes'
            /\ \A i \in Infos : info[i] = Loading => Server!To(i, url) \in DOMAIN probes'
        BY <1>0, <4>6 DEF ServerInv, Server!ServerIsAnswered
      <4>9. torrent # None /\ torrent.path = Loading =>
              \E v \in Urls : Server!About("create", v, torrent.hash) \in DOMAIN probes'
        BY <1>0, <4>6 DEF ServerInv, Server!ServerIsAnswered
      <4>10. url' = url /\ playback_devices' = playback_devices /\ info' = info /\ torrent' = torrent
        BY <1>0, <1>3
      <4> QED
        BY <4>6, <4>7, <4>8, <4>9, <4>10 DEF Server!ServerIsAnswered, Server!To, Server!About
    <3> QED
      BY <1>3, <3>1, <3>2
  <2> QED
    BY <2>2, <2>3, <2>4 DEF ServerInv
<1> QED
  BY <1>1, <1>2, <1>3 DEF Server!SettingsResult

\* The results that change one part, and leave nothing Loading that was not.
LEMMA ServerAnswers ==
  ASSUME ServerInv, NEW u \in Urls, NEW ok \in BOOLEAN,
         \/ \E i \in Infos : Server!InfoResult(i, u, ok)
         \/ Server!PlaybackDevicesResult(u, ok)
         \/ Server!UpdateSettingsResult(u, ok)
         \/ Server!GetHTTPSResult(u, ok)
         \/ \E t \in Torrents : Server!CreateTorrentResult(u, t, ok)
  PROVE  ServerInv'
<1>1. ASSUME NEW i \in Infos, Server!InfoResult(i, u, ok)
      PROVE  ServerInv'
  <2> DEFINE call == Server!To(i, u)
  <2>1. /\ Server!Ends(call) /\ info' = [info EXCEPT ![i] = Server!Taken(info[i], u, ok)]
        /\ UNCHANGED <<key, url, watched, settings, base_url, remote_url, playback_devices, torrent, statistics>>
    BY <1>1 DEF Server!InfoResult
  <2>2. Server!Taken(info[i], u, ok) = IF u = url /\ info[i] = Loading THEN IF ok THEN u ELSE Failed ELSE info[i]
    BY DEF Server!Taken
  <2>3. /\ \A d : d # i => \A v : call # Server!To(d, v)
        /\ \A v, t : call # Server!About("create", v, t)
        /\ u # url => call # Server!To(i, url)
        /\ i # "settings" /\ i # "devices"
    BY CallsDiffer
  <2>4. \A j \in Infos : info'[j] = Loading => info[j] = Loading /\ call # Server!To(j, url)
    BY <2>1, <2>2, <2>3, ServerMarks DEF ServerInv, ShownTyped
  <2>5. CallsOK' /\ Server!ServerIsAnswered'
    BY <2>1, <2>3, <2>4, StillAnswered
  <2>6. ShownTyped'
    BY <2>1, <2>2 DEF ServerInv, ShownTyped, Server!Loadable
  <2>7. Server!ShownIsOfServer' /\ Server!OfflineTogether'
    BY <2>1, <2>2, ServerMarks DEF ServerInv, ShownTyped, Server!ShownIsOfServer, Server!OfflineTogether
  <2> QED
    BY <2>5, <2>6, <2>7 DEF ServerInv
<1>2. CASE Server!PlaybackDevicesResult(u, ok)
  <2> DEFINE call == Server!To("devices", u)
  <2>1. /\ Server!Ends(call)
        /\ playback_devices' = IF u = url /\ playback_devices = Loading THEN IF ok THEN u ELSE Failed
                               ELSE playback_devices
        /\ UNCHANGED <<key, url, watched, settings, base_url, remote_url, torrent, statistics, info>>
    BY <1>2 DEF Server!PlaybackDevicesResult, Server!Taken
  <2>2. /\ \A d : d # "devices" => \A v : call # Server!To(d, v)
        /\ \A v, t : call # Server!About("create", v, t)
        /\ u # url => call # Server!To("devices", url)
        /\ \A j \in Infos : j # "devices"
    BY CallsDiffer
  <2>3. CallsOK' /\ Server!ServerIsAnswered'
    BY <2>1, <2>2, ServerMarks, StillAnswered
  <2>4. ShownTyped'
    BY <2>1 DEF ServerInv, ShownTyped, Server!Loadable
  <2>5. Server!ShownIsOfServer' /\ Server!OfflineTogether'
    BY <2>1, ServerMarks DEF ServerInv, Server!ShownIsOfServer, Server!OfflineTogether
  <2> QED
    BY <2>3, <2>4, <2>5 DEF ServerInv
<1>3. CASE Server!UpdateSettingsResult(u, ok)
  <2> DEFINE call == Server!To("set", u)
  <2>1. Server!Ends(call) /\ UNCHANGED <<key, url, watched, statistics>>
    BY <1>3 DEF Server!UpdateSettingsResult
  <2>2. CASE Server!Offline
    BY <2>1, <2>2, OfflineIs
  <2>3. CASE UNCHANGED <<settings, base_url, remote_url, playback_devices, torrent, info>>
    <3>1. /\ \A d : d # "set" => \A v : call # Server!To(d, v)
          /\ \A v, t : call # Server!About("create", v, t)
          /\ \A j \in Infos : j # "set"
      BY CallsDiffer
    <3>2. CallsOK' /\ Server!ServerIsAnswered'
      BY <2>1, <2>3, <3>1, StillAnswered
    <3>3. ShownTyped' /\ Server!ShownIsOfServer' /\ Server!OfflineTogether'
      BY <2>1, <2>3 DEF ServerInv, ShownTyped, Server!ShownIsOfServer, Server!OfflineTogether
    <3> QED
      BY <3>2, <3>3 DEF ServerInv
  <2> QED
    BY <1>3, <2>2, <2>3 DEF Server!UpdateSettingsResult
<1>4. CASE Server!GetHTTPSResult(u, ok)
  <2> DEFINE call == Server!To("https", u)
  <2>1. /\ Server!Ends(call) /\ remote_url' = IF u = url /\ ok THEN u ELSE remote_url
        /\ UNCHANGED <<key, url, watched, settings, base_url, playback_devices, torrent, statistics, info>>
    BY <1>4 DEF Server!GetHTTPSResult
  <2>2. /\ \A d : d # "https" => \A v : call # Server!To(d, v)
        /\ \A v, t : call # Server!About("create", v, t)
        /\ \A j \in Infos : j # "https"
    BY CallsDiffer
  <2>3. CallsOK' /\ Server!ServerIsAnswered'
    BY <2>1, <2>2, StillAnswered
  <2>4. ShownTyped'
    BY <2>1 DEF ServerInv, ShownTyped, Server!Option
  <2>5. Server!ShownIsOfServer' /\ Server!OfflineTogether'
    BY <2>1 DEF ServerInv, Server!ShownIsOfServer, Server!OfflineTogether, Server!Option
  <2> QED
    BY <2>3, <2>4, <2>5 DEF ServerInv
<1>5. ASSUME NEW t \in Torrents, Server!CreateTorrentResult(u, t, ok)
      PROVE  ServerInv'
  <2> DEFINE call == Server!About("create", u, t)
  <2>1. /\ Server!Ends(call)
        /\ torrent' = IF torrent = [hash |-> t, path |-> Loading]
                        THEN [hash |-> t, path |-> IF ok THEN u ELSE Failed] ELSE torrent
        /\ UNCHANGED <<key, url, watched, settings, base_url, remote_url, playback_devices, statistics, info>>
    BY <1>5 DEF Server!CreateTorrentResult
  <2>2. /\ \A d : d # "create" => \A v : call # Server!To(d, v)
        /\ \A v, s : s # t => call # Server!About("create", v, s)
        /\ \A j \in Infos : j # "create"
    BY CallsDiffer
  <2>3. torrent' # None /\ torrent'.path = Loading => torrent' = torrent /\ torrent.hash # t
    BY <2>1, ServerMarks DEF ServerInv, ShownTyped, Server!Option, Server!Torrent
  <2>4. CallsOK' /\ Server!ServerIsAnswered'
    BY <2>1, <2>2, <2>3, StillAnswered
  <2>5. ShownTyped'
    BY <2>1 DEF ServerInv, ShownTyped, Server!Option, Server!Torrent, Server!Loadable
  <2>6. Server!ShownIsOfServer' /\ Server!OfflineTogether'
    BY <2>1 DEF ServerInv, Server!ShownIsOfServer, Server!OfflineTogether
  <2> QED
    BY <2>4, <2>5, <2>6 DEF ServerInv
<1> QED
  BY <1>1, <1>2, <1>3, <1>4, <1>5

LEMMA ServerSteps ==
  ASSUME ServerInv, [Server!Next]_serverVars
  PROVE  ServerInv'
<1>1. ASSUME NEW u \in Urls, NEW t \in Torrents, NEW answer, Server!StatisticsResult(u, t, answer)
      PROVE  ServerInv'
  <2> DEFINE call == Server!About("statistics", u, t)
  <2>1. /\ Server!Ends(call)
        /\ \/ statistics' \in {statistics, Failed}
           \/ u = url /\ statistics' = [server |-> u, of |-> t]
        /\ UNCHANGED <<key, url, watched, settings, base_url, remote_url, playback_devices, torrent, info>>
    BY <1>1 DEF Server!StatisticsResult
  <2>2. /\ \A d : d # "statistics" => \A v : call # Server!To(d, v)
        /\ \A v, s : call # Server!About("create", v, s)
        /\ \A j \in Infos : j # "statistics"
    BY CallsDiffer
  <2>3. CallsOK' /\ Server!ServerIsAnswered'
    BY <2>1, <2>2, StillAnswered
  <2>4. ShownTyped'
    BY <2>1 DEF ServerInv, ShownTyped, Server!Option, Server!Loadable, Server!Statistics
  <2>5. Server!ShownIsOfServer' /\ Server!OfflineTogether'
    BY <2>1 DEF ServerInv, Server!ShownIsOfServer, Server!OfflineTogether, Server!Option
  <2> QED
    BY <2>3, <2>4, <2>5 DEF ServerInv
<1>2. CASE UNCHANGED serverVars
  BY <1>2
  DEF serverVars, ServerInv, ShownTyped, CallsOK, Server!ShownIsOfServer, Server!ServerIsAnswered,
      Server!OfflineTogether, Server!To, Server!About
<1> QED
  BY <1>1, <1>2, ServerReloads, ServerAsks, ServerSettles, ServerAnswers DEF Server!Next
-----------------------------------------------------------------------------
(* Pages that follow each other *)

LEMMA LeastOf ==
  ASSUME NEW S, S \subseteq Nat, S # {}
  PROVE  \E n \in S : \A m \in S : n <= m
<1>1. PICK n \in S : \A m \in S : ~(<<m, n>> \in OpToRel(<, Nat))
  BY NatLessThanWellFounded, WFMin
<1>2. \A m \in S : ~(m < n)
  BY <1>1 DEF OpToRel
<1> QED
  BY <1>2

Sequence(s) == s = [i \in 1 .. Len(s) |-> s[i]] /\ Len(s) \in Nat

\* A Sequence is one in the sense of Append.
LEMMA AppendIs ==
  ASSUME NEW s, NEW e, Sequence(s)
  PROVE  /\ Sequence(Append(s, e)) /\ Len(Append(s, e)) = Len(s) + 1
         /\ DOMAIN s = 1 .. Len(s) /\ DOMAIN Append(s, e) = 1 .. Len(s) + 1
         /\ \A i \in DOMAIN s : Append(s, e)[i] = s[i]
         /\ Append(s, e)[Len(s) + 1] = e
<1> DEFINE S == {s[i] : i \in DOMAIN s} \cup {e}
<1>1. s \in Seq(S) /\ e \in S
  BY DEF Sequence
<1> HIDE DEF S
<1>2. /\ Append(s, e) \in Seq(S) /\ Len(Append(s, e)) = Len(s) + 1
      /\ \A i \in 1 .. Len(s) : Append(s, e)[i] = s[i]
      /\ Append(s, e)[Len(s) + 1] = e
  BY <1>1
<1>3. DOMAIN s = 1 .. Len(s) /\ DOMAIN Append(s, e) = 1 .. Len(s) + 1
  BY <1>1, <1>2
<1>4. Sequence(Append(s, e))
  <2>1. Len(s) + 1 \in Nat
    BY <1>1
  <2>2. \A t \in Seq(S) : t = [i \in 1 .. Len(t) |-> t[i]]
    OBVIOUS
  <2> QED
    BY <1>2, <2>1, <2>2 DEF Sequence
<1> QED
  BY <1>2, <1>3, <1>4

PagesOK(shown) ==
  /\ Sequence(shown) /\ Catalog!Follow(shown)
  /\ \A i \in DOMAIN shown :
       /\ shown[i] = [request |-> shown[i].request, skip |-> shown[i].skip, content |-> shown[i].content]
       /\ shown[i].skip \in Nat

\* No page begins where one before it does.
LEMMA SkipsGrow ==
  ASSUME NEW shown, PagesOK(shown)
  PROVE  \A i, j \in DOMAIN shown : j < i => shown[j].skip < shown[i].skip
<1> DEFINE Bad == {i \in DOMAIN shown : \E j \in DOMAIN shown : j < i /\ ~(shown[j].skip < shown[i].skip)}
<1>0. DOMAIN shown = 1 .. Len(shown) /\ Len(shown) \in Nat
  BY DEF PagesOK, Sequence
<1>1. SUFFICES ASSUME Bad # {} PROVE FALSE
  OBVIOUS
<1>2. Bad \subseteq Nat
  BY <1>0
<1>3. PICK i \in Bad : \A m \in Bad : i <= m
  BY <1>1, <1>2, LeastOf
<1>4. PICK j \in DOMAIN shown : j < i /\ ~(shown[j].skip < shown[i].skip)
  BY <1>3
<1>5. i \in 1 .. Len(shown) /\ j \in 1 .. Len(shown) /\ i # 1 /\ i - 1 \in DOMAIN shown
  BY <1>0, <1>3, <1>4
<1>6. /\ shown[i].skip = shown[i - 1].skip + shown[i - 1].content
      /\ shown[i - 1].content \in Nat \ {0} /\ shown[i - 1].skip \in Nat
  BY <1>3, <1>5, CatalogAssumption DEF PagesOK, Catalog!Follow, Catalog!Ready, Catalog!PagesAssumption
<1>7. j # i - 1
  BY <1>4, <1>6
<1>8. j < i - 1 /\ i - 1 \notin Bad
  BY <1>0, <1>3, <1>4, <1>5, <1>7
<1>9. shown[j].skip < shown[i - 1].skip
  BY <1>5, <1>8
<1>10. shown[j].skip \in Nat
  BY DEF PagesOK
<1> QED
  BY <1>4, <1>6, <1>9, <1>10

\* The items of pages that are all there are those before the last and its own.
LEMMA ItemsAre ==
  ASSUME NEW shown, PagesOK(shown), shown # <<>>, \A i \in DOMAIN shown : Catalog!Ready(shown[i])
  PROVE  Catalog!Items(shown) = shown[Len(shown)].skip + shown[Len(shown)].content
<1> DEFINE n == Len(shown)
           Sum(f) == [k \in 0 .. n |-> IF k = 0 THEN 0 ELSE f[k - 1] + shown[k].content]
           ends == [k \in 0 .. n |-> IF k = 0 THEN 0 ELSE shown[k].skip + shown[k].content]
           sum == CHOOSE f : f = Sum(f)
<1>0. /\ DOMAIN shown = 1 .. n /\ n \in Nat \ {0}
      /\ \A k \in 1 .. n : shown[k].content \in Nat /\ shown[k].skip \in Nat
      /\ \A k \in 1 .. n : shown[k].skip = IF k = 1 THEN 0 ELSE shown[k - 1].skip + shown[k - 1].content
  BY CatalogAssumption DEF PagesOK, Sequence, Catalog!Follow, Catalog!Ready, Catalog!PagesAssumption
<1> HIDE DEF n
<1>1. ends = Sum(ends)
  <2>1. ASSUME NEW k \in 1 .. n
        PROVE  ends[k - 1] + shown[k].content = shown[k].skip + shown[k].content
    BY <1>0
  <2>2. ASSUME NEW k \in 0 .. n, k # 0
        PROVE  k \in 1 .. n
    BY <1>0, <2>2
  <2>3. \A k \in 0 .. n :
          (IF k = 0 THEN 0 ELSE shown[k].skip + shown[k].content)
            = IF k = 0 THEN 0 ELSE ends[k - 1] + shown[k].content
    BY <2>1, <2>2
  <2> QED
    BY <2>3
<1>2. sum = Sum(sum)
  BY <1>1
<1> HIDE DEF sum
<1>3. \A k \in 0 .. n : sum[k] = ends[k]
  <2> DEFINE Bad == {k \in 0 .. n : sum[k] # ends[k]}
  <2>1. SUFFICES ASSUME Bad # {} PROVE FALSE
    OBVIOUS
  <2>2. Bad \subseteq Nat
    BY <1>0
  <2>3. PICK k \in Bad : \A m \in Bad : k <= m
    BY <2>1, <2>2, LeastOf
  <2>4. k # 0
    BY <1>0, <1>2, <2>3
  <2>5. k - 1 \in 0 .. n /\ k - 1 \notin Bad
    BY <1>0, <2>3, <2>4
  <2>6. sum[k] = sum[k - 1] + shown[k].content /\ ends[k] = ends[k - 1] + shown[k].content
    <3>1. k \in 0 .. n
      BY <2>3
    <3> HIDE DEF Bad, ends
    <3> QED
      BY <1>1, <1>2, <2>4, <3>1
  <2> QED
    BY <2>3, <2>5, <2>6
<1>4. Catalog!Items(shown) = sum[n]
  BY DEF Catalog!Items, sum, n
<1> QED
  BY <1>0, <1>3, <1>4 DEF n

LastOf(shown) == Catalog!From(shown[Len(shown)].request, shown[Len(shown)].skip)

FirstPage(request) == <<Catalog!NewPage(Catalog!From(request, 0))>>

LEMMA FirstPageIs ==
  ASSUME NEW request
  PROVE  PagesOK(FirstPage(request)) /\ FirstPage(request) # <<>> /\ FirstPage(request)[1].request = request
BY DEF FirstPage, PagesOK, Sequence, Catalog!Follow, Catalog!NewPage, Catalog!From, Catalog!Page

LEMMA NextPageFollows ==
  ASSUME NEW shown, PagesOK(shown), shown # <<>>, Catalog!Ready(shown[Len(shown)])
  PROVE  LET last == shown[Len(shown)]
             at == Catalog!From(last.request, last.skip + last.content)
         IN /\ PagesOK(Append(shown, Catalog!NewPage(at)))
            /\ LastOf(Append(shown, Catalog!NewPage(at))) = at
            /\ Append(shown, Catalog!NewPage(at))[1].request = shown[1].request
            /\ Append(shown, Catalog!NewPage(at)) # <<>>
<1> DEFINE last == shown[Len(shown)]
           at == Catalog!From(last.request, last.skip + last.content)
           new == Catalog!NewPage(at)
           longer == Append(shown, new)
<1>1. /\ Sequence(longer) /\ Len(longer) = Len(shown) + 1
      /\ DOMAIN shown = 1 .. Len(shown) /\ DOMAIN longer = 1 .. Len(shown) + 1
      /\ \A i \in DOMAIN shown : longer[i] = shown[i]
      /\ longer[Len(shown) + 1] = new
  BY AppendIs DEF PagesOK
<1>2. /\ new = [request |-> last.request, skip |-> last.skip + last.content, content |-> Loading]
      /\ at = [request |-> last.request, skip |-> last.skip + last.content]
  BY DEF Catalog!NewPage, Catalog!Page, Catalog!From
<1>3. Len(shown) \in Nat \ {0} /\ Len(shown) \in DOMAIN shown /\ 1 \in DOMAIN shown
  BY <1>1 DEF PagesOK, Sequence
<1>4. last.skip + last.content \in Nat
  <2>1. last.content \in Nat
    BY CatalogAssumption DEF Catalog!Ready, Catalog!PagesAssumption
  <2>2. last.skip \in Nat
    BY <1>3 DEF PagesOK
  <2> QED
    BY <2>1, <2>2
<1> HIDE DEF longer, new, at
<1>5. Catalog!Follow(longer)
  <2>1. ASSUME NEW i \in DOMAIN shown
        PROVE  /\ longer[i].request = longer[1].request
               /\ IF i = 1 THEN longer[i].skip = 0
                  ELSE Catalog!Ready(longer[i - 1]) /\ longer[i].skip = longer[i - 1].skip + longer[i - 1].content
    <3>1. longer[i] = shown[i] /\ longer[1] = shown[1]
      BY <1>1, <1>3
    <3>2. i # 1 => i - 1 \in DOMAIN shown
      BY <1>1
    <3> QED
      BY <1>1, <3>1, <3>2 DEF PagesOK, Catalog!Follow
  <2>2. /\ longer[Len(shown) + 1].request = longer[1].request
        /\ Catalog!Ready(longer[Len(shown)])
        /\ longer[Len(shown) + 1].skip = longer[Len(shown)].skip + longer[Len(shown)].content
    BY <1>1, <1>2, <1>3 DEF PagesOK, Catalog!Follow
  <2>3. \A i \in DOMAIN longer : i \in DOMAIN shown \/ (i = Len(shown) + 1 /\ i # 1 /\ i - 1 = Len(shown))
    BY <1>1, <1>3
  <2> QED
    BY <2>1, <2>2, <2>3 DEF Catalog!Follow
<1>6. \A i \in DOMAIN longer :
        /\ longer[i] = [request |-> longer[i].request, skip |-> longer[i].skip, content |-> longer[i].content]
        /\ longer[i].skip \in Nat
  <2>1. \A i \in DOMAIN longer : i \in DOMAIN shown \/ i = Len(shown) + 1
    BY <1>1, <1>3
  <2> QED
    BY <1>1, <1>2, <1>4, <2>1 DEF PagesOK
<1>7. PagesOK(longer)
  BY <1>1, <1>5, <1>6 DEF PagesOK
<1>8. LastOf(longer) = at
  BY <1>1, <1>2 DEF LastOf, Catalog!From
<1>9. longer[1].request = shown[1].request /\ longer # <<>>
  BY <1>1, <1>3
<1> QED
  BY <1>7, <1>8, <1>9 DEF longer, new, at

\* Pages one of which, that was Loading, may have been answered.
AnsweredTo(shown, next, result) ==
  /\ next = [i \in DOMAIN shown |-> next[i]]
  /\ \A i \in DOMAIN shown :
       \/ next[i] = shown[i]
       \/ /\ shown[i].content = Loading
          /\ next[i] = [request |-> shown[i].request, skip |-> shown[i].skip, content |-> result]

\* An answer leaves the pages following each other.
LEMMA AnsweredFollow ==
  ASSUME NEW shown, NEW next, NEW result, PagesOK(shown), AnsweredTo(shown, next, result)
  PROVE  /\ PagesOK(next) /\ Len(next) = Len(shown) /\ DOMAIN next = DOMAIN shown
         /\ LastOf(next) = LastOf(shown)
         /\ shown # <<>> => next # <<>> /\ next[1].request = shown[1].request
<1> USE DEF AnsweredTo
<1>1. /\ DOMAIN shown = 1 .. Len(shown) /\ Len(shown) \in Nat
      /\ next = [i \in 1 .. Len(shown) |-> next[i]]
  BY DEF PagesOK, Sequence
<1>2. Sequence(next) /\ Len(next) = Len(shown) /\ DOMAIN next = DOMAIN shown
  <2>1. Len(next) = Len(shown)
    BY <1>1
  <2> QED
    BY <1>1, <2>1 DEF Sequence
<1>3. \A i \in DOMAIN shown : next[i].request = shown[i].request /\ next[i].skip = shown[i].skip
  OBVIOUS
<1>4. \A i \in DOMAIN shown : Catalog!Ready(shown[i]) => next[i] = shown[i]
  BY CatalogAssumption DEF Catalog!Ready, Catalog!PagesAssumption
<1>5. Catalog!Follow(next)
  <2> SUFFICES ASSUME NEW i \in DOMAIN shown
               PROVE  /\ next[i].request = next[1].request
                      /\ IF i = 1 THEN next[i].skip = 0
                         ELSE Catalog!Ready(next[i - 1]) /\ next[i].skip = next[i - 1].skip + next[i - 1].content
    BY <1>2 DEF Catalog!Follow
  <2>1. 1 \in DOMAIN shown /\ (i # 1 => i - 1 \in DOMAIN shown)
    BY <1>1
  <2>2. /\ shown[i].request = shown[1].request
        /\ IF i = 1 THEN shown[i].skip = 0
           ELSE Catalog!Ready(shown[i - 1]) /\ shown[i].skip = shown[i - 1].skip + shown[i - 1].content
    BY DEF PagesOK, Catalog!Follow
  <2> QED
    BY <1>3, <1>4, <2>1, <2>2
<1>6. \A i \in DOMAIN next :
        /\ next[i] = [request |-> next[i].request, skip |-> next[i].skip, content |-> next[i].content]
        /\ next[i].skip \in Nat
  BY <1>2, <1>3 DEF PagesOK
<1>7. shown # <<>> => Len(shown) \in DOMAIN shown /\ 1 \in DOMAIN shown
  BY <1>1 DEF PagesOK, Sequence
<1>8. LastOf(next) = LastOf(shown)
  <2>1. CASE shown = <<>>
    <3>1. next = <<>>
      BY <1>1, <2>1
    <3> QED
      BY <2>1, <3>1
  <2>2. CASE shown # <<>>
    BY <1>2, <1>3, <1>7, <2>2 DEF LastOf
  <2> QED
    BY <2>1, <2>2
<1> QED
  BY <1>2, <1>3, <1>5, <1>6, <1>7, <1>8 DEF PagesOK
-----------------------------------------------------------------------------
(* Discover and the board *)

\* A slot without a request is not one with one.
RequestsAreNotFree == \A request, skip : Catalog!From(request, skip) # Free

DiscoverInv ==
  /\ PagesOK(catalog)
  /\ selectable = Catalog!Selectable(discover, catalog, profile)
  /\ discover # None => catalog # <<>> /\ catalog[1].request = discover

BoardInv ==
  /\ Catalog!TypeOK /\ Catalog!BoardIsOfProfile
  /\ \A i \in DOMAIN catalogs : PagesOK(catalogs[i])

FlightInv ==
  (RequestsAreNotFree => Catalog!PagesAreAnswered) /\ pages = [s \in FewSlots |-> pages[s]]

CatalogInv == DiscoverInv /\ BoardInv /\ FlightInv

\* The page that can be asked for is the one after the pages shown.
LEMMA NextIsAfter ==
  ASSUME DiscoverInv, selectable.next_page # None
  PROVE  /\ catalog # <<>> /\ Catalog!Ready(catalog[Len(catalog)])
         /\ selectable.next_page =
              Catalog!From(catalog[Len(catalog)].request, catalog[Len(catalog)].skip + catalog[Len(catalog)].content)
<1>1. /\ discover # None
      /\ selectable.next_page = Catalog!NextPage(discover, catalog, profile)
  BY DEF DiscoverInv, Catalog!Selectable
<1>2. /\ \A i \in DOMAIN catalog : Catalog!Ready(catalog[i])
      /\ selectable.next_page = Catalog!From(discover, Catalog!Items(catalog))
  BY <1>1 DEF Catalog!NextPage
<1>3. catalog # <<>> /\ catalog[1].request = discover /\ PagesOK(catalog)
  BY <1>1 DEF DiscoverInv
<1>4. Len(catalog) \in DOMAIN catalog
  BY <1>3 DEF PagesOK, Sequence
<1>5. catalog[Len(catalog)].request = discover
  BY <1>3, <1>4 DEF PagesOK, Catalog!Follow
<1> QED
  BY <1>2, <1>3, <1>4, <1>5, ItemsAre

LEMMA DiscoverOffersNext ==
  ASSUME DiscoverInv
  PROVE  Catalog!DiscoverPagesFollow
<1>1. CASE selectable.next_page = None
  BY <1>1 DEF DiscoverInv, PagesOK, Catalog!DiscoverPagesFollow
<1>2. CASE selectable.next_page # None
  <2>1. PagesOK(Append(catalog, Catalog!NewPage(selectable.next_page)))
    BY <1>2, NextIsAfter, NextPageFollows DEF DiscoverInv
  <2> QED
    BY <2>1 DEF DiscoverInv, PagesOK, Catalog!DiscoverPagesFollow
<1> QED
  BY <1>1, <1>2

\* Only the last of some pages can be Loading.
LEMMA OnlyLastIsLoading ==
  ASSUME NEW shown, PagesOK(shown), NEW i \in DOMAIN shown, shown[i].content = Loading
  PROVE  i = Len(shown)
<1>1. DOMAIN shown = 1 .. Len(shown) /\ Len(shown) \in Nat
  BY DEF PagesOK, Sequence
<1>2. ~Catalog!Ready(shown[i])
  BY CatalogAssumption DEF Catalog!Ready, Catalog!PagesAssumption
<1>3. SUFFICES ASSUME i # Len(shown) PROVE FALSE
  OBVIOUS
<1>4. i + 1 \in DOMAIN shown /\ i + 1 # 1 /\ (i + 1) - 1 = i
  BY <1>1, <1>3
<1> QED
  BY <1>2, <1>4 DEF PagesOK, Catalog!Follow

\* What is sent is under way with what was.
LEMMA SentIs ==
  ASSUME NEW request, NEW next \in Catalog!Sent(pages, request), pages = [s \in FewSlots |-> pages[s]]
  PROVE  /\ next = [s \in FewSlots |-> next[s]]
         /\ Catalog!UnderWay(next, request)
         /\ \A r : r # Free /\ Catalog!UnderWay(pages, r) => Catalog!UnderWay(next, r)
<1>1. PICK s \in FewSlots : pages[s] = Free /\ next = [pages EXCEPT ![s] = request]
  BY DEF Catalog!Sent
<1> QED
  BY <1>1 DEF Catalog!UnderWay

RowsAnswered(shown, flight) ==
  \A i \in DOMAIN shown :
    shown[i][Len(shown[i])].content = Loading => Catalog!UnderWay(flight, LastOf(shown[i]))

CatalogAnswered(shown, flight) ==
  \A i \in DOMAIN shown :
    shown[i].content = Loading =>
      Catalog!UnderWay(flight, Catalog!From(shown[i].request, shown[i].skip))

LEMMA AnsweredIs == Catalog!PagesAreAnswered <=> CatalogAnswered(catalog, pages) /\ RowsAnswered(catalogs, pages)
BY DEF Catalog!PagesAreAnswered, Catalog!Last, CatalogAnswered, RowsAnswered, LastOf

LEMMA AnsweredIsThen == Catalog!PagesAreAnswered' <=> CatalogAnswered(catalog', pages') /\ RowsAnswered(catalogs', pages')
BY DEF Catalog!PagesAreAnswered, Catalog!Last, CatalogAnswered, RowsAnswered, LastOf

\* The pages and rows there are stay answered as what was under way remains.
LEMMA PagesStillAnswered ==
  ASSUME NEW next, RequestsAreNotFree,
         \A r : r # Free /\ Catalog!UnderWay(pages, r) => Catalog!UnderWay(next, r)
  PROVE  /\ CatalogAnswered(catalog, pages) => CatalogAnswered(catalog, next)
         /\ RowsAnswered(catalogs, pages) => RowsAnswered(catalogs, next)
         /\ \A row : Catalog!UnderWay(pages, LastOf(row)) => Catalog!UnderWay(next, LastOf(row))
<1>1. \A request, skip : Catalog!UnderWay(pages, Catalog!From(request, skip)) =>
                          Catalog!UnderWay(next, Catalog!From(request, skip))
  BY DEF RequestsAreNotFree
<1>2. \A row : Catalog!UnderWay(pages, LastOf(row)) => Catalog!UnderWay(next, LastOf(row))
  BY <1>1 DEF LastOf
<1>3. CatalogAnswered(catalog, pages) => CatalogAnswered(catalog, next)
  BY <1>1 DEF CatalogAnswered
<1>4. RowsAnswered(catalogs, pages) => RowsAnswered(catalogs, next)
  BY <1>2 DEF RowsAnswered
<1> QED
  BY <1>2, <1>3, <1>4

\* The rows after the plan or the range changed: as they were, or begun anew.
LEMMA UpdatedRows ==
  ASSUME BoardInv, NEW plan, NEW e, NEW range, NEW next, None # Loading,
         next = Catalog!Updated(plan, e, catalogs, range)
  PROVE  /\ DOMAIN next = DOMAIN Catalog!Plan(plan, e)
         /\ \A i \in DOMAIN next :
              /\ PagesOK(next[i]) /\ next[i] # <<>> /\ next[i][1].request = Catalog!Plan(plan, e)[i]
              /\ \/ \E j \in DOMAIN catalogs : next[i] = catalogs[j]
                 \/ /\ next[i] = <<Catalog!Page(Catalog!From(Catalog!Plan(plan, e)[i], 0),
                                                IF i - 1 \in range THEN Loading ELSE None)>>
                    /\ LastOf(next[i]) = Catalog!From(Catalog!Plan(plan, e)[i], 0)
<1> DEFINE P == Catalog!Plan(plan, e)
           Old(i) == {c \in Catalog!ToSet(catalogs) : c[1].request = P[i] /\ c[1].content # None}
           Fresh(i) == <<Catalog!Page(Catalog!From(P[i], 0), IF i - 1 \in range THEN Loading ELSE None)>>
<1>1. next = [i \in DOMAIN P |-> IF Old(i) # {} THEN CHOOSE c \in Old(i) : TRUE ELSE Fresh(i)]
  BY DEF Catalog!Updated
<1> HIDE DEF P
<1>2. DOMAIN next = DOMAIN P
  BY <1>1
<1>3. ASSUME NEW i \in DOMAIN P
      PROVE  /\ PagesOK(next[i]) /\ next[i] # <<>> /\ next[i][1].request = P[i]
             /\ \/ \E j \in DOMAIN catalogs : next[i] = catalogs[j]
                \/ next[i] = Fresh(i) /\ LastOf(next[i]) = Catalog!From(P[i], 0)
  <2>1. CASE Old(i) # {}
    <3>1. next[i] \in Old(i)
      BY <1>1, <2>1
    <3>2. PICK j \in DOMAIN catalogs : next[i] = catalogs[j]
      BY <3>1 DEF Catalog!ToSet
    <3>3. PagesOK(next[i]) /\ next[i] # <<>>
      BY <3>2 DEF BoardInv, Catalog!TypeOK
    <3> QED
      BY <3>1, <3>2, <3>3
  <2>2. CASE Old(i) = {}
    <3>1. next[i] = Fresh(i)
      BY <1>1, <2>2
    <3>2. PagesOK(Fresh(i)) /\ Fresh(i) # <<>> /\ Fresh(i)[1].request = P[i]
      BY DEF PagesOK, Sequence, Catalog!Follow, Catalog!From, Catalog!Page
    <3>3. LastOf(Fresh(i)) = Catalog!From(P[i], 0)
      BY DEF LastOf, Catalog!From, Catalog!Page
    <3> QED
      BY <3>1, <3>2, <3>3
  <2> QED
    BY <2>1, <2>2
<1> QED
  BY <1>2, <1>3 DEF P

\* The board keeps what BoardInv says when its rows are of the plan.
LEMMA BoardOfPlan ==
  ASSUME NEW next, NEW e, NEW plan, NEW shown,
         plan \in Profiles, e \in {Catalog!Opened(b) : b \in Boards},
         profile' = plan, board' = e, catalogs' = shown,
         DOMAIN shown = DOMAIN Catalog!Plan(plan, e),
         \A i \in DOMAIN shown :
           PagesOK(shown[i]) /\ shown[i] # <<>> /\ shown[i][1].request = Catalog!Plan(plan, e)[i]
  PROVE  BoardInv'
<1>1. e # None
  BY CatalogAssumption DEF Catalog!PlansAssumption
<1>2. Catalog!TypeOK'
  BY DEF Catalog!TypeOK, Catalog!Option
<1>3. Catalog!BoardIsOfProfile'
  BY <1>1 DEF Catalog!BoardIsOfProfile
<1>4. (\A i \in DOMAIN catalogs : PagesOK(catalogs[i]))'
  OBVIOUS
<1> QED
  BY <1>2, <1>3, <1>4 DEF BoardInv

LEMMA LoadDiscoverSteps ==
  ASSUME CatalogInv, NEW request, Catalog!LoadDiscover(request)
  PROVE  CatalogInv'
<1>1. /\ UNCHANGED <<profile, board, catalogs>>
      /\ selectable' = Catalog!Selectable(discover', catalog', profile')
  BY DEF Catalog!LoadDiscover, Catalog!rows, Catalog!SelectableUpdate
<1>2. BoardInv'
  BY <1>1 DEF CatalogInv, BoardInv, Catalog!TypeOK, Catalog!BoardIsOfProfile
<1>3. CASE discover' = None
  <2>1. UNCHANGED <<catalog, pages>>
    BY <1>3 DEF Catalog!LoadDiscover
  <2>2. DiscoverInv'
    BY <1>1, <1>3, <2>1 DEF CatalogInv, DiscoverInv
  <2>3. FlightInv'
    BY <1>1, <2>1, AnsweredIs, AnsweredIsThen DEF CatalogInv, FlightInv
  <2> QED
    BY <1>2, <2>2, <2>3 DEF CatalogInv
<1>4. CASE discover' # None
  <2>1. /\ catalog' = FirstPage(discover')
        /\ pages' \in Catalog!Sent(pages, Catalog!From(discover', 0))
    BY <1>4 DEF Catalog!LoadDiscover, FirstPage
  <2>2. DiscoverInv'
    BY <1>1, <2>1, FirstPageIs DEF DiscoverInv
  <2>3. /\ pages' = [s \in FewSlots |-> pages'[s]]
        /\ Catalog!UnderWay(pages', Catalog!From(discover', 0))
        /\ \A r : r # Free /\ Catalog!UnderWay(pages, r) => Catalog!UnderWay(pages', r)
    BY <2>1, SentIs DEF CatalogInv, FlightInv
  <2>4. RequestsAreNotFree => RowsAnswered(catalogs', pages')
    BY <1>1, <2>3, PagesStillAnswered, AnsweredIs DEF CatalogInv, FlightInv
  <2>5. RequestsAreNotFree => CatalogAnswered(catalog', pages')
    <3>1. \A i \in DOMAIN catalog' : i = 1
      BY <2>1 DEF FirstPage
    <3>2. catalog'[1].request = discover' /\ catalog'[1].skip = 0
      BY <2>1 DEF FirstPage, Catalog!NewPage, Catalog!Page, Catalog!From
    <3> QED
      BY <2>3, <3>1, <3>2 DEF CatalogAnswered
  <2>6. FlightInv'
    BY <2>3, <2>4, <2>5, AnsweredIsThen DEF FlightInv
  <2> QED
    BY <1>2, <2>2, <2>6 DEF CatalogInv
<1> QED
  BY <1>3, <1>4

LEMMA NextDiscoverPageSteps ==
  ASSUME CatalogInv, Catalog!NextDiscoverPage
  PROVE  CatalogInv'
<1> DEFINE at == selectable.next_page
<1>1. /\ at # None /\ UNCHANGED <<profile, discover, board, catalogs>>
      /\ catalog' = Append(catalog, Catalog!NewPage(at))
      /\ pages' \in Catalog!Sent(pages, at)
      /\ selectable' = Catalog!Selectable(discover', catalog', profile')
  BY DEF Catalog!NextDiscoverPage, Catalog!rows, Catalog!SelectableUpdate
<1>2. /\ catalog # <<>> /\ Catalog!Ready(catalog[Len(catalog)]) /\ PagesOK(catalog)
      /\ at = Catalog!From(catalog[Len(catalog)].request, catalog[Len(catalog)].skip + catalog[Len(catalog)].content)
  BY <1>1, NextIsAfter DEF CatalogInv, DiscoverInv
<1> HIDE DEF at
<1>3. /\ PagesOK(catalog') /\ catalog' # <<>> /\ catalog'[1].request = catalog[1].request
      /\ LastOf(catalog') = at
  BY <1>1, <1>2, NextPageFollows
<1>4. DiscoverInv'
  BY <1>1, <1>3 DEF CatalogInv, DiscoverInv
<1>5. BoardInv'
  BY <1>1 DEF CatalogInv, BoardInv, Catalog!TypeOK, Catalog!BoardIsOfProfile
<1>6. /\ pages' = [s \in FewSlots |-> pages'[s]]
      /\ Catalog!UnderWay(pages', at)
      /\ \A r : r # Free /\ Catalog!UnderWay(pages, r) => Catalog!UnderWay(pages', r)
  BY <1>1, SentIs DEF CatalogInv, FlightInv
<1>7. RequestsAreNotFree => RowsAnswered(catalogs', pages')
  BY <1>1, <1>6, PagesStillAnswered, AnsweredIs DEF CatalogInv, FlightInv
<1>8. RequestsAreNotFree => CatalogAnswered(catalog', pages')
  <2> SUFFICES ASSUME RequestsAreNotFree, NEW i \in DOMAIN catalog', catalog'[i].content = Loading
               PROVE  Catalog!UnderWay(pages', Catalog!From(catalog'[i].request, catalog'[i].skip))
    BY DEF CatalogAnswered
  <2>1. i = Len(catalog')
    BY <1>3, OnlyLastIsLoading
  <2> QED
    BY <1>3, <1>6, <2>1 DEF LastOf
<1> QED
  BY <1>4, <1>5, <1>6, <1>7, <1>8, AnsweredIsThen DEF CatalogInv, FlightInv

LEMMA UnloadSteps ==
  ASSUME CatalogInv, Catalog!UnloadDiscover \/ Catalog!UnloadBoard
  PROVE  CatalogInv'
<1>1. CASE Catalog!UnloadDiscover
  <2>1. /\ discover' = None /\ catalog' = <<>> /\ UNCHANGED <<profile, pages, board, catalogs>>
        /\ selectable' = Catalog!Selectable(discover', catalog', profile')
    BY <1>1 DEF Catalog!UnloadDiscover, Catalog!rows, Catalog!SelectableUpdate
  <2>2. DiscoverInv'
    BY <2>1 DEF DiscoverInv, PagesOK, Sequence, Catalog!Follow
  <2>3. BoardInv'
    BY <2>1 DEF CatalogInv, BoardInv, Catalog!TypeOK, Catalog!BoardIsOfProfile
  <2>4. FlightInv'
    BY <2>1 DEF CatalogInv, FlightInv, Catalog!PagesAreAnswered, Catalog!UnderWay
  <2> QED
    BY <2>2, <2>3, <2>4 DEF CatalogInv
<1>2. CASE Catalog!UnloadBoard
  <2>1. board' = None /\ catalogs' = <<>> /\ UNCHANGED <<profile, pages, discover, catalog, selectable>>
    BY <1>2 DEF Catalog!UnloadBoard, Catalog!discover
  <2>2. DiscoverInv'
    BY <2>1 DEF CatalogInv, DiscoverInv
  <2>3. BoardInv'
    BY <2>1 DEF CatalogInv, BoardInv, Catalog!TypeOK, Catalog!Option, Catalog!BoardIsOfProfile
  <2>4. FlightInv'
    BY <2>1 DEF CatalogInv, FlightInv, Catalog!PagesAreAnswered, Catalog!UnderWay
  <2> QED
    BY <2>2, <2>3, <2>4 DEF CatalogInv
<1> QED
  BY <1>1, <1>2

LEMMA LoadBoardSteps ==
  ASSUME CatalogInv, NEW e \in Boards, Catalog!LoadBoard(e)
  PROVE  CatalogInv'
<1>1. /\ board' = Catalog!Opened(e) /\ catalogs' = Catalog!Updated(profile, board', catalogs, {})
      /\ UNCHANGED <<profile, discover, selectable, catalog, pages>>
  BY DEF Catalog!LoadBoard, Catalog!discover
<1>2. BoardInv /\ None # Loading /\ profile \in Profiles
  BY MarksAssumption DEF CatalogInv, BoardInv, Catalog!TypeOK, Catalog!LoadableAssumption
<1>3. /\ DOMAIN catalogs' = DOMAIN Catalog!Plan(profile, board')
      /\ \A i \in DOMAIN catalogs' :
           /\ PagesOK(catalogs'[i]) /\ catalogs'[i] # <<>>
           /\ catalogs'[i][1].request = Catalog!Plan(profile, board')[i]
           /\ \/ \E j \in DOMAIN catalogs : catalogs'[i] = catalogs[j]
              \/ catalogs'[i] = <<Catalog!Page(Catalog!From(Catalog!Plan(profile, board')[i], 0),
                                               IF i - 1 \in {} THEN Loading ELSE None)>>
  BY <1>1, <1>2, UpdatedRows
<1>4. BoardInv'
  BY <1>1, <1>2, <1>3, BoardOfPlan
<1>5. DiscoverInv'
  BY <1>1 DEF CatalogInv, DiscoverInv
<1>6. RequestsAreNotFree => RowsAnswered(catalogs', pages')
  BY <1>1, <1>2, <1>3, AnsweredIs DEF CatalogInv, FlightInv, RowsAnswered, Catalog!Page
<1>7. RequestsAreNotFree => CatalogAnswered(catalog', pages')
  BY <1>1, AnsweredIs DEF CatalogInv, FlightInv
<1> QED
  BY <1>1, <1>4, <1>5, <1>6, <1>7, AnsweredIsThen DEF CatalogInv, FlightInv

LEMMA ProfileSteps ==
  ASSUME CatalogInv, NEW plan \in Profiles, Catalog!ProfileChanged(plan)
  PROVE  CatalogInv'
<1>1. /\ profile' = plan /\ UNCHANGED <<discover, catalog, board, pages>>
      /\ catalogs' = IF board = None THEN <<>> ELSE Catalog!Updated(plan, board, catalogs, {})
      /\ selectable' = Catalog!Selectable(discover', catalog', profile')
  BY DEF Catalog!ProfileChanged, Catalog!SelectableUpdate
<1>2. BoardInv /\ None # Loading
  BY MarksAssumption DEF CatalogInv, Catalog!LoadableAssumption
<1>3. DiscoverInv'
  BY <1>1 DEF CatalogInv, DiscoverInv
<1>4. RequestsAreNotFree => CatalogAnswered(catalog', pages')
  BY <1>1, AnsweredIs DEF CatalogInv, FlightInv
<1>5. BoardInv' /\ (RequestsAreNotFree => RowsAnswered(catalogs', pages'))
  <2>1. CASE board = None
    BY <1>1, <2>1 DEF BoardInv, Catalog!TypeOK, Catalog!Option, Catalog!BoardIsOfProfile, RowsAnswered
  <2>2. CASE board # None
    <3>1. /\ DOMAIN catalogs' = DOMAIN Catalog!Plan(plan, board)
          /\ \A i \in DOMAIN catalogs' :
               /\ PagesOK(catalogs'[i]) /\ catalogs'[i] # <<>>
               /\ catalogs'[i][1].request = Catalog!Plan(plan, board)[i]
               /\ \/ \E j \in DOMAIN catalogs : catalogs'[i] = catalogs[j]
                  \/ catalogs'[i] = <<Catalog!Page(Catalog!From(Catalog!Plan(plan, board)[i], 0),
                                                   IF i - 1 \in {} THEN Loading ELSE None)>>
      BY <1>1, <1>2, <2>2, UpdatedRows
    <3>2. board \in {Catalog!Opened(b) : b \in Boards}
      BY <1>2, <2>2 DEF BoardInv, Catalog!TypeOK, Catalog!Option
    <3>3. BoardInv'
      BY <1>1, <3>1, <3>2, BoardOfPlan
    <3>4. RequestsAreNotFree => RowsAnswered(catalogs', pages')
      <4> SUFFICES ASSUME RequestsAreNotFree, NEW i \in DOMAIN catalogs', catalogs'[i][Len(catalogs'[i])].content = Loading
                   PROVE  Catalog!UnderWay(pages', LastOf(catalogs'[i]))
        BY DEF RowsAnswered
      <4>1. catalogs'[i] # <<Catalog!Page(Catalog!From(Catalog!Plan(plan, board)[i], 0), None)>>
        BY <1>2 DEF Catalog!Page
      <4>2. PICK j \in DOMAIN catalogs : catalogs'[i] = catalogs[j]
        BY <3>1, <4>1
      <4> QED
        BY <1>1, <4>2, AnsweredIs DEF CatalogInv, FlightInv, RowsAnswered
    <3> QED
      BY <3>3, <3>4
  <2> QED
    BY <2>1, <2>2
<1> QED
  BY <1>1, <1>3, <1>4, <1>5, AnsweredIsThen DEF CatalogInv, FlightInv

LEMMA LoadRangeSteps ==
  ASSUME CatalogInv, NEW start, NEW end, Catalog!LoadRange(start, end)
  PROVE  CatalogInv'
<1> DEFINE range == start .. end
           plan == Catalog!Plan(profile, board)
<1>1. /\ board # None /\ catalogs' = Catalog!Updated(profile, board, catalogs, range)
      /\ pages' \in AllSent(FewSlots, pages, Catalog!Asked(catalogs, catalogs'))
      /\ UNCHANGED <<profile, discover, selectable, catalog, board>>
  BY DEF Catalog!LoadRange, Catalog!discover, Catalog!SentAll, AllSent
<1>2. BoardInv /\ None # Loading /\ profile \in Profiles /\ board \in {Catalog!Opened(b) : b \in Boards}
  BY <1>1, MarksAssumption DEF CatalogInv, BoardInv, Catalog!TypeOK, Catalog!Option, Catalog!LoadableAssumption
<1> HIDE DEF range
<1>3. /\ DOMAIN catalogs' = DOMAIN plan
      /\ \A i \in DOMAIN catalogs' :
           /\ PagesOK(catalogs'[i]) /\ catalogs'[i] # <<>>
           /\ catalogs'[i][1].request = plan[i]
           /\ \/ \E j \in DOMAIN catalogs : catalogs'[i] = catalogs[j]
              \/ /\ catalogs'[i] = <<Catalog!Page(Catalog!From(plan[i], 0), IF i - 1 \in range THEN Loading ELSE None)>>
                 /\ LastOf(catalogs'[i]) = Catalog!From(plan[i], 0)
  BY <1>1, <1>2, UpdatedRows
<1>4. BoardInv'
  BY <1>1, <1>2, <1>3, BoardOfPlan
<1>5. DiscoverInv'
  BY <1>1 DEF CatalogInv, DiscoverInv
<1> HIDE DEF plan
<1>6. /\ pages' = [s \in FewSlots |-> pages'[s]]
      /\ \A r \in Catalog!Asked(catalogs, catalogs') : Catalog!UnderWay(pages', r)
      /\ \A r : r # Free /\ Catalog!UnderWay(pages, r) => Catalog!UnderWay(pages', r)
  <2>1. /\ pages' = [s \in FewSlots |-> pages'[s]]
        /\ \A r \in Catalog!Asked(catalogs, catalogs') : \E s \in FewSlots : pages'[s] = r
        /\ \A s \in FewSlots : pages[s] # Free => pages'[s] = pages[s]
    BY <1>1, SentAllIs
  <2> QED
    BY <2>1 DEF Catalog!UnderWay
<1>7. RequestsAreNotFree => CatalogAnswered(catalog', pages')
  BY <1>1, <1>6, PagesStillAnswered, AnsweredIs DEF CatalogInv, FlightInv
<1>8. RequestsAreNotFree => RowsAnswered(catalogs', pages')
  <2> SUFFICES ASSUME RequestsAreNotFree, NEW i \in DOMAIN catalogs', catalogs'[i][Len(catalogs'[i])].content = Loading
               PROVE  Catalog!UnderWay(pages', LastOf(catalogs'[i]))
    BY DEF RowsAnswered
  <2>1. CASE \E j \in DOMAIN catalogs : catalogs'[i] = catalogs[j]
    <3>1. Catalog!UnderWay(pages, LastOf(catalogs'[i]))
      BY <2>1, AnsweredIs DEF CatalogInv, FlightInv, RowsAnswered
    <3> QED
      BY <1>6, <3>1, PagesStillAnswered
  <2>2. CASE ~\E j \in DOMAIN catalogs : catalogs'[i] = catalogs[j]
    <3>1. /\ catalogs'[i] = <<Catalog!Page(Catalog!From(plan[i], 0), IF i - 1 \in range THEN Loading ELSE None)>>
          /\ LastOf(catalogs'[i]) = Catalog!From(plan[i], 0)
      BY <1>3, <2>2
    <3>2. catalogs'[i][1].content = Loading /\ catalogs'[i][1].request = plan[i]
      BY <3>1 DEF Catalog!Page, Catalog!From
    <3>3. catalogs'[i] \notin Catalog!ToSet(catalogs)
      BY <2>2 DEF Catalog!ToSet
    <3>4. Catalog!From(plan[i], 0) \in Catalog!Asked(catalogs, catalogs')
      BY <3>2, <3>3 DEF Catalog!Asked
    <3> QED
      BY <1>6, <3>1, <3>4
  <2> QED
    BY <2>1, <2>2
<1> QED
  BY <1>4, <1>5, <1>6, <1>7, <1>8, AnsweredIsThen DEF CatalogInv, FlightInv

LEMMA NextBoardPageSteps ==
  ASSUME CatalogInv, NEW index, Catalog!NextBoardPage(index)
  PROVE  CatalogInv'
<1> DEFINE last == catalogs[index][Len(catalogs[index])]
           at == Catalog!From(last.request, last.skip + last.content)
           longer == Append(catalogs[index], Catalog!NewPage(at))
<1>1. /\ index \in DOMAIN catalogs /\ Catalog!Ready(last)
      /\ catalogs' = [catalogs EXCEPT ![index] = longer]
      /\ pages' \in Catalog!Sent(pages, at)
      /\ UNCHANGED <<profile, discover, selectable, catalog, board>>
  BY DEF Catalog!NextBoardPage, Catalog!Last, Catalog!discover
<1>2. PagesOK(catalogs[index]) /\ catalogs[index] # <<>>
  BY <1>1 DEF CatalogInv, BoardInv, Catalog!TypeOK
<1>3. /\ PagesOK(longer) /\ longer # <<>> /\ longer[1].request = catalogs[index][1].request
      /\ LastOf(longer) = at
  BY <1>1, <1>2, NextPageFollows
<1> HIDE DEF longer, at
<1>4. BoardInv'
  <2>1. /\ DOMAIN catalogs' = DOMAIN catalogs
        /\ \A i \in DOMAIN catalogs :
             /\ PagesOK(catalogs'[i]) /\ catalogs'[i] # <<>>
             /\ catalogs'[i][1].request = catalogs[i][1].request
    BY <1>1, <1>3 DEF CatalogInv, BoardInv, Catalog!TypeOK
  <2> QED
    BY <1>1, <2>1 DEF CatalogInv, BoardInv, Catalog!TypeOK, Catalog!BoardIsOfProfile
<1>5. DiscoverInv'
  BY <1>1 DEF CatalogInv, DiscoverInv
<1>6. /\ pages' = [s \in FewSlots |-> pages'[s]]
      /\ Catalog!UnderWay(pages', at)
      /\ \A r : r # Free /\ Catalog!UnderWay(pages, r) => Catalog!UnderWay(pages', r)
  BY <1>1, SentIs DEF CatalogInv, FlightInv
<1>7. RequestsAreNotFree => CatalogAnswered(catalog', pages')
  BY <1>1, <1>6, PagesStillAnswered, AnsweredIs DEF CatalogInv, FlightInv
<1>8. RequestsAreNotFree => RowsAnswered(catalogs', pages')
  <2> SUFFICES ASSUME RequestsAreNotFree, NEW i \in DOMAIN catalogs, catalogs'[i][Len(catalogs'[i])].content = Loading
               PROVE  Catalog!UnderWay(pages', LastOf(catalogs'[i]))
    BY <1>1 DEF RowsAnswered
  <2>1. CASE i = index
    BY <1>1, <1>3, <1>6, <2>1
  <2>2. CASE i # index
    <3>1. catalogs'[i] = catalogs[i]
      BY <1>1, <2>2
    <3>2. Catalog!UnderWay(pages, LastOf(catalogs[i]))
      BY <3>1, AnsweredIs DEF CatalogInv, FlightInv, RowsAnswered
    <3> QED
      BY <1>6, <3>1, <3>2, PagesStillAnswered
  <2> QED
    BY <2>1, <2>2
<1> QED
  BY <1>4, <1>5, <1>6, <1>7, <1>8, AnsweredIsThen DEF CatalogInv, FlightInv

\* What the first of some pages with a request makes of its answer.
FirstAnswered(shown, next, at, result) ==
  \E first :
    /\ first = {i \in DOMAIN shown : Catalog!IsOf(shown[i], at)
                                     /\ \A j \in DOMAIN shown : j < i => ~Catalog!IsOf(shown[j], at)}
    /\ next = [i \in DOMAIN shown |->
                 IF i \in first THEN Catalog!Taken(shown[i], at, result) ELSE shown[i]]

\* An answer is taken by the page that waits for it: there is no other with its request.
LEMMA TakenPage ==
  ASSUME NEW shown, NEW next, NEW at, NEW result, PagesOK(shown), result # Loading,
         FirstAnswered(shown, next, at, result)
  PROVE  /\ AnsweredTo(shown, next, result)
         /\ \A i \in DOMAIN shown : next[i].content = Loading =>
              next[i] = shown[i] /\ Catalog!From(shown[i].request, shown[i].skip) # at
<1>0. PICK first :
        /\ first = {i \in DOMAIN shown : Catalog!IsOf(shown[i], at)
                                         /\ \A j \in DOMAIN shown : j < i => ~Catalog!IsOf(shown[j], at)}
        /\ next = [i \in DOMAIN shown |->
                     IF i \in first THEN Catalog!Taken(shown[i], at, result) ELSE shown[i]]
  BY DEF FirstAnswered
<1>1. ASSUME NEW i \in DOMAIN shown, Catalog!Taken(shown[i], at, result) # shown[i]
      PROVE  /\ shown[i].content = Loading
             /\ Catalog!Taken(shown[i], at, result) =
                  [request |-> shown[i].request, skip |-> shown[i].skip, content |-> result]
  BY <1>1 DEF Catalog!Taken, Catalog!NewPage, Catalog!Page
<1>2. ASSUME NEW i \in DOMAIN shown, next[i].content = Loading
      PROVE  next[i] = shown[i] /\ Catalog!From(shown[i].request, shown[i].skip) # at
  <2>1. CASE Catalog!From(shown[i].request, shown[i].skip) # at
    <3>1. i \notin first
      BY <1>0, <2>1 DEF Catalog!IsOf
    <3> QED
      BY <1>0, <2>1, <3>1
  <2>2. CASE Catalog!From(shown[i].request, shown[i].skip) = at
    <3>1. \A j \in DOMAIN shown : j < i => Catalog!From(shown[j].request, shown[j].skip) # at
      <4>1. \A j \in DOMAIN shown : j < i => shown[j].skip < shown[i].skip /\ shown[j].skip \in Nat
        BY SkipsGrow DEF PagesOK
      <4> QED
        BY <2>2, <4>1 DEF Catalog!From
    <3>2. i \in first
      BY <1>0, <2>2, <3>1 DEF Catalog!IsOf
    <3>3. next[i] = Catalog!Taken(shown[i], at, result)
      BY <1>0, <3>2
    <3>4. Catalog!Taken(shown[i], at, result) = shown[i] => shown[i].content # Loading
      <4>1. shown[i].content = Loading => shown[i] = Catalog!NewPage(at)
        BY <2>2 DEF PagesOK, Catalog!From, Catalog!NewPage, Catalog!Page
      <4>2. Catalog!Page(at, result) # Catalog!NewPage(at)
        BY DEF Catalog!NewPage, Catalog!Page
      <4> QED
        BY <4>1, <4>2 DEF Catalog!Taken
    <3>5. FALSE
      BY <1>1, <1>2, <3>3, <3>4
    <3> QED
      BY <3>5
  <2> QED
    BY <2>1, <2>2
<1>3. \A i \in DOMAIN shown : next[i] = shown[i] \/ next[i] = Catalog!Taken(shown[i], at, result)
  BY <1>0
<1>4. AnsweredTo(shown, next, result)
  BY <1>0, <1>1, <1>3 DEF AnsweredTo
<1> QED
  BY <1>2, <1>4

LEMMA AnswerSteps ==
  ASSUME CatalogInv, NEW s \in FewSlots, NEW result \in PageSizes \cup {Failed},
         Catalog!ResourceRequestResult(s, result)
  PROVE  CatalogInv'
<1> DEFINE at == pages[s]
           page == Catalog!FirstIndex(catalog, LAMBDA p : Catalog!IsOf(p, at))
           row == Catalog!FirstIndex(catalogs, LAMBDA c : Catalog!IsOf(Catalog!Last(c), at))
<1>1. /\ at # Free /\ pages' = [pages EXCEPT ![s] = Free]
      /\ catalog' = [i \in DOMAIN catalog |->
                       IF i \in page THEN Catalog!Taken(catalog[i], at, result) ELSE catalog[i]]
      /\ catalogs' = [i \in DOMAIN catalogs |->
                        IF i \in row THEN [catalogs[i] EXCEPT ![Len(catalogs[i])] = Catalog!Taken(@, at, result)]
                                     ELSE catalogs[i]]
      /\ UNCHANGED <<profile, discover, board>>
      /\ selectable' = Catalog!Selectable(discover', catalog', profile')
  BY DEF Catalog!ResourceRequestResult, Catalog!Ended, Catalog!SelectableUpdate
<1>2. result # Loading
  BY CatalogAssumption, MarksAssumption
  DEF Catalog!PagesAssumption, Catalog!LoadableAssumption
<1>3. /\ AnsweredTo(catalog, catalog', result)
      /\ \A i \in DOMAIN catalog : catalog'[i].content = Loading =>
           catalog'[i] = catalog[i] /\ Catalog!From(catalog[i].request, catalog[i].skip) # at
  <2>1. page = {i \in DOMAIN catalog : Catalog!IsOf(catalog[i], at)
                                       /\ \A j \in DOMAIN catalog : j < i => ~Catalog!IsOf(catalog[j], at)}
    BY DEF Catalog!FirstIndex
  <2>2. FirstAnswered(catalog, catalog', at, result)
    BY <1>1, <2>1 DEF FirstAnswered
  <2>3. PagesOK(catalog)
    BY DEF CatalogInv, DiscoverInv
  <2> HIDE DEF page, at
  <2> QED
    BY <1>2, <2>2, <2>3, TakenPage
<1>4. /\ PagesOK(catalog') /\ DOMAIN catalog' = DOMAIN catalog
      /\ catalog # <<>> => catalog' # <<>> /\ catalog'[1].request = catalog[1].request
  BY <1>3, AnsweredFollow DEF CatalogInv, DiscoverInv
<1>5. DiscoverInv'
  BY <1>1, <1>4 DEF CatalogInv, DiscoverInv
<1>6. \A r : r # at /\ Catalog!UnderWay(pages, r) => Catalog!UnderWay(pages', r)
  BY <1>1 DEF Catalog!UnderWay
<1>7. RequestsAreNotFree => CatalogAnswered(catalog', pages')
  BY <1>3, <1>4, <1>6, AnsweredIs DEF CatalogInv, FlightInv, CatalogAnswered
<1>8. DOMAIN catalogs' = DOMAIN catalogs
  BY <1>1
<1> HIDE DEF page, row
<1>9. ASSUME NEW i \in DOMAIN catalogs
      PROVE  /\ PagesOK(catalogs'[i]) /\ catalogs'[i] # <<>>
             /\ catalogs'[i][1].request = catalogs[i][1].request
             /\ catalogs'[i][Len(catalogs'[i])].content = Loading =>
                  catalogs'[i] = catalogs[i] /\ LastOf(catalogs[i]) # at
  <2> DEFINE c == catalogs[i]
             taken == [c EXCEPT ![Len(c)] = Catalog!Taken(@, at, result)]
  <2>1. PagesOK(c) /\ c # <<>>
    BY DEF CatalogInv, BoardInv, Catalog!TypeOK
  <2>2. DOMAIN c = 1 .. Len(c) /\ Len(c) \in DOMAIN c
    BY <2>1 DEF PagesOK, Sequence
  <2>3. i \in row => LastOf(c) = at
    BY DEF row, Catalog!FirstIndex, Catalog!IsOf, Catalog!Last, LastOf
  <2>4. LastOf(c) = at => i \in row
    <3> SUFFICES ASSUME LastOf(c) = at, NEW j \in DOMAIN catalogs, j < i, LastOf(catalogs[j]) = at
                 PROVE  FALSE
      BY DEF row, Catalog!FirstIndex, Catalog!IsOf, Catalog!Last, LastOf
    <3>1. PagesOK(catalogs[j]) /\ catalogs[j] # <<>>
      BY DEF CatalogInv, BoardInv, Catalog!TypeOK
    <3>2. Len(catalogs[j]) \in DOMAIN catalogs[j]
      BY <3>1 DEF PagesOK, Sequence
    <3>3. catalogs[j][1].request = catalogs[j][Len(catalogs[j])].request /\ c[1].request = c[Len(c)].request
      BY <2>1, <2>2, <3>1, <3>2 DEF PagesOK, Catalog!Follow
    <3>4. catalogs[j][1].request = c[1].request
      BY <3>3 DEF LastOf, Catalog!From
    <3>5. /\ board # None /\ DOMAIN catalogs = DOMAIN Catalog!Plan(profile, board)
          /\ \A k \in DOMAIN Catalog!Plan(profile, board) :
               catalogs[k][1].request = Catalog!Plan(profile, board)[k]
      BY DEF CatalogInv, BoardInv, Catalog!BoardIsOfProfile
    <3>6. Catalog!IsInjective(Catalog!Plan(profile, board))
      BY <3>5, CatalogAssumption
      DEF CatalogInv, BoardInv, Catalog!TypeOK, Catalog!Option, Catalog!PlansAssumption
    <3>7. i = j
      BY <3>4, <3>5, <3>6 DEF Catalog!IsInjective
    <3>8. i \in Nat
      BY <3>5, CatalogAssumption
      DEF CatalogInv, BoardInv, Catalog!TypeOK, Catalog!Option, Catalog!PlansAssumption
    <3> QED
      BY <3>7, <3>8
  <2>5. catalogs'[i] = IF i \in row THEN taken ELSE c
    BY <1>1
  <2>6. CASE LastOf(c) # at
    BY <2>1, <2>3, <2>5, <2>6
  <2>7. CASE LastOf(c) = at
    <3>1. catalogs'[i] = taken
      BY <2>4, <2>5, <2>7
    <3>2. c[Len(c)] = Catalog!Page(at, c[Len(c)].content)
      BY <2>1, <2>2, <2>7 DEF PagesOK, LastOf, Catalog!From, Catalog!Page
    <3>3. Catalog!Taken(c[Len(c)], at, result) =
            IF c[Len(c)].content = Loading THEN Catalog!Page(at, result) ELSE c[Len(c)]
      BY <3>2 DEF Catalog!Taken, Catalog!NewPage, Catalog!Page
    <3>4. AnsweredTo(c, taken, result)
      <4>1. \A k \in DOMAIN c : taken[k] = IF k = Len(c) THEN Catalog!Taken(c[k], at, result) ELSE c[k]
        OBVIOUS
      <4>2. \/ Catalog!Taken(c[Len(c)], at, result) = c[Len(c)]
            \/ /\ c[Len(c)].content = Loading
               /\ Catalog!Taken(c[Len(c)], at, result) =
                    [request |-> c[Len(c)].request, skip |-> c[Len(c)].skip, content |-> result]
        BY <2>7, <3>3 DEF LastOf, Catalog!From, Catalog!Page
      <4>3. taken = [k \in DOMAIN c |-> taken[k]]
        OBVIOUS
      <4> HIDE DEF taken, c
      <4> QED
        BY <4>1, <4>2, <4>3 DEF AnsweredTo
    <3>5. taken[Len(c)].content # Loading
      BY <1>2, <2>2, <3>3 DEF Catalog!Page
    <3> HIDE DEF taken, c
    <3>6. /\ PagesOK(taken) /\ Len(taken) = Len(c) /\ taken # <<>> /\ taken[1].request = c[1].request
      BY <2>1, <3>4, AnsweredFollow
    <3> QED
      BY <3>1, <3>5, <3>6 DEF c
  <2> QED
    BY <2>6, <2>7
<1>10. BoardInv'
  <2>1. Catalog!TypeOK'
    BY <1>1, <1>8, <1>9 DEF CatalogInv, BoardInv, Catalog!TypeOK
  <2>2. Catalog!BoardIsOfProfile'
    BY <1>1, <1>8, <1>9 DEF CatalogInv, BoardInv, Catalog!BoardIsOfProfile
  <2>3. (\A i \in DOMAIN catalogs : PagesOK(catalogs[i]))'
    BY <1>8, <1>9
  <2> QED
    BY <2>1, <2>2, <2>3 DEF BoardInv
<1>11. RequestsAreNotFree => RowsAnswered(catalogs', pages')
  BY <1>6, <1>8, <1>9, AnsweredIs DEF CatalogInv, FlightInv, RowsAnswered
<1>12. pages' = [t \in FewSlots |-> pages'[t]]
  BY <1>1 DEF CatalogInv, FlightInv
<1> QED
  BY <1>5, <1>7, <1>10, <1>11, <1>12, AnsweredIsThen DEF CatalogInv, FlightInv

LEMMA CatalogBegins ==
  ASSUME Catalog!Init
  PROVE  CatalogInv
<1>1. DiscoverInv
  BY DEF Catalog!Init, DiscoverInv, PagesOK, Sequence, Catalog!Follow
<1>2. BoardInv
  BY DEF Catalog!Init, BoardInv, Catalog!TypeOK, Catalog!Option, Catalog!BoardIsOfProfile
<1>3. FlightInv
  BY DEF Catalog!Init, FlightInv, Catalog!PagesAreAnswered, Catalog!NoFlight
<1> QED
  BY <1>1, <1>2, <1>3 DEF CatalogInv

LEMMA CatalogSteps ==
  ASSUME CatalogInv, [Catalog!Next]_catalogVars
  PROVE  CatalogInv'
<1>1. CASE UNCHANGED catalogVars
  BY <1>1 DEF catalogVars, CatalogInv, DiscoverInv, BoardInv, FlightInv, Catalog!TypeOK,
              Catalog!BoardIsOfProfile, Catalog!PagesAreAnswered, Catalog!UnderWay
<1>2. CASE Catalog!Next
  BY <1>2, LoadDiscoverSteps, NextDiscoverPageSteps, UnloadSteps, LoadBoardSteps, LoadRangeSteps,
     NextBoardPageSteps, AnswerSteps, ProfileSteps
  DEF Catalog!Next
<1> QED
  BY <1>1, <1>2
-----------------------------------------------------------------------------
(* Meta details *)

\* Resources that are those of some requests, in their order.
AreOf(resources, requests) ==
  /\ DOMAIN resources = DOMAIN requests
  /\ \A i \in DOMAIN resources :
       resources[i] = [request |-> requests[i], content |-> resources[i].content]

ContentsOf(resources) ==
  \A i \in DOMAIN resources : resources[i].content \in Details!Loadable(Contents[resources[i].request.of])

StreamsOf(resources) ==
  \A i \in DOMAIN resources : resources[i].content \in Details!Loadable({"streams"})

\* What is Loading is under way.
WaitFor(resources, flight) ==
  \A i \in DOMAIN resources :
    resources[i].content = Loading => Details!UnderWay(flight, resources[i].request)

MetaOf(sel, list) == IF sel = None THEN <<>> ELSE Details!MetaRequests(sel, list)
StreamOf(sel, list) == IF sel = None THEN <<>> ELSE Details!StreamRequests(sel, list)

PartsTyped ==
  /\ addons \in Collections /\ auth \in Details!Option(Users) /\ library \subseteq Titles
  /\ selected \in Details!Option(Details!Selection) /\ meta_streams \in Details!Option(Details!Videos)
  /\ rating_info \in Details!Option(Details!Loadable(Details!Rating)) /\ {stale, guessed} \subseteq BOOLEAN

ResourcesInv ==
  /\ AreOf(meta_items, MetaOf(selected, addons)) /\ ContentsOf(meta_items)
  /\ AreOf(streams, StreamOf(selected, addons)) /\ StreamsOf(streams)
  /\ selected = None => meta_items = <<>> /\ streams = <<>>

RatingWaits ==
  rating_info = Loading =>
    \E s \in Slots : calls[s] # Free /\ calls[s].kind \in {"get", "send"} /\ calls[s].of = selected.title

AnswersInv ==
  /\ calls \in [Slots -> Details!Call \cup {Free}]
  /\ WaitFor(meta_items, calls) /\ WaitFor(streams, calls) /\ RatingWaits

RatingInv == Details!RatingOfTitle /\ (selected = None => rating_info = None)

NoneLoads == \A i \in DOMAIN meta_items : meta_items[i].content # Loading

GuessInv ==
  selected # None /\ ~stale =>
    /\ guessed => NoneLoads /\ selected.video = Details!Proposed
    /\ selected.guess /\ selected.video = None /\ NoneLoads => Details!Proposed = None

DetailsInv ==
  PartsTyped /\ ResourcesInv /\ AnswersInv /\ Details!DerivedIsCurrent /\ RatingInv /\ GuessInv

LEMMA NoneLoadsIs == NoneLoads <=> Details!LoadingOf(meta_items) = {}
BY DEF NoneLoads, Details!LoadingOf, Details!Range

\* What the add-ons in use are asked for.
LEMMA RequestsAre ==
  ASSUME NEW sel \in Details!Selection, NEW list \in Collections
  PROVE  /\ DOMAIN Details!MetaRequests(sel, list) = DOMAIN list
         /\ \A i \in DOMAIN Details!MetaRequests(sel, list) :
              /\ Details!MetaRequests(sel, list)[i] \in Details!Call
              /\ Details!MetaRequests(sel, list)[i].kind = "meta"
              /\ Details!MetaRequests(sel, list)[i].of = sel.title
         /\ \A i \in DOMAIN Details!StreamRequests(sel, list) :
              /\ Details!StreamRequests(sel, list)[i] \in Details!Call
              /\ Details!StreamRequests(sel, list)[i].kind = "stream"
              /\ Details!StreamRequests(sel, list)[i].of \in Details!Videos
         /\ DOMAIN list \subseteq Nat
<1>1. list \in Seq(Bases)
  BY DetailsAssumption DEF Details!ProfilesAssumption
<1>2. DOMAIN list \subseteq Nat /\ \A i \in DOMAIN list : list[i] \in Bases
  BY <1>1
<1>3. sel.title \in Titles /\ sel.title \in Details!Videos /\ sel.video \in Details!Videos \cup {None}
  BY DEF Details!Selection, Details!Option, Details!Videos
<1> QED
  BY <1>2, <1>3 DEF Details!MetaRequests, Details!StreamRequests, Details!MetaRequest, Details!StreamRequest, Details!Call

\* What is requested is kept where it is there already, and Loading where it is not.
LEMMA RequestedIs ==
  ASSUME NEW resources, NEW known, AreOf(resources, known), NEW requests
  PROVE  /\ AreOf(Details!Requested(resources, requests), requests)
         /\ \A i \in DOMAIN requests :
              \/ \E j \in DOMAIN resources : Details!Requested(resources, requests)[i] = resources[j]
              \/ /\ Details!Requested(resources, requests)[i] = [request |-> requests[i], content |-> Loading]
                 /\ requests[i] \in Details!Unasked(resources, requests)
<1> DEFINE next == Details!Requested(resources, requests)
<1>1. ASSUME NEW i \in DOMAIN requests
      PROVE  /\ next[i] = [request |-> requests[i], content |-> next[i].content]
             /\ \/ \E j \in DOMAIN resources : next[i] = resources[j]
                \/ /\ next[i] = [request |-> requests[i], content |-> Loading]
                   /\ requests[i] \in Details!Unasked(resources, requests)
  <2>1. CASE \E r \in Details!Range(resources) : r.request = requests[i]
    <3>1. next[i] \in Details!Range(resources) /\ next[i].request = requests[i]
      BY <2>1 DEF Details!Requested
    <3>2. PICK j \in DOMAIN resources : next[i] = resources[j]
      BY <3>1 DEF Details!Range
    <3>3. resources[j] = [request |-> known[j], content |-> resources[j].content]
      BY DEF AreOf
    <3> HIDE DEF next
    <3> QED
      BY <3>1, <3>2, <3>3
  <2>2. CASE ~\E r \in Details!Range(resources) : r.request = requests[i]
    BY <2>2 DEF Details!Requested, Details!Unasked, Details!Range
  <2> QED
    BY <2>1, <2>2
<1>2. DOMAIN next = DOMAIN requests
  BY DEF Details!Requested
<1> QED
  BY <1>1, <1>2 DEF AreOf

LEMMA UnaskedIs ==
  ASSUME NEW resources, NEW requests
  PROVE  \A r \in Details!Unasked(resources, requests) : \E i \in DOMAIN requests : r = requests[i]
BY DEF Details!Unasked, Details!Range

\* The first answer is one of those there are.
LEMMA FirstReadyIs ==
  ASSUME NEW resources, DOMAIN resources \subseteq Nat, Details!FirstReady(resources) # None
  PROVE  \E i \in DOMAIN resources :
           /\ Details!FirstReady(resources) = resources[i]
           /\ resources[i].content \notin {Loading, Failed}
<1> DEFINE ready == {i \in DOMAIN resources : Details!Ready(resources[i])}
<1>1. ready # {} /\ Details!FirstReady(resources) = resources[Details!Min(ready)]
  BY DEF Details!FirstReady
<1>2. \E n \in ready : \A m \in ready : n <= m
  BY <1>1, LeastOf
<1>3. Details!Min(ready) \in ready
  BY <1>2 DEF Details!Min
<1> QED
  BY <1>1, <1>3 DEF Details!Ready

\* What is guessed is a selection of the same title.
LEMMA GuessedIs ==
  ASSUME NEW sel \in Details!Selection, NEW list \in Collections, NEW found,
         AreOf(found, Details!MetaRequests(sel, list)), ContentsOf(found)
  PROVE  /\ Details!Guessed(sel, found) \in Details!Selection
         /\ Details!Guessed(sel, found).title = sel.title
<1> DEFINE first == Details!FirstReady(found)
<1>1. CASE Details!Guessed(sel, found) = sel
  BY <1>1
<1>2. CASE Details!Guessed(sel, found) # sel
  <2>1. /\ first # None
        /\ \/ /\ first.content.default # None
              /\ Details!Guessed(sel, found) = [sel EXCEPT !.video = first.content.default, !.guess = FALSE]
           \/ Details!Guessed(sel, found) = [sel EXCEPT !.video = sel.title, !.guess = FALSE]
    BY <1>2 DEF Details!Guessed
  <2>2. DOMAIN found \subseteq Nat
    BY RequestsAre DEF AreOf
  <2>3. PICK i \in DOMAIN found : first = found[i] /\ found[i].content \notin {Loading, Failed}
    BY <2>1, <2>2, FirstReadyIs
  <2>4. found[i].request.of = sel.title /\ sel.title \in Titles
    BY RequestsAre DEF AreOf, Details!Selection
  <2>5. found[i].content \in Contents[sel.title]
    BY <2>3, <2>4 DEF ContentsOf, Details!Loadable
  <2>6. found[i].content \in Details!MetaItems
    BY <2>4, <2>5 DEF Details!MetaItems
  <2>7. first.content.default # None => first.content.default \in Details!Videos
    <3> DEFINE m == found[i].content
    <3>1. m.videos \cup {m.default} \in {n.videos \cup {n.default} : n \in Details!MetaItems}
      BY <2>6
    <3>2. m.default \in UNION {n.videos \cup {n.default} : n \in Details!MetaItems}
      BY <3>1, Zenon
    <3> QED
      BY <2>3, <3>2 DEF Details!Videos
  <2>8. sel.title \in Details!Videos
    BY <2>4 DEF Details!Videos
  <2> HIDE DEF first
  <2> QED
    BY <2>1, <2>7, <2>8 DEF Details!Selection, Details!Option
<1> QED
  BY <1>1, <1>2

\* What is requested is typed as what was there, and what is Loading under way.
LEMMA MetaRequested ==
  ASSUME ResourcesInv, AnswersInv, NEW sel \in Details!Selection, NEW list \in Collections, NEW next, NEW asks,
         next \in AllSent(Slots, calls, asks), asks \subseteq Details!Call,
         Details!Unasked(meta_items, Details!MetaRequests(sel, list)) \subseteq asks
  PROVE  LET new == Details!Requested(meta_items, Details!MetaRequests(sel, list)) IN
         AreOf(new, Details!MetaRequests(sel, list)) /\ ContentsOf(new) /\ WaitFor(new, next)
<1> DEFINE requests == Details!MetaRequests(sel, list)
           new == Details!Requested(meta_items, requests)
<1>1. /\ AreOf(new, requests)
      /\ \A i \in DOMAIN requests :
           \/ \E j \in DOMAIN meta_items : new[i] = meta_items[j]
           \/ new[i] = [request |-> requests[i], content |-> Loading] /\ requests[i] \in asks
  <2> HIDE DEF requests
  <2> QED
    BY RequestedIs DEF ResourcesInv, requests
<1> HIDE DEF new, requests
<1>2. ContentsOf(new)
  BY <1>1 DEF AreOf, ContentsOf, Details!Loadable, ResourcesInv
<1>3. /\ \A r \in asks : Details!UnderWay(next, r)
      /\ \A s \in Slots : calls[s] # Free => next[s] = calls[s]
  BY SentAllIs DEF Details!UnderWay
<1>4. ASSUME NEW i \in DOMAIN requests, new[i].content = Loading
      PROVE  Details!UnderWay(next, new[i].request)
  <2>1. CASE \E j \in DOMAIN meta_items : new[i] = meta_items[j]
    <3>1. Details!UnderWay(calls, new[i].request)
      BY <1>4, <2>1 DEF AnswersInv, WaitFor
    <3>2. new[i].request # Free
      <4>1. requests[i] \in Details!Call
        BY RequestsAre DEF requests
      <4>2. Free \notin Details!Call
        BY DetailsAssumption DEF Details!MarksAssumption
      <4> QED
        BY <1>1, <4>1, <4>2 DEF AreOf
    <3> QED
      BY <1>3, <3>1, <3>2 DEF Details!UnderWay
  <2>2. CASE ~\E j \in DOMAIN meta_items : new[i] = meta_items[j]
    <3>1. new[i] = [request |-> requests[i], content |-> Loading] /\ requests[i] \in asks
      BY <1>1, <2>2
    <3> QED
      BY <1>3, <3>1
  <2> QED
    BY <2>1, <2>2
<1>5. WaitFor(new, next)
  BY <1>1, <1>4 DEF WaitFor, AreOf
<1> QED
  BY <1>1, <1>2, <1>5 DEF new, requests

\* So are the streams, some call having ended before, of what is not a stream.
LEMMA StreamsRequested ==
  ASSUME NEW known, AreOf(streams, known), StreamsOf(streams),
         NEW flight, WaitFor(streams, flight), NEW sel \in Details!Selection, NEW list \in Collections,
         NEW next, NEW asks, next \in AllSent(Slots, flight, asks),
         Details!Unasked(streams, Details!StreamRequests(sel, list)) \subseteq asks
  PROVE  LET new == Details!Requested(streams, Details!StreamRequests(sel, list)) IN
         AreOf(new, Details!StreamRequests(sel, list)) /\ StreamsOf(new) /\ WaitFor(new, next)
<1> DEFINE requests == Details!StreamRequests(sel, list)
           new == Details!Requested(streams, requests)
<1>1. /\ AreOf(new, requests)
      /\ \A i \in DOMAIN requests :
           \/ \E j \in DOMAIN streams : new[i] = streams[j]
           \/ new[i] = [request |-> requests[i], content |-> Loading] /\ requests[i] \in asks
  <2> HIDE DEF requests
  <2> QED
    BY RequestedIs DEF requests
<1> HIDE DEF new, requests
<1>2. StreamsOf(new)
  BY <1>1 DEF AreOf, StreamsOf, Details!Loadable
<1>3. /\ \A r \in asks : Details!UnderWay(next, r)
      /\ \A s \in Slots : flight[s] # Free => next[s] = flight[s]
  BY SentAllIs DEF Details!UnderWay
<1>4. ASSUME NEW i \in DOMAIN requests, new[i].content = Loading
      PROVE  Details!UnderWay(next, new[i].request)
  <2>1. CASE \E j \in DOMAIN streams : new[i] = streams[j]
    <3>1. Details!UnderWay(flight, new[i].request)
      BY <1>4, <2>1 DEF WaitFor
    <3>2. new[i].request # Free
      <4>1. requests[i] \in Details!Call
        BY RequestsAre DEF requests
      <4>2. Free \notin Details!Call
        BY DetailsAssumption DEF Details!MarksAssumption
      <4> QED
        BY <1>1, <4>1, <4>2 DEF AreOf
    <3> QED
      BY <1>3, <3>1, <3>2 DEF Details!UnderWay
  <2>2. CASE ~\E j \in DOMAIN streams : new[i] = streams[j]
    <3>1. new[i] = [request |-> requests[i], content |-> Loading] /\ requests[i] \in asks
      BY <1>1, <2>2
    <3> QED
      BY <1>3, <3>1
  <2> QED
    BY <2>1, <2>2
<1>5. WaitFor(new, next)
  BY <1>1, <1>4 DEF WaitFor, AreOf
<1> QED
  BY <1>1, <1>2, <1>5 DEF new, requests

\* Load and ProfileChanged, but for what is said of the guess.
LEMMA RefreshedIs ==
  ASSUME PartsTyped, ResourcesInv, AnswersInv, RatingInv,
         NEW sel \in Details!Selection, NEW before \in Details!Selection, before.title = sel.title,
         NEW list \in Collections, NEW user \in Details!Option(Users),
         selected' = sel, addons' = list, auth' = user, UNCHANGED library,
         meta_items' = Details!Requested(meta_items, Details!MetaRequests(before, list)),
         {stale', guessed'} \subseteq BOOLEAN,
         Details!Refreshed(sel, before, list, user)
  PROVE  PartsTyped' /\ ResourcesInv' /\ AnswersInv' /\ RatingInv'
<1> DEFINE metaAsks == Details!Unasked(meta_items, Details!MetaRequests(before, list))
           streamAsks == Details!Unasked(streams, Details!StreamRequests(sel, list))
           ratingAsks == IF Details!AsksRating(sel, user) THEN {Details!GetRating(sel.title, user)} ELSE {}
           asks == metaAsks \cup streamAsks \cup ratingAsks
<1>1. /\ meta_streams' = Details!MetaStreams(meta_streams, sel, meta_items')
      /\ streams' = Details!Requested(streams, Details!StreamRequests(sel, list))
      /\ rating_info' = Details!RatingInfo(sel, user)
      /\ calls' \in AllSent(Slots, calls, asks)
  BY DEF Details!Refreshed, Details!SentAll, AllSent
<1>2. asks \subseteq Details!Call
  <2>1. metaAsks \subseteq Details!Call
    BY UnaskedIs, RequestsAre
  <2>2. streamAsks \subseteq Details!Call
    BY UnaskedIs, RequestsAre
  <2>3. ratingAsks \subseteq Details!Call
    <3>1. sel.title \in Titles /\ (user # None => user \in Users)
      BY DEF Details!Selection, Details!Option
    <3> QED
      BY <3>1 DEF Details!AsksRating, Details!GetRating, Details!Call
  <2> HIDE DEF metaAsks, streamAsks, ratingAsks
  <2> QED
    BY <2>1, <2>2, <2>3
<1> HIDE DEF ratingAsks
<1>3. selected' # None /\ before # None
  BY DetailsAssumption DEF Details!MarksAssumption
<1>4. Details!MetaRequests(before, list) = Details!MetaRequests(sel, list)
  BY DEF Details!MetaRequests
<1>5. /\ AreOf(meta_items', Details!MetaRequests(sel, list)) /\ ContentsOf(meta_items')
      /\ WaitFor(meta_items', calls')
  <2>1. metaAsks \subseteq asks
    OBVIOUS
  <2> HIDE DEF asks
  <2> QED
    BY <1>1, <1>2, <1>4, <2>1, MetaRequested
<1>6. /\ AreOf(streams', Details!StreamRequests(sel, list)) /\ StreamsOf(streams')
      /\ WaitFor(streams', calls')
  <2>1. streamAsks \subseteq asks
    OBVIOUS
  <2>2. /\ AreOf(streams, StreamOf(selected, addons)) /\ StreamsOf(streams) /\ WaitFor(streams, calls)
    BY DEF ResourcesInv, AnswersInv
  <2> HIDE DEF asks
  <2> QED
    BY <1>1, <2>1, <2>2, StreamsRequested
<1>7. ResourcesInv'
  BY <1>3, <1>5, <1>6 DEF ResourcesInv, MetaOf, StreamOf
<1>8. /\ calls' = [s \in Slots |-> calls'[s]]
      /\ \A r \in asks : \E s \in Slots : calls'[s] = r
      /\ \A s \in Slots : calls[s] # Free => calls'[s] = calls[s]
      /\ \A s \in Slots : calls'[s] = calls[s] \/ calls'[s] \in asks
  <2> HIDE DEF asks
  <2> QED
    BY <1>1, SentAllIs
<1>9. calls' \in [Slots -> Details!Call \cup {Free}]
  <2>1. \A s \in Slots : calls'[s] \in Details!Call \cup {Free}
    BY <1>2, <1>8 DEF AnswersInv
  <2> QED
    BY <1>8, <2>1
<1>10. RatingInv' /\ rating_info' \in Details!Option(Details!Loadable(Details!Rating))
  BY <1>1, <1>3 DEF RatingInv, Details!RatingOfTitle, Details!RatingInfo, Details!AsksRating,
                    PartsTyped, Details!Option, Details!Loadable
<1>11. RatingWaits'
  <2> SUFFICES ASSUME rating_info' = Loading
               PROVE  \E s \in Slots : /\ calls'[s] # Free /\ calls'[s].kind \in {"get", "send"}
                                       /\ calls'[s].of = sel.title
    BY DEF RatingWaits
  <2>1. Details!AsksRating(sel, user)
    <3>1. None # Loading
      BY MarksAssumption DEF Details!LoadableAssumption
    <3> QED
      BY <1>1, <3>1 DEF Details!RatingInfo, Details!AsksRating
  <2>2. Details!GetRating(sel.title, user) \in asks
    BY <2>1 DEF ratingAsks
  <2>3. PICK s \in Slots : calls'[s] = Details!GetRating(sel.title, user)
    BY <1>8, <2>2
  <2>4. calls'[s] # Free
    BY <1>2, <2>2, <2>3, DetailsAssumption DEF Details!MarksAssumption
  <2> QED
    BY <2>3, <2>4 DEF Details!GetRating
<1>12. AnswersInv'
  BY <1>5, <1>6, <1>9, <1>11 DEF AnswersInv
<1>13. PartsTyped'
  <2>1. meta_streams' \in Details!Option(Details!Videos)
    BY <1>1 DEF Details!MetaStreams, PartsTyped, Details!Option, Details!Selection
  <2> QED
    BY <1>10, <2>1 DEF PartsTyped, Details!Option
<1> QED
  BY <1>7, <1>10, <1>12, <1>13

\* What the first add-on proposes, of what there is then.
LEMMA ProposedAfter ==
  ASSUME NEW sel \in Details!Selection, selected' = Details!Guessed(sel, meta_items')
  PROVE  /\ selected' # sel => NoneLoads' /\ selected'.video = Details!Proposed'
         /\ selected'.guess /\ selected'.video = None /\ NoneLoads' => Details!Proposed' = None
<1> DEFINE first == Details!FirstReady(meta_items')
<1>1. NoneLoads' <=> Details!LoadingOf(meta_items') = {}
  BY DEF NoneLoads, Details!LoadingOf, Details!Range
<1>2. Details!Proposed' = IF first = None THEN None
                          ELSE IF first.content.default # None THEN first.content.default
                          ELSE IF first.content.videos = {} THEN selected'.title ELSE None
  BY DEF Details!Proposed
<1>3. selected' =
        IF sel.video # None \/ ~sel.guess \/ Details!LoadingOf(meta_items') # {} \/ first = None THEN sel
        ELSE IF first.content.default # None
          THEN [sel EXCEPT !.video = first.content.default, !.guess = FALSE]
          ELSE IF first.content.videos = {}
            THEN [sel EXCEPT !.video = sel.title, !.guess = FALSE] ELSE sel
  BY DEF Details!Guessed
<1>4. sel = [title |-> sel.title, video |-> sel.video, guess |-> sel.guess]
  BY DEF Details!Selection
<1> HIDE DEF first
<1> QED
  BY <1>1, <1>2, <1>3, <1>4

LEMMA LoadSteps ==
  ASSUME DetailsInv, NEW load \in Loads, Details!Load(load.title, load.video, load.guess)
  PROVE  DetailsInv'
<1> DEFINE sel == [title |-> load.title, video |-> load.video, guess |-> load.guess]
<1>1. /\ meta_items' = Details!Requested(meta_items, Details!MetaRequests(sel, addons))
      /\ selected' = Details!Guessed(sel, meta_items')
      /\ Details!Refreshed(selected', sel, addons, auth)
      /\ Details!Derived /\ stale' = FALSE /\ guessed' = (selected' # sel)
      /\ UNCHANGED <<addons, auth, library>>
  BY DEF Details!Load
<1>2. sel \in Details!Selection
  BY DetailsAssumption DEF Details!SelectionsAssumption, Details!Selection
<1> HIDE DEF sel
<1>3. addons \in Collections /\ auth \in Details!Option(Users)
  BY DEF DetailsInv, PartsTyped
<1>4. AreOf(meta_items', Details!MetaRequests(sel, addons)) /\ ContentsOf(meta_items')
  <2>1. /\ AreOf(meta_items', Details!MetaRequests(sel, addons))
        /\ \A i \in DOMAIN Details!MetaRequests(sel, addons) :
             \/ \E j \in DOMAIN meta_items : meta_items'[i] = meta_items[j]
             \/ meta_items'[i] = [request |-> Details!MetaRequests(sel, addons)[i], content |-> Loading]
    BY <1>1, RequestedIs DEF DetailsInv, ResourcesInv
  <2> QED
    BY <2>1 DEF AreOf, ContentsOf, Details!Loadable, DetailsInv, ResourcesInv
<1>5. selected' \in Details!Selection /\ selected'.title = sel.title
  BY <1>1, <1>2, <1>3, <1>4, GuessedIs
<1>6. PartsTyped' /\ ResourcesInv' /\ AnswersInv' /\ RatingInv'
  <2>1. {stale', guessed'} \subseteq BOOLEAN
    BY <1>1
  <2> QED
    BY <1>1, <1>2, <1>3, <1>5, <2>1, RefreshedIs DEF DetailsInv
<1>7. Details!DerivedIsCurrent'
  BY <1>1 DEF Details!Derived, Details!DerivedIsCurrent
<1>8. GuessInv'
  <2>1. /\ selected' # sel => NoneLoads' /\ selected'.video = Details!Proposed'
        /\ selected'.guess /\ selected'.video = None /\ NoneLoads' => Details!Proposed' = None
    BY <1>1, <1>2, ProposedAfter
  <2> QED
    BY <1>1, <2>1 DEF GuessInv
<1> QED
  BY <1>6, <1>7, <1>8 DEF DetailsInv

LEMMA DetailsProfileSteps ==
  ASSUME DetailsInv, NEW list \in Collections, NEW user \in Details!Option(Users),
         Details!ProfileChanged(list, user)
  PROVE  DetailsInv'
<1>1. /\ addons' = list /\ auth' = user /\ UNCHANGED <<selected, library, guessed>>
      /\ stale' = (selected # None) /\ Details!Derived
  BY DEF Details!ProfileChanged
<1>2. Details!DerivedIsCurrent'
  BY <1>1 DEF Details!Derived, Details!DerivedIsCurrent
<1>3. GuessInv'
  BY <1>1 DEF GuessInv
<1>4. CASE selected = None
  <2>1. UNCHANGED <<meta_items, meta_streams, streams, calls>> /\ rating_info' = None
    BY <1>4 DEF Details!ProfileChanged
  <2>2. PartsTyped'
    BY <1>1, <2>1 DEF DetailsInv, PartsTyped, Details!Option
  <2>3. ResourcesInv'
    BY <1>1, <1>4, <2>1 DEF DetailsInv, ResourcesInv, MetaOf, StreamOf
  <2>4. RatingInv' /\ RatingWaits'
    <3>1. None # Loading
      BY MarksAssumption DEF Details!LoadableAssumption
    <3> QED
      BY <2>1, <3>1 DEF RatingInv, Details!RatingOfTitle, RatingWaits
  <2>5. AnswersInv'
    BY <2>1, <2>4 DEF DetailsInv, AnswersInv, WaitFor, Details!UnderWay
  <2> QED
    BY <1>2, <1>3, <2>2, <2>3, <2>4, <2>5 DEF DetailsInv
<1>5. CASE selected # None
  <2>1. /\ meta_items' = Details!Requested(meta_items, Details!MetaRequests(selected, list))
        /\ Details!Refreshed(selected, selected, list, user)
    BY <1>5 DEF Details!ProfileChanged
  <2>2. selected \in Details!Selection
    BY <1>5 DEF DetailsInv, PartsTyped, Details!Option
  <2>3. {stale', guessed'} \subseteq BOOLEAN
    BY <1>1 DEF DetailsInv, PartsTyped
  <2>4. PartsTyped' /\ ResourcesInv' /\ AnswersInv' /\ RatingInv'
    BY <1>1, <2>1, <2>2, <2>3, RefreshedIs DEF DetailsInv
  <2> QED
    BY <1>2, <1>3, <2>4 DEF DetailsInv
<1> QED
  BY <1>4, <1>5

LEMMA DetailsUnloadSteps ==
  ASSUME DetailsInv, Details!Unload
  PROVE  DetailsInv'
<1>1. /\ selected' = None /\ meta_items' = <<>> /\ meta_streams' = None /\ streams' = <<>>
      /\ last_used_stream' = None /\ library_item' = None /\ rating_info' = None
      /\ stale' = FALSE /\ guessed' = FALSE
      /\ UNCHANGED <<addons, auth, library, calls>>
  BY DEF Details!Unload
<1>2. None # Loading
  BY MarksAssumption DEF Details!LoadableAssumption
<1>3. PartsTyped'
  BY <1>1 DEF DetailsInv, PartsTyped, Details!Option
<1>4. ResourcesInv'
  BY <1>1 DEF ResourcesInv, AreOf, ContentsOf, StreamsOf, MetaOf, StreamOf
<1>5. AnswersInv'
  BY <1>1, <1>2 DEF DetailsInv, AnswersInv, WaitFor, RatingWaits
<1>6. Details!DerivedIsCurrent'
  BY <1>1 DEF Details!DerivedIsCurrent, Details!LastUsedStream, Details!LibraryItem
<1>7. RatingInv'
  BY <1>1 DEF RatingInv, Details!RatingOfTitle
<1>8. GuessInv'
  BY <1>1 DEF GuessInv
<1> QED
  BY <1>3, <1>4, <1>5, <1>6, <1>7, <1>8 DEF DetailsInv

LEMMA LibraryChangedSteps ==
  ASSUME DetailsInv, NEW saved \in SUBSET Titles, Details!LibraryChanged(saved)
  PROVE  DetailsInv'
<1>1. /\ library' = saved /\ library_item' = Details!LibraryItem(selected, meta_items, saved)
      /\ UNCHANGED <<addons, auth, selected, meta_items, meta_streams, streams, last_used_stream,
                     rating_info, calls, stale, guessed>>
  BY DEF Details!LibraryChanged
<1>2. PartsTyped' /\ ResourcesInv' /\ RatingInv'
  BY <1>1 DEF DetailsInv, PartsTyped, ResourcesInv, RatingInv, Details!RatingOfTitle
<1>3. AnswersInv'
  BY <1>1 DEF DetailsInv, AnswersInv, WaitFor, RatingWaits, Details!UnderWay
<1>4. Details!DerivedIsCurrent'
  BY <1>1 DEF DetailsInv, Details!DerivedIsCurrent
<1>5. GuessInv'
  BY <1>1 DEF DetailsInv, GuessInv, NoneLoads, Details!Proposed
<1> QED
  BY <1>2, <1>3, <1>4, <1>5 DEF DetailsInv

LEMMA MarkSteps ==
  ASSUME DetailsInv, NEW kind, Details!Mark(kind)
  PROVE  DetailsInv'
<1>1. library_item # None /\ Details!LibraryChanged(library \cup {selected.title})
  BY DEF Details!Mark
<1>2. selected # None
  BY <1>1 DEF DetailsInv, Details!DerivedIsCurrent, Details!LibraryItem
<1>3. library \cup {selected.title} \in SUBSET Titles
  BY <1>2 DEF DetailsInv, PartsTyped, Details!Option, Details!Selection
<1> QED
  BY <1>1, <1>3, LibraryChangedSteps

LEMMA RateSteps ==
  ASSUME DetailsInv, Details!Rate
  PROVE  DetailsInv'
<1>1. /\ selected # None /\ auth # None /\ rating_info' = Loading
      /\ calls' \in Details!Sent(calls, Details!SendRating(selected.title, auth))
      /\ UNCHANGED <<addons, auth, library, selected, meta_items, meta_streams, streams,
                     last_used_stream, library_item, stale, guessed>>
  BY DEF Details!Rate
<1>2. PICK s \in Slots : calls[s] = Free /\ calls' = [calls EXCEPT ![s] = Details!SendRating(selected.title, auth)]
  BY <1>1 DEF Details!Sent
<1>3. selected.title \in Titles /\ auth \in Users
  BY <1>1 DEF DetailsInv, PartsTyped, Details!Option, Details!Selection
<1>4. Details!SendRating(selected.title, auth) \in Details!Call /\ Free \notin Details!Call
  BY <1>3, DetailsAssumption DEF Details!SendRating, Details!Call, Details!MarksAssumption
<1>5. PartsTyped'
  BY <1>1 DEF DetailsInv, PartsTyped, Details!Option, Details!Loadable
<1>6. ResourcesInv'
  BY <1>1 DEF DetailsInv, ResourcesInv
<1>7. calls' \in [Slots -> Details!Call \cup {Free}]
  BY <1>2, <1>4 DEF DetailsInv, AnswersInv
<1>8. RatingWaits'
  BY <1>1, <1>2, <1>4 DEF RatingWaits, Details!SendRating, DetailsInv, AnswersInv
<1>9. \A r \in Details!Call : Details!UnderWay(calls, r) => Details!UnderWay(calls', r)
  BY <1>2, <1>4 DEF DetailsInv, AnswersInv, Details!UnderWay
<1>10. /\ \A i \in DOMAIN meta_items : meta_items[i].request \in Details!Call
       /\ \A i \in DOMAIN streams : streams[i].request \in Details!Call
  <2>1. selected \in Details!Selection /\ addons \in Collections
    BY <1>1 DEF DetailsInv, PartsTyped, Details!Option
  <2> QED
    BY <1>1, <2>1, RequestsAre DEF DetailsInv, ResourcesInv, AreOf, MetaOf, StreamOf
<1>11. AnswersInv'
  BY <1>1, <1>7, <1>8, <1>9, <1>10 DEF DetailsInv, AnswersInv, WaitFor
<1>12. Details!DerivedIsCurrent'
  BY <1>1 DEF DetailsInv, Details!DerivedIsCurrent
<1>13. RatingInv'
  BY <1>1 DEF RatingInv, Details!RatingOfTitle
<1>14. GuessInv'
  BY <1>1 DEF DetailsInv, GuessInv, NoneLoads, Details!Proposed
<1> QED
  BY <1>5, <1>6, <1>11, <1>12, <1>13, <1>14 DEF DetailsInv

\* An answer is taken by what waits for it, and by nothing else.
LEMMA ResourceAnswered ==
  ASSUME NEW resources, NEW known, AreOf(resources, known), NEW request, NEW result, result # Loading
  PROVE  LET new == Details!Answered(resources, request, result) IN
         /\ AreOf(new, known)
         /\ \A i \in DOMAIN resources :
              \/ new[i] = resources[i]
              \/ resources[i].request = request /\ new[i].request = request /\ new[i].content = result
         /\ \A i \in DOMAIN resources : new[i].content = Loading =>
              new[i] = resources[i] /\ resources[i].request # request
<1> DEFINE new == Details!Answered(resources, request, result)
<1>1. DOMAIN new = DOMAIN resources
  BY DEF Details!Answered
<1>2. ASSUME NEW i \in DOMAIN resources
      PROVE  new[i] = IF resources[i].request = request /\ resources[i].content = Loading
                        THEN [request |-> known[i], content |-> result] ELSE resources[i]
  <2>1. resources[i] = [request |-> known[i], content |-> resources[i].content]
    BY DEF AreOf
  <2>2. [resources[i] EXCEPT !.content = result] = [request |-> known[i], content |-> result]
    BY <2>1
  <2> QED
    BY <2>2 DEF Details!Answered
<1>3. \A i \in DOMAIN resources : resources[i].request = known[i]
  BY DEF AreOf
<1> HIDE DEF new
<1>4. AreOf(new, known)
  BY <1>1, <1>2 DEF AreOf
<1>5. ASSUME NEW i \in DOMAIN resources
      PROVE  /\ \/ new[i] = resources[i]
                \/ resources[i].request = request /\ new[i].request = request /\ new[i].content = result
             /\ new[i].content = Loading => new[i] = resources[i] /\ resources[i].request # request
  <2>1. CASE resources[i].request = request /\ resources[i].content = Loading
    <3>1. new[i] = [request |-> known[i], content |-> result]
      BY <1>2, <2>1
    <3>2. new[i].request = known[i] /\ new[i].content = result
      BY <3>1
    <3> QED
      BY <1>3, <2>1, <3>2
  <2>2. CASE ~(resources[i].request = request /\ resources[i].content = Loading)
    <3>1. new[i] = resources[i]
      BY <1>2, <2>2
    <3> QED
      BY <2>2, <3>1
  <2> QED
    BY <2>1, <2>2
<1> QED
  BY <1>4, <1>5 DEF new

\* What waits for another call than one that ended still does.
LEMMA WaitsOn ==
  ASSUME NEW resources, WaitFor(resources, calls), NEW s \in Slots, calls \in [Slots -> Details!Call \cup {Free}],
         \A i \in DOMAIN resources : resources[i].content = Loading => resources[i].request # calls[s]
  PROVE  WaitFor(resources, Details!Ended(calls, s))
BY DEF WaitFor, Details!UnderWay, Details!Ended

LEMMA RatingWaitsOn ==
  ASSUME RatingWaits, NEW s \in Slots, calls \in [Slots -> Details!Call \cup {Free}],
         calls[s] # Free, calls[s].kind \notin {"get", "send"}, NEW next,
         \A t \in Slots : t # s /\ calls[t] # Free => next[t] = calls[t],
         rating_info' = rating_info, calls' = next,
         selected' = selected \/ (selected' # None /\ selected'.title = selected.title)
  PROVE  RatingWaits'
BY DEF RatingWaits

LEMMA StreamResultSteps ==
  ASSUME DetailsInv, NEW s \in Slots, calls[s] # Free, calls[s].kind = "stream",
         NEW result \in {"streams", Failed}, Details!StreamResult(s, result)
  PROVE  DetailsInv'
<1>1. /\ selected # None /\ streams' = Details!Answered(streams, calls[s], result)
      /\ last_used_stream' = Details!LastUsedStream(selected, meta_items, meta_streams, streams')
      /\ calls' = Details!Ended(calls, s)
      /\ UNCHANGED <<addons, auth, library, selected, meta_items, meta_streams, library_item,
                     rating_info, stale, guessed>>
  BY DEF Details!StreamResult
<1>2. result # Loading
  BY DetailsAssumption, MarksAssumption DEF Details!MarksAssumption, Details!LoadableAssumption
<1>3. /\ AreOf(streams', StreamOf(selected, addons))
      /\ \A i \in DOMAIN streams :
           \/ streams'[i] = streams[i]
           \/ streams'[i].content = result
      /\ \A i \in DOMAIN streams : streams'[i].content = Loading =>
           streams'[i] = streams[i] /\ streams[i].request # calls[s]
  BY <1>1, <1>2, ResourceAnswered DEF DetailsInv, ResourcesInv
<1>4. selected \in Details!Selection /\ addons \in Collections
  BY <1>1 DEF DetailsInv, PartsTyped, Details!Option
<1>5. ResourcesInv'
  <2>1. StreamsOf(streams')
    BY <1>3 DEF StreamsOf, AreOf, Details!Loadable, DetailsInv, ResourcesInv
  <2> QED
    BY <1>1, <1>3, <2>1 DEF DetailsInv, ResourcesInv
<1>6. AnswersInv'
  <2>1. calls' \in [Slots -> Details!Call \cup {Free}]
    BY <1>1 DEF DetailsInv, AnswersInv, Details!Ended
  <2>2. WaitFor(meta_items', calls')
    <3>1. \A i \in DOMAIN meta_items : meta_items[i].request.kind = "meta"
      BY <1>1, <1>4, RequestsAre DEF DetailsInv, ResourcesInv, AreOf, MetaOf
    <3>2. \A i \in DOMAIN meta_items : meta_items[i].request # calls[s]
      BY <3>1
    <3> QED
      BY <1>1, <3>2, WaitsOn DEF DetailsInv, AnswersInv
  <2>3. WaitFor(streams', calls')
    <3>1. DOMAIN streams' = DOMAIN streams
      BY <1>3 DEF AreOf, DetailsInv, ResourcesInv
    <3>2. WaitFor(streams', calls)
      BY <1>3, <3>1 DEF WaitFor, DetailsInv, AnswersInv
    <3>3. \A i \in DOMAIN streams' : streams'[i].content = Loading => streams'[i].request # calls[s]
      BY <1>3, <3>1
    <3> QED
      BY <1>1, <3>2, <3>3, WaitsOn DEF DetailsInv, AnswersInv
  <2>4. RatingWaits'
    <3>1. \A t \in Slots : t # s /\ calls[t] # Free => calls'[t] = calls[t]
      BY <1>1 DEF DetailsInv, AnswersInv, Details!Ended
    <3> QED
      BY <1>1, <3>1, RatingWaitsOn DEF DetailsInv, AnswersInv
  <2> QED
    BY <2>1, <2>2, <2>3, <2>4 DEF AnswersInv
<1>7. PartsTyped' /\ RatingInv'
  BY <1>1 DEF DetailsInv, PartsTyped, RatingInv, Details!RatingOfTitle
<1>8. Details!DerivedIsCurrent'
  BY <1>1 DEF DetailsInv, Details!DerivedIsCurrent
<1>9. GuessInv'
  BY <1>1 DEF DetailsInv, GuessInv, NoneLoads, Details!Proposed
<1> QED
  BY <1>5, <1>6, <1>7, <1>8, <1>9 DEF DetailsInv

LEMMA UnseenSteps ==
  ASSUME DetailsInv, NEW s \in Slots, Details!ResultUnseen(s)
  PROVE  DetailsInv'
<1>1. /\ selected = None /\ calls' = Details!Ended(calls, s)
      /\ UNCHANGED <<addons, auth, library, selected, meta_items, meta_streams, streams,
                     last_used_stream, library_item, rating_info, stale, guessed>>
  BY DEF Details!ResultUnseen
<1>2. meta_items = <<>> /\ streams = <<>> /\ rating_info = None /\ None # Loading
  BY <1>1, MarksAssumption DEF DetailsInv, ResourcesInv, RatingInv, Details!LoadableAssumption
<1>3. AnswersInv'
  BY <1>1, <1>2 DEF DetailsInv, AnswersInv, WaitFor, RatingWaits, Details!Ended
<1>4. PartsTyped' /\ RatingInv' /\ ResourcesInv'
  BY <1>1 DEF DetailsInv, PartsTyped, ResourcesInv, RatingInv, Details!RatingOfTitle
<1>5. Details!DerivedIsCurrent' /\ GuessInv'
  BY <1>1 DEF DetailsInv, Details!DerivedIsCurrent, GuessInv, NoneLoads, Details!Proposed
<1> QED
  BY <1>3, <1>4, <1>5 DEF DetailsInv

LEMMA RatingResultSteps ==
  ASSUME DetailsInv, NEW s \in Slots, calls[s] # Free, calls[s].kind \in {"get", "send"},
         NEW result, Details!RatingResult(s, result)
  PROVE  DetailsInv'
<1> DEFINE own == [of |-> calls[s].of, user |-> calls[s].user]
<1>1. /\ rating_info' = IF selected = None \/ selected.title # calls[s].of THEN rating_info
                        ELSE IF result = Failed THEN Failed ELSE own
      /\ calls' = Details!Ended(calls, s)
      /\ UNCHANGED <<addons, auth, library, selected, meta_items, meta_streams, streams,
                     last_used_stream, library_item, stale, guessed>>
  BY DEF Details!RatingResult
<1>2. calls[s] \in Details!Call
  BY DEF DetailsInv, AnswersInv
<1>3. own \in Details!Rating
  BY <1>2 DEF Details!Call, Details!Rating
<1>4. own \notin {None, Loading, Failed} /\ Failed # Loading
  BY <1>3, DetailsAssumption, MarksAssumption DEF Details!MarksAssumption, Details!LoadableAssumption
<1> HIDE DEF own
<1>5. PartsTyped'
  <2>1. rating_info' \in Details!Option(Details!Loadable(Details!Rating))
    BY <1>1, <1>3 DEF DetailsInv, PartsTyped, Details!Option, Details!Loadable
  <2> QED
    BY <1>1, <2>1 DEF DetailsInv, PartsTyped
<1>6. RatingInv'
  BY <1>1, <1>4 DEF DetailsInv, RatingInv, Details!RatingOfTitle, own
<1>7. ResourcesInv'
  BY <1>1 DEF DetailsInv, ResourcesInv
<1>8. Details!DerivedIsCurrent' /\ GuessInv'
  BY <1>1 DEF DetailsInv, Details!DerivedIsCurrent, GuessInv, NoneLoads, Details!Proposed
<1>9. AnswersInv'
  <2>1. calls' \in [Slots -> Details!Call \cup {Free}]
    BY <1>1 DEF DetailsInv, AnswersInv, Details!Ended
  <2>2. /\ \A i \in DOMAIN meta_items : meta_items[i].request # calls[s]
        /\ \A i \in DOMAIN streams : streams[i].request # calls[s]
    <3>1. CASE selected = None
      BY <3>1 DEF DetailsInv, ResourcesInv
    <3>2. CASE selected # None
      <4>1. selected \in Details!Selection /\ addons \in Collections
        BY <3>2 DEF DetailsInv, PartsTyped, Details!Option
      <4>2. /\ \A i \in DOMAIN meta_items : meta_items[i].request.kind = "meta"
            /\ \A i \in DOMAIN streams : streams[i].request.kind = "stream"
        BY <3>2, <4>1, RequestsAre DEF DetailsInv, ResourcesInv, AreOf, MetaOf, StreamOf
      <4> QED
        BY <4>2
    <3> QED
      BY <3>1, <3>2
  <2>3. WaitFor(meta_items', calls') /\ WaitFor(streams', calls')
    BY <1>1, <2>2, WaitsOn DEF DetailsInv, AnswersInv
  <2>4. RatingWaits'
    <3>1. CASE selected = None \/ selected.title # calls[s].of
      <4>1. selected = None => rating_info # Loading
        BY MarksAssumption DEF DetailsInv, RatingInv, Details!LoadableAssumption
      <4> QED
        BY <1>1, <3>1, <4>1 DEF DetailsInv, AnswersInv, RatingWaits, Details!Ended
    <3>2. CASE selected # None /\ selected.title = calls[s].of
      BY <1>1, <1>4, <3>2 DEF RatingWaits
    <3> QED
      BY <3>1, <3>2
  <2> QED
    BY <2>1, <2>3, <2>4 DEF AnswersInv
<1> QED
  BY <1>5, <1>6, <1>7, <1>8, <1>9 DEF DetailsInv

LEMMA MetaResultSteps ==
  ASSUME DetailsInv, NEW s \in Slots, calls[s] # Free, calls[s].kind = "meta",
         NEW result \in Contents[calls[s].of] \cup {Failed}, Details!MetaResult(s, result)
  PROVE  DetailsInv'
<1> DEFINE left == Details!Ended(calls, s)
           asks == Details!Unasked(streams, Details!StreamRequests(selected', addons))
<1>1. /\ selected # None /\ meta_items' = Details!Answered(meta_items, calls[s], result)
      /\ selected' = Details!Guessed(selected, meta_items')
      /\ meta_streams' = Details!MetaStreams(meta_streams, selected', meta_items')
      /\ Details!Derived /\ guessed' = (guessed \/ selected' # selected)
      /\ UNCHANGED <<addons, auth, library, rating_info, stale>>
  BY DEF Details!MetaResult
<1>2. \/ selected' = selected /\ streams' = streams /\ calls' = left
      \/ /\ streams' = Details!Requested(streams, Details!StreamRequests(selected', addons))
         /\ calls' \in AllSent(Slots, left, asks)
  BY DEF Details!MetaResult, Details!SentAll, AllSent
<1>3. selected \in Details!Selection /\ addons \in Collections /\ calls \in [Slots -> Details!Call \cup {Free}]
  BY <1>1 DEF DetailsInv, PartsTyped, AnswersInv, Details!Option
<1>4. AreOf(meta_items, Details!MetaRequests(selected, addons)) /\ ContentsOf(meta_items)
  BY <1>1 DEF DetailsInv, ResourcesInv, MetaOf
<1>5. /\ \A i \in DOMAIN meta_items :
           /\ meta_items[i].request \in Details!Call /\ meta_items[i].request.kind = "meta"
           /\ meta_items[i].request.of \in Titles
      /\ \A i \in DOMAIN streams :
           streams[i].request \in Details!Call /\ streams[i].request.kind = "stream"
  <2>1. AreOf(streams, Details!StreamRequests(selected, addons))
    BY <1>1 DEF DetailsInv, ResourcesInv, StreamOf
  <2>2. selected.title \in Titles
    BY <1>3 DEF Details!Selection
  <2> QED
    BY <1>3, <1>4, <2>1, <2>2, RequestsAre DEF AreOf
<1>6. /\ AreOf(meta_items', Details!MetaRequests(selected, addons)) /\ ContentsOf(meta_items')
      /\ \A i \in DOMAIN meta_items : meta_items'[i].content = Loading =>
           meta_items'[i] = meta_items[i] /\ meta_items[i].request # calls[s]
  <2>1. CASE result = Loading
    <3>1. \A i \in DOMAIN meta_items : meta_items[i].request # calls[s]
      <4>1. result # Failed
        BY <2>1, MarksAssumption DEF Details!LoadableAssumption
      <4>2. calls[s].of \notin Titles
        BY <2>1, <4>1, DetailsAssumption DEF Details!MarksAssumption, Details!MetaItems
      <4> QED
        BY <1>5, <4>2
    <3>2. \A i \in DOMAIN meta_items : meta_items'[i] = meta_items[i]
      BY <1>1, <3>1 DEF Details!Answered
    <3>3. DOMAIN meta_items' = DOMAIN meta_items
      BY <1>1 DEF Details!Answered
    <3> QED
      BY <1>4, <3>1, <3>2, <3>3 DEF AreOf, ContentsOf
  <2>2. CASE result # Loading
    <3>1. /\ AreOf(meta_items', Details!MetaRequests(selected, addons))
          /\ \A i \in DOMAIN meta_items :
               \/ meta_items'[i] = meta_items[i]
               \/ meta_items'[i].request = calls[s] /\ meta_items'[i].content = result
          /\ \A i \in DOMAIN meta_items : meta_items'[i].content = Loading =>
               meta_items'[i] = meta_items[i] /\ meta_items[i].request # calls[s]
      BY <1>1, <1>4, <2>2, ResourceAnswered
    <3>2. ContentsOf(meta_items')
      BY <1>4, <3>1 DEF AreOf, ContentsOf, Details!Loadable
    <3> QED
      BY <3>1, <3>2
  <2> QED
    BY <2>1, <2>2
<1>7. selected' \in Details!Selection /\ selected'.title = selected.title /\ selected' # None
  <2>1. selected' \in Details!Selection /\ selected'.title = selected.title
    BY <1>1, <1>3, <1>6, GuessedIs
  <2> QED
    BY <2>1, DetailsAssumption DEF Details!MarksAssumption
<1>8. WaitFor(streams, left)
  <2>1. \A i \in DOMAIN streams : streams[i].request # calls[s]
    BY <1>5
  <2> QED
    BY <1>3, <2>1, WaitsOn DEF DetailsInv, AnswersInv
<1>9. WaitFor(meta_items', left)
  <2>1. DOMAIN meta_items' = DOMAIN meta_items
    BY <1>1 DEF Details!Answered
  <2>2. WaitFor(meta_items', calls)
    BY <1>6, <2>1 DEF WaitFor, DetailsInv, AnswersInv
  <2>3. \A i \in DOMAIN meta_items' : meta_items'[i].content = Loading => meta_items'[i].request # calls[s]
    BY <1>6, <2>1
  <2> QED
    BY <1>3, <2>2, <2>3, WaitsOn
<1>10. left \in [Slots -> Details!Call \cup {Free}] /\ \A t \in Slots : t # s => left[t] = calls[t]
  BY <1>3 DEF Details!Ended
<1>11. /\ AreOf(streams', Details!StreamRequests(selected', addons)) /\ StreamsOf(streams')
       /\ WaitFor(streams', calls') /\ calls' \in [Slots -> Details!Call \cup {Free}]
       /\ \A t \in Slots : left[t] # Free => calls'[t] = left[t]
  <2>1. CASE selected' = selected /\ streams' = streams /\ calls' = left
    BY <1>1, <1>8, <1>10, <2>1 DEF DetailsInv, ResourcesInv, StreamOf
  <2>2. CASE /\ streams' = Details!Requested(streams, Details!StreamRequests(selected', addons))
             /\ calls' \in AllSent(Slots, left, asks)
    <3>1. asks \subseteq Details!Call
      BY <1>3, <1>7, UnaskedIs, RequestsAre
    <3> HIDE DEF left
    <3>2. /\ AreOf(streams', Details!StreamRequests(selected', addons)) /\ StreamsOf(streams')
          /\ WaitFor(streams', calls')
      BY <1>3, <1>7, <1>8, <2>2, StreamsRequested DEF DetailsInv, ResourcesInv
    <3> HIDE DEF asks
    <3>3. /\ calls' = [t \in Slots |-> calls'[t]]
          /\ \A t \in Slots : left[t] # Free => calls'[t] = left[t]
          /\ \A t \in Slots : calls'[t] = left[t] \/ calls'[t] \in asks
      BY <2>2, SentAllIs
    <3>4. \A t \in Slots : calls'[t] \in Details!Call \cup {Free}
      BY <1>10, <3>1, <3>3
    <3>5. calls' \in [Slots -> Details!Call \cup {Free}]
      BY <3>3, <3>4
    <3> QED
      BY <3>2, <3>3, <3>5
  <2> QED
    BY <1>2, <2>1, <2>2
<1> HIDE DEF left, asks
<1>12. ResourcesInv'
  <2>1. Details!MetaRequests(selected', addons) = Details!MetaRequests(selected, addons)
    BY <1>7 DEF Details!MetaRequests
  <2> QED
    BY <1>1, <1>6, <1>7, <1>11, <2>1 DEF ResourcesInv, MetaOf, StreamOf
<1>13. AnswersInv'
  <2>1. WaitFor(meta_items', calls')
    <3>1. \A i \in DOMAIN meta_items' : meta_items'[i].request \in Details!Call
      BY <1>3, <1>6, RequestsAre DEF AreOf
    <3>2. Free \notin Details!Call
      BY DetailsAssumption DEF Details!MarksAssumption
    <3> QED
      BY <1>9, <1>11, <3>1, <3>2 DEF WaitFor, Details!UnderWay
  <2>2. RatingWaits'
    <3>1. \A t \in Slots : t # s /\ calls[t] # Free => calls'[t] = calls[t]
      BY <1>10, <1>11
    <3> QED
      BY <1>1, <1>3, <1>7, <3>1, RatingWaitsOn DEF DetailsInv, AnswersInv
  <2> QED
    BY <1>11, <2>1, <2>2 DEF AnswersInv
<1>14. PartsTyped'
  <2>1. meta_streams' \in Details!Option(Details!Videos)
    BY <1>1, <1>7 DEF Details!MetaStreams, DetailsInv, PartsTyped, Details!Option, Details!Selection
  <2>2. guessed' \in BOOLEAN
    BY <1>1 DEF DetailsInv, PartsTyped
  <2> QED
    BY <1>1, <1>7, <2>1, <2>2 DEF DetailsInv, PartsTyped, Details!Option
<1>15. RatingInv'
  BY <1>1, <1>7 DEF DetailsInv, RatingInv, Details!RatingOfTitle
<1>16. Details!DerivedIsCurrent'
  BY <1>1 DEF Details!Derived, Details!DerivedIsCurrent
<1>17. GuessInv'
  <2>1. /\ selected' # selected => NoneLoads' /\ selected'.video = Details!Proposed'
        /\ selected'.guess /\ selected'.video = None /\ NoneLoads' => Details!Proposed' = None
    BY <1>1, <1>3, ProposedAfter
  <2>2. CASE selected' = selected /\ guessed /\ ~stale
    <3>1. NoneLoads /\ selected.video = Details!Proposed
      BY <1>1, <2>2 DEF DetailsInv, GuessInv
    <3>2. DOMAIN meta_items' = DOMAIN meta_items /\ \A i \in DOMAIN meta_items : meta_items'[i] = meta_items[i]
      BY <1>1, <3>1 DEF Details!Answered, NoneLoads
    <3>3. Details!FirstReady(meta_items') = Details!FirstReady(meta_items)
      <4> DEFINE ready == {i \in DOMAIN meta_items : Details!Ready(meta_items[i])}
                 then == {i \in DOMAIN meta_items' : Details!Ready(meta_items'[i])}
      <4>1. then = ready /\ \A i \in ready : meta_items'[i] = meta_items[i]
        BY <3>2
      <4>2. ready # {} => Details!Min(ready) \in ready
        <5>1. ready \subseteq Nat
          BY <1>3, <1>4, RequestsAre DEF AreOf
        <5>2. ready # {} => \E n \in ready : \A m \in ready : n <= m
          BY <5>1, LeastOf
        <5> HIDE DEF ready
        <5> QED
          BY <5>2 DEF Details!Min
      <4>3. /\ Details!FirstReady(meta_items') = IF then = {} THEN None ELSE meta_items'[Details!Min(then)]
            /\ Details!FirstReady(meta_items) = IF ready = {} THEN None ELSE meta_items[Details!Min(ready)]
        BY DEF Details!FirstReady
      <4> HIDE DEF ready, then
      <4> QED
        BY <4>1, <4>2, <4>3
    <3>4. NoneLoads' /\ selected'.video = Details!Proposed'
      <4>1. Details!Proposed' = Details!Proposed
        BY <2>2, <3>3 DEF Details!Proposed
      <4> QED
        BY <2>2, <3>1, <3>2, <4>1 DEF NoneLoads
    <3> QED
      BY <2>1, <3>4 DEF GuessInv
  <2>3. CASE selected' # selected \/ ~guessed \/ stale
    BY <1>1, <2>1, <2>3 DEF GuessInv
  <2> QED
    BY <2>2, <2>3 DEF DetailsInv, PartsTyped
<1> QED
  BY <1>12, <1>13, <1>14, <1>15, <1>16, <1>17 DEF DetailsInv

LEMMA DetailsBegins ==
  ASSUME Details!Init
  PROVE  DetailsInv
<1>1. PartsTyped
  BY DEF Details!Init, PartsTyped, Details!Option
<1>2. ResourcesInv
  BY DEF Details!Init, ResourcesInv, AreOf, ContentsOf, StreamsOf, MetaOf, StreamOf
<1>3. AnswersInv
  BY MarksAssumption
  DEF Details!Init, AnswersInv, WaitFor, RatingWaits, Details!NoFlight, Details!LoadableAssumption
<1>4. Details!DerivedIsCurrent
  BY DEF Details!Init, Details!DerivedIsCurrent, Details!LastUsedStream, Details!LibraryItem
<1>5. RatingInv /\ GuessInv
  BY DEF Details!Init, RatingInv, Details!RatingOfTitle, GuessInv
<1> QED
  BY <1>1, <1>2, <1>3, <1>4, <1>5 DEF DetailsInv

LEMMA DetailsSteps ==
  ASSUME DetailsInv, [Details!Next]_detailsVars
  PROVE  DetailsInv'
<1>1. CASE UNCHANGED detailsVars
  <2>1. PartsTyped' /\ ResourcesInv' /\ RatingInv'
    BY <1>1 DEF detailsVars, DetailsInv, PartsTyped, ResourcesInv, RatingInv, Details!RatingOfTitle
  <2>2. AnswersInv'
    BY <1>1 DEF detailsVars, DetailsInv, AnswersInv, WaitFor, RatingWaits, Details!UnderWay
  <2>3. Details!DerivedIsCurrent' /\ GuessInv'
    BY <1>1 DEF detailsVars, DetailsInv, Details!DerivedIsCurrent, GuessInv, NoneLoads, Details!Proposed
  <2> QED
    BY <2>1, <2>2, <2>3 DEF DetailsInv
<1>2. ASSUME NEW s \in Slots, Details!Answer(s)
      PROVE  DetailsInv'
  BY <1>2, MetaResultSteps, StreamResultSteps, UnseenSteps, RatingResultSteps DEF Details!Answer
<1>3. ASSUME NEW saved \in SUBSET Savable, Details!LibraryChanged(saved)
      PROVE  DetailsInv'
  <2>1. saved \in SUBSET Titles
    BY DetailsAssumption DEF Details!SelectionsAssumption
  <2> QED
    BY <1>3, <2>1, LibraryChangedSteps
<1>4. CASE Details!Next
  BY <1>2, <1>3, <1>4, LoadSteps, DetailsProfileSteps, DetailsUnloadSteps, MarkSteps, RateSteps DEF Details!Next
<1> QED
  BY <1>1, <1>4

LEMMA DetailsShow ==
  ASSUME DetailsInv
  PROVE  /\ Details!TypeOK /\ Details!StreamsOfVideo /\ Details!GuessIsOfFirst
         /\ Details!DetailsAreAnswered
<1>1. Details!StreamsOfVideo
  <2>1. CASE selected = None
    BY <2>1 DEF DetailsInv, ResourcesInv, Details!StreamsOfVideo
  <2>2. CASE selected # None
    <3>1. AreOf(streams, Details!StreamRequests(selected, addons))
      BY <2>2 DEF DetailsInv, ResourcesInv, StreamOf
    <3>2. [i \in DOMAIN streams |-> streams[i].request] =
            [i \in DOMAIN Details!StreamRequests(selected, addons) |-> Details!StreamRequests(selected, addons)[i]]
      BY <3>1 DEF AreOf
    <3>3. Details!StreamRequests(selected, addons) =
            [i \in DOMAIN Details!StreamRequests(selected, addons) |-> Details!StreamRequests(selected, addons)[i]]
      BY DEF Details!StreamRequests
    <3> QED
      BY <2>2, <3>2, <3>3 DEF Details!StreamsOfVideo
  <2> QED
    BY <2>1, <2>2
<1>2. Details!GuessIsOfFirst
  BY NoneLoadsIs DEF DetailsInv, GuessInv, Details!GuessIsOfFirst
<1>3. Details!DetailsAreAnswered
  BY DEF DetailsInv, AnswersInv, WaitFor, RatingWaits, Details!DetailsAreAnswered, Details!LoadingOf, Details!Range
<1>4. Details!TypeOK
  <2>1. \A r \in Details!Range(meta_items) : r.content \in Details!Loadable(Contents[r.request.of])
    BY DEF DetailsInv, ResourcesInv, ContentsOf, Details!Range
  <2>2. \A r \in Details!Range(streams) :
          r.request.of \in Details!Videos /\ r.content \in Details!Loadable({"streams"})
    <3>1. \A i \in DOMAIN streams : streams[i].request.of \in Details!Videos
      <4>1. CASE selected = None
        BY <4>1 DEF DetailsInv, ResourcesInv
      <4>2. CASE selected # None
        <5>1. selected \in Details!Selection /\ addons \in Collections
          BY <4>2 DEF DetailsInv, PartsTyped, Details!Option
        <5> QED
          BY <4>2, <5>1, RequestsAre DEF DetailsInv, ResourcesInv, AreOf, StreamOf
      <4> QED
        BY <4>1, <4>2
    <3> QED
      BY <3>1 DEF DetailsInv, ResourcesInv, StreamsOf, Details!Range
  <2> QED
    BY <2>1, <2>2 DEF DetailsInv, PartsTyped, AnswersInv, Details!TypeOK
<1> QED
  BY <1>1, <1>2, <1>3, <1>4
-----------------------------------------------------------------------------
(* Sets in order *)

Orders(R, S) ==
  /\ \A a \in S : <<a, a>> \notin R
  /\ \A a, b, c \in S : <<a, b>> \in R /\ <<b, c>> \in R => <<a, c>> \in R
  /\ \A a, b \in S : a # b => <<a, b>> \in R \/ <<b, a>> \in R

\* In a finite set with an order each number of elements is before one of them.
LEMMA PlacesAreTaken ==
  ASSUME NEW S, IsFiniteSet(S), NEW R, Orders(R, S)
  PROVE  /\ Cardinality(S) \in Nat
         /\ \A n \in 1 .. Cardinality(S) : \E e \in S : Cardinality({d \in S : <<d, e>> \in R}) = n - 1
<1> DEFINE Before(e) == {d \in S : <<d, e>> \in R}
           place == [e \in S |-> Cardinality(Before(e)) + 1]
           n == Cardinality(S)
<1>1. n \in Nat
  BY FS_CardinalityType
<1>2. ASSUME NEW e \in S
      PROVE  Cardinality(Before(e)) \in Int /\ Cardinality(Before(e)) \in 0 .. n - 1 /\ IsFiniteSet(Before(e))
  <2>1. IsFiniteSet(S \ {e}) /\ Cardinality(S \ {e}) = n - 1
    BY FS_RemoveElement
  <2>2. Before(e) \in SUBSET (S \ {e})
    BY DEF Orders
  <2>3. IsFiniteSet(Before(e)) /\ Cardinality(Before(e)) <= n - 1
    BY <2>1, <2>2, FS_Subset
  <2>4. Cardinality(Before(e)) \in Nat
    BY <2>3, FS_CardinalityType
  <2> QED
    BY <1>1, <2>3, <2>4
<1>3. ASSUME NEW a \in S, NEW b \in S, <<a, b>> \in R
      PROVE  place[a] # place[b]
  <2>1. Before(a) \in SUBSET Before(b) /\ a \in Before(b) /\ a \notin Before(a)
    BY <1>3 DEF Orders
  <2>2. Cardinality(Before(a)) # Cardinality(Before(b))
    BY <1>2, <2>1, FS_Subset
  <2>3. place[a] = Cardinality(Before(a)) + 1 /\ place[b] = Cardinality(Before(b)) + 1
    OBVIOUS
  <2>4. Cardinality(Before(a)) \in Int /\ Cardinality(Before(b)) \in Int
    BY <1>2
  <2> HIDE DEF place, Before
  <2> QED
    BY <2>2, <2>3, <2>4
<1>4. place \in Injection(S, 1 .. n)
  <2>1. place \in [S -> 1 .. n]
    <3> HIDE DEF n, Before
    <3>1. \A e \in S : Cardinality(Before(e)) + 1 \in 1 .. n
      BY <1>1, <1>2
    <3> QED
      BY <3>1
  <2>2. \A a, b \in S : place[a] = place[b] => a = b
    <3> HIDE DEF place
    <3> QED
      BY <1>3 DEF Orders
  <2> QED
    BY <2>1, <2>2 DEF Injection, IsInjective
<1>5. IsFiniteSet(1 .. n) /\ Cardinality(1 .. n) = n
  BY <1>1, FS_Interval
<1>6. place \in Surjection(S, 1 .. n)
  BY <1>4, <1>5, FS_Injection
<1>7. ASSUME NEW k \in 1 .. n
      PROVE  \E e \in S : Cardinality(Before(e)) = k - 1
  <2>1. PICK e \in S : place[e] = k
    <3> HIDE DEF place, n
    <3> QED
      BY <1>6 DEF Surjection
  <2>2. Cardinality(Before(e)) + 1 = k
    BY <2>1
  <2>3. Cardinality(Before(e)) \in Int
    BY <1>2
  <2> HIDE DEF Before, place
  <2> QED
    BY <2>2, <2>3
<1> QED
  BY <1>1, <1>7

\* Of two different lists of numbers of one length, one is earlier.
LEMMA EarlierOrders ==
  ASSUME NEW n \in Nat, NEW p \in [1 .. n -> Int], NEW q \in [1 .. n -> Int], NEW r \in [1 .. n -> Int]
  PROVE  /\ ~Library!Earlier(p, p)
         /\ Library!Earlier(p, q) /\ Library!Earlier(q, r) => Library!Earlier(p, r)
         /\ p # q => Library!Earlier(p, q) \/ Library!Earlier(q, p)
<1>1. ~Library!Earlier(p, p)
  BY DEF Library!Earlier
<1>2. ASSUME Library!Earlier(p, q), Library!Earlier(q, r)
      PROVE  Library!Earlier(p, r)
  <2>1. PICK i \in 1 .. n : p[i] < q[i] /\ \A m \in 1 .. i - 1 : p[m] = q[m]
    BY <1>2 DEF Library!Earlier
  <2>2. PICK j \in 1 .. n : q[j] < r[j] /\ \A m \in 1 .. j - 1 : q[m] = r[m]
    BY <1>2 DEF Library!Earlier
  <2> DEFINE k == IF i < j THEN i ELSE j
  <2>3. k \in 1 .. n /\ k <= i /\ k <= j
    OBVIOUS
  <2>4. p[k] < r[k]
    BY <2>1, <2>2
  <2>5. \A m \in 1 .. k - 1 : p[m] = r[m]
    BY <2>1, <2>2, <2>3
  <2> QED
    BY <2>3, <2>4, <2>5 DEF Library!Earlier
<1>3. ASSUME p # q
      PROVE  Library!Earlier(p, q) \/ Library!Earlier(q, p)
  <2> DEFINE Differ == {i \in 1 .. n : p[i] # q[i]}
  <2>0. Differ \subseteq Nat
    OBVIOUS
  <2>1. Differ # {} /\ Differ \subseteq Nat
    <3>1. ASSUME Differ = {} PROVE FALSE
      <4>1. p = [i \in 1 .. n |-> p[i]] /\ q = [i \in 1 .. n |-> q[i]]
        OBVIOUS
      <4>2. \A i \in 1 .. n : p[i] = q[i]
        BY <3>1
      <4> QED
        BY <1>3, <4>1, <4>2
    <3> QED
      BY <2>0, <3>1
  <2>2. PICK i \in Differ : \A m \in Differ : i <= m
    BY <2>1, LeastOf
  <2>3. i \in 1 .. n /\ p[i] # q[i] /\ \A m \in 1 .. i - 1 : p[m] = q[m]
    BY <2>2
  <2>4. p[i] < q[i] \/ q[i] < p[i]
    BY <2>3
  <2> QED
    BY <2>3, <2>4 DEF Library!Earlier
<1> QED
  BY <1>1, <1>2, <1>3
-----------------------------------------------------------------------------
(* The rows of the library *)

OfLibrary(list) == \A id \in Library!Id : list[id] \in Versions[id] \cup {None}

\* What holds of the place of an element in a list without one twice.
LEMMA PlacesOf ==
  ASSUME NEW S, NEW list \in Seq(S), \A i, j \in DOMAIN list : list[i] = list[j] => i = j
  PROVE  LET T == {list[i] : i \in DOMAIN list}
             at(e) == CHOOSE i \in DOMAIN list : list[i] = e
         IN /\ IsFiniteSet(T)
            /\ \A e \in T : at(e) \in 1 .. Len(list) /\ list[at(e)] = e
<1> DEFINE T == {list[i] : i \in DOMAIN list}
           at(e) == CHOOSE i \in DOMAIN list : list[i] = e
<1>1. Len(list) \in Nat /\ DOMAIN list = 1 .. Len(list)
  OBVIOUS
<1>2. IsFiniteSet(1 .. Len(list))
  BY <1>1, FS_Interval
<1>3. [i \in 1 .. Len(list) |-> list[i]] \in Surjection(1 .. Len(list), T)
  BY <1>1 DEF Surjection
<1>4. IsFiniteSet(T)
  BY <1>2, <1>3, FS_Surjection
<1>5. \A e \in T : at(e) \in DOMAIN list /\ list[at(e)] = e
  OBVIOUS
<1> QED
  BY <1>1, <1>4, <1>5

LEMMA IdsAreFinite ==
  /\ IsFiniteSet(Library!Id)
  /\ \A id \in Library!Id : Library!Position(id) \in Int /\ Ids[Library!Position(id)] = id
<1>1. /\ Ids \in Seq(Library!Id) /\ \A i, j \in DOMAIN Ids : Ids[i] = Ids[j] => i = j
      /\ Library!Id = {Ids[i] : i \in DOMAIN Ids}
  BY LibraryAssumption DEF Library!ItemsAssumption, Library!IsInjective, Library!Id, Library!ToSet
<1> QED
  BY <1>1, PlacesOf DEF Library!Position

\* The key of an item is a list of numbers, as long for each, and of one item only.
LEMMA KeysDiffer ==
  ASSUME NEW by \in Sorts
  PROVE  \E n \in Nat : \A list : OfLibrary(list) =>
           \A a \in Library!InLibrary(list) :
             /\ Library!SortKey(by, a, list[a]) \in [1 .. n -> Int]
             /\ \A b \in Library!InLibrary(list) :
                  Library!SortKey(by, a, list[a]) = Library!SortKey(by, b, list[b]) => a = b
<1> DEFINE Numbered(list, a) ==
             /\ list[a].last_watched \in Int /\ list[a].times_watched \in Int /\ list[a].ctime \in Int
             /\ a \in Library!Id /\ Library!Position(a) \in Int /\ Ids[Library!Position(a)] = a
<1>1. ASSUME NEW list, OfLibrary(list), NEW a \in Library!InLibrary(list)
      PROVE  Numbered(list, a)
  BY <1>1, IdsAreFinite, LibraryAssumption DEF OfLibrary, Library!InLibrary, Library!ItemsAssumption
<1> DEFINE Keyed(n) == \A list : OfLibrary(list) =>
             \A a \in Library!InLibrary(list) :
               /\ Library!SortKey(by, a, list[a]) \in [1 .. n -> Int]
               /\ \A b \in Library!InLibrary(list) :
                    Library!SortKey(by, a, list[a]) = Library!SortKey(by, b, list[b]) => a = b
<1>2. CASE by = "LastWatched"
  <2>1. Keyed(2)
    BY <1>1, <1>2 DEF Library!SortKey
  <2> QED
    BY <2>1
<1>3. CASE by = "TimesWatched"
  <2>1. Keyed(2)
    BY <1>1, <1>3 DEF Library!SortKey
  <2> QED
    BY <2>1
<1>4. CASE by = "Watched"
  <2>1. Keyed(4)
    BY <1>1, <1>4 DEF Library!SortKey
  <2> QED
    BY <2>1
<1>5. CASE by = "NotWatched"
  <2>1. Keyed(4)
    BY <1>1, <1>5 DEF Library!SortKey
  <2> QED
    BY <2>1
<1>6. CASE by = "Name"
  <2>1. Keyed(1)
    BY <1>1, <1>6 DEF Library!SortKey
  <2> QED
    BY <2>1
<1>7. CASE by = "NameReverse"
  <2>1. Keyed(1)
    BY <1>1, <1>7 DEF Library!SortKey
  <2> QED
    BY <2>1
<1> QED
  BY <1>2, <1>3, <1>4, <1>5, <1>6, <1>7, LibraryAssumption DEF Library!SortsAssumption

\* A sorted list of items has as many as there are, and only of these.
LEMMA CardinalityIs == \A S : Library!Cardinality(S) = Cardinality(S)
BY DEF Library!Cardinality, Cardinality

LEMMA SortedIs ==
  ASSUME NEW by \in Sorts, NEW list, OfLibrary(list), NEW ids, ids \subseteq Library!InLibrary(list)
  PROVE  LET s == Library!Sorted(by, list, ids) IN
         /\ Cardinality(ids) \in Nat /\ (ids # {} => Cardinality(ids) # 0)
         /\ Sequence(s) /\ Len(s) = Cardinality(ids)
         /\ \A i \in 1 .. Len(s) : s[i] \in ids
<1> DEFINE keyOf(a) == Library!SortKey(by, a, list[a])
           R == {pair \in ids \X ids : Library!Earlier(keyOf(pair[1]), keyOf(pair[2]))}
           s == Library!Sorted(by, list, ids)
           at(k) == CHOOSE e \in ids : Cardinality({d \in ids : Library!Earlier(keyOf(d), keyOf(e))}) = k - 1
<1>1. IsFiniteSet(ids)
  BY IdsAreFinite, FS_Subset DEF Library!InLibrary
<1>2. PICK n \in Nat : \A a \in ids : keyOf(a) \in [1 .. n -> Int] /\ \A b \in ids : keyOf(a) = keyOf(b) => a = b
  BY KeysDiffer
<1>3. \A a, b \in ids : <<a, b>> \in R <=> Library!Earlier(keyOf(a), keyOf(b))
  OBVIOUS
<1>4. Orders(R, ids)
  <2> HIDE DEF keyOf, R
  <2>1. \A a \in ids : <<a, a>> \notin R
    BY <1>2, <1>3, EarlierOrders
  <2>2. \A a, b, c \in ids : <<a, b>> \in R /\ <<b, c>> \in R => <<a, c>> \in R
    BY <1>2, <1>3, EarlierOrders
  <2>3. \A a, b \in ids : a # b => <<a, b>> \in R \/ <<b, a>> \in R
    BY <1>2, <1>3, EarlierOrders
  <2> QED
    BY <2>1, <2>2, <2>3 DEF Orders
<1>5. /\ Cardinality(ids) \in Nat
      /\ \A k \in 1 .. Cardinality(ids) : \E e \in ids : Cardinality({d \in ids : <<d, e>> \in R}) = k - 1
  <2> HIDE DEF R
  <2> QED
    BY <1>1, <1>4, PlacesAreTaken
<1>6. \A e \in ids : {d \in ids : <<d, e>> \in R} = {d \in ids : Library!Earlier(keyOf(d), keyOf(e))}
  BY <1>3
<1>7. s = [k \in 1 .. Cardinality(ids) |-> at(k)]
  BY CardinalityIs DEF s, Library!Sorted, Library!Ranked
<1>8. \A k \in 1 .. Cardinality(ids) :
        \E e \in ids : Cardinality({d \in ids : Library!Earlier(keyOf(d), keyOf(e))}) = k - 1
  <2> HIDE DEF R, keyOf
  <2> QED
    BY <1>5, <1>6
<1>9. \A k \in 1 .. Cardinality(ids) : at(k) \in ids
  BY <1>8
<1> HIDE DEF s, keyOf, R, at
<1>10. Sequence(s) /\ Len(s) = Cardinality(ids)
  <2>1. s = [k \in 1 .. Cardinality(ids) |-> s[k]]
    BY <1>7
  <2>2. Len(s) = Cardinality(ids)
    BY <1>5, <2>1
  <2> QED
    BY <1>5, <2>1, <2>2 DEF Sequence
<1>11. ids # {} => Cardinality(ids) # 0
  BY <1>1, FS_EmptySet
<1>12. \A k \in 1 .. Cardinality(ids) : s[k] \in ids
  BY <1>7, <1>9
<1> QED
  BY <1>5, <1>10, <1>11, <1>12 DEF s

\* The types in their order are as many as there are, and only these.
LEMMA InOrderIs ==
  ASSUME NEW kinds, kinds \subseteq Library!ToSet(TypeOrder)
  PROVE  LET s == Library!InOrder(kinds) IN Sequence(s) /\ \A i \in 1 .. Len(s) : s[i] \in kinds
<1> DEFINE R == {pair \in kinds \X kinds : Library!Above(pair[1], pair[2])}
           at(k) == CHOOSE e \in kinds : Library!Cardinality({d \in kinds : Library!Above(d, e)}) = k - 1
           s == Library!InOrder(kinds)
<1>1. /\ TypeOrder \in Seq(Library!ToSet(TypeOrder))
      /\ \A i, j \in DOMAIN TypeOrder : TypeOrder[i] = TypeOrder[j] => i = j
      /\ Library!ToSet(TypeOrder) = {TypeOrder[i] : i \in DOMAIN TypeOrder}
  BY LibraryAssumption DEF Library!ItemsAssumption, Library!IsInjective, Library!ToSet
<1>2. IsFiniteSet(kinds)
  BY <1>1, PlacesOf, FS_Subset
<1>3. \A a, b \in kinds : <<a, b>> \in R <=> Library!Above(a, b)
  OBVIOUS
<1>4. Orders(R, kinds)
  <2>0. DOMAIN TypeOrder = 1 .. Len(TypeOrder) /\ Len(TypeOrder) \in Nat
    BY <1>1
  <2> DEFINE place(t) == CHOOSE i \in DOMAIN TypeOrder : TypeOrder[i] = t
  <2>1. \A t \in kinds : place(t) \in Int /\ place(t) \in DOMAIN TypeOrder /\ TypeOrder[place(t)] = t
    BY <1>1, <2>0
  <2>2. \A i \in DOMAIN TypeOrder : TypeOrder[i] \in kinds => place(TypeOrder[i]) = i
    BY <1>1, <2>1
  <2>3. \A a, b \in kinds : <<a, b>> \in R <=> place(a) < place(b)
    <3>1. ASSUME NEW a \in kinds, NEW b \in kinds
          PROVE  Library!Above(a, b) <=> place(a) < place(b)
      <4> HIDE DEF place, R
      <4>1. Library!Above(a, b) => place(a) < place(b)
        BY <2>2 DEF Library!Above
      <4>2. place(a) < place(b) => Library!Above(a, b)
        BY <2>1 DEF Library!Above
      <4> QED
        BY <4>1, <4>2
    <3> HIDE DEF place, R
    <3> QED
      BY <1>3, <3>1
  <2> HIDE DEF place, R
  <2> QED
    BY <2>1, <2>3 DEF Orders
<1>5. /\ Cardinality(kinds) \in Nat
      /\ \A k \in 1 .. Cardinality(kinds) : \E e \in kinds : Cardinality({d \in kinds : <<d, e>> \in R}) = k - 1
  <2> HIDE DEF R, at, s
  <2>1. Cardinality(kinds) \in Nat
    BY <1>2, FS_CardinalityType
  <2>2. ASSUME NEW k \in 1 .. Cardinality(kinds)
        PROVE  \E e \in kinds : Cardinality({d \in kinds : <<d, e>> \in R}) = k - 1
    BY <1>2, <1>4, PlacesAreTaken
  <2> QED
    BY <2>1, <2>2
<1>6. \A e \in kinds : {d \in kinds : <<d, e>> \in R} = {d \in kinds : Library!Above(d, e)}
  BY <1>3
<1>7. s = [k \in 1 .. Cardinality(kinds) |-> at(k)]
  <2>1. s = [k \in 1 .. Library!Cardinality(kinds) |-> at(k)]
    BY DEF s, Library!InOrder, Library!Ranked
  <2>2. Library!Cardinality(kinds) = Cardinality(kinds)
    BY CardinalityIs
  <2> HIDE DEF s, at
  <2> QED
    BY <2>1, <2>2
<1>8. \A k \in 1 .. Cardinality(kinds) :
        \E e \in kinds : Library!Cardinality({d \in kinds : Library!Above(d, e)}) = k - 1
  <2> HIDE DEF R
  <2> QED
    BY <1>5, <1>6, CardinalityIs
<1>9. \A k \in 1 .. Cardinality(kinds) : at(k) \in kinds
  BY <1>8
<1> HIDE DEF s, R, at
<1>10. Sequence(s) /\ Len(s) = Cardinality(kinds)
  <2>1. s = [k \in 1 .. Cardinality(kinds) |-> s[k]]
    BY <1>7
  <2>2. Len(s) = Cardinality(kinds)
    BY <1>5, <2>1
  <2> QED
    BY <1>5, <2>1, <2>2 DEF Sequence
<1> QED
  BY <1>7, <1>9, <1>10 DEF s

\* Fewer pages hold fewer items, and one page more holds PageSize more.
LEMMA PagesGrow ==
  /\ PageSize \in Nat \ {0}
  /\ \A j, k \in Nat : j * PageSize \in Nat /\ (j <= k => j * PageSize <= k * PageSize)
  /\ \A j \in Nat : (j + 1) * PageSize = j * PageSize + PageSize
<1>1. PageSize \in Nat \ {0}
  BY LibraryAssumption DEF Library!PageSizeAssumption
<1>2. \A j \in Nat : j * PageSize \in Nat /\ (j + 1) * PageSize = j * PageSize + PageSize
  BY <1>1
<1>3. ASSUME NEW j \in Nat, NEW k \in Nat, j <= k
      PROVE  j * PageSize <= k * PageSize
  <2>1. (k - j) * PageSize \in Nat
    BY <1>1, <1>3
  <2>2. k * PageSize = j * PageSize + (k - j) * PageSize
    BY <1>1
  <2> QED
    BY <1>2, <2>1, <2>2
<1> QED
  BY <1>1, <1>2, <1>3

\* Items make as many pages as hold them, none of which is empty.
LEMMA PagesHold ==
  ASSUME NEW n \in Nat
  PROVE  LET q == Library!Pages(n) IN
         q \in Nat /\ n <= q * PageSize /\ (n # 0 => q # 0 /\ (q - 1) * PageSize < n)
<1>1. PageSize \in Nat \ {0}
  BY PagesGrow
<1>2. Library!Pages(n) = (n + PageSize - 1) \div PageSize
  BY DEF Library!Pages
<1> DEFINE m == n + PageSize - 1
           q == m \div PageSize
<1>3. m \in Nat /\ q \in Int /\ PageSize * q <= m /\ m < PageSize * (q + 1)
  BY <1>1
<1> QED
  BY <1>1, <1>2, <1>3

\* A row of the first pages of a list, the last of which may be the one after its end.
RowOK(row, s) ==
  /\ Sequence(row) /\ Len(row) # 0
  /\ \A j \in 1 .. Len(row) : row[j] = Library!PageAt(s, j)
  /\ (Len(row) - 1) * PageSize <= Len(s)

\* A part of a list has the items from its place on.
LEMMA PartIs ==
  ASSUME NEW s, Sequence(s), NEW from \in Nat, NEW end \in Nat, from <= end, end <= Len(s)
  PROVE  LET part_of == SubSeq(s, from + 1, end)
         IN /\ Sequence(part_of) /\ Len(part_of) = end - from
            /\ part_of = [i \in 1 .. end - from |-> s[from + i]]
            /\ \A i \in 1 .. end - from : part_of[i] = s[from + i]
<1> DEFINE part_of == SubSeq(s, from + 1, end)
           S == {s[i] : i \in DOMAIN s}
<1>1. s \in Seq(S) /\ Len(s) \in Nat
  BY DEF Sequence
<1> HIDE DEF S
<1>2. part_of \in Seq(S) /\ Len(part_of) = end - from
  BY <1>1
<1>3. \A i \in 1 .. end - from : part_of[i] = s[from + i]
  BY <1>1
<1>4. part_of = [i \in 1 .. Len(part_of) |-> part_of[i]]
  BY <1>2
<1>5. Len(part_of) \in Nat
  BY <1>2
<1> HIDE DEF part_of
<1>6. part_of = [i \in 1 .. end - from |-> s[from + i]]
  BY <1>2, <1>3, <1>4
<1> QED
  BY <1>2, <1>3, <1>4, <1>5, <1>6 DEF Sequence, part_of

\* A page has the items of the list from its place on.
LEMMA PageIs ==
  ASSUME NEW s, Sequence(s), NEW j \in Nat \ {0}, (j - 1) * PageSize <= Len(s)
  PROVE  LET end == IF j * PageSize < Len(s) THEN j * PageSize ELSE Len(s)
             page == Library!PageAt(s, j)
         IN /\ end \in Nat /\ (j - 1) * PageSize \in Nat /\ (j - 1) * PageSize <= end
            /\ page = [i \in 1 .. end - (j - 1) * PageSize |-> s[(j - 1) * PageSize + i]]
            /\ Len(page) = end - (j - 1) * PageSize
<1> DEFINE from == (j - 1) * PageSize
           end == IF j * PageSize < Len(s) THEN j * PageSize ELSE Len(s)
           page == Library!PageAt(s, j)
<1>1. from \in Nat /\ end \in Nat /\ from <= end /\ Len(s) \in Nat /\ end <= Len(s)
  <2>1. j - 1 \in Nat /\ j = (j - 1) + 1 /\ Len(s) \in Nat
    BY DEF Sequence
  <2>2. from \in Nat /\ j * PageSize = from + PageSize
    BY <2>1, PagesGrow
  <2>3. PageSize \in Nat
    BY PagesGrow
  <2> QED
    BY <2>1, <2>2, <2>3
<1>2. page = SubSeq(s, from + 1, end)
  BY DEF Library!PageAt
<1> HIDE DEF from, end, page
<1>3. page = [i \in 1 .. end - from |-> s[from + i]]
  BY <1>1, <1>2, PartIs
<1>4. Len(page) = end - from
  BY <1>1, <1>3
<1> QED
  BY <1>1, <1>3, <1>4 DEF from, end, page

\* All pages of a row but the last are full, and together they have the items before its end.
LEMMA RowHolds ==
  ASSUME NEW s, Sequence(s), NEW row, RowOK(row, s)
  PROVE  LET n == Len(row) IN
         /\ n \in Nat \ {0}
         /\ \A j \in 1 .. n - 1 : Len(row[j]) = PageSize
         /\ \A j \in 1 .. n : Len(row[j]) \in Nat
         /\ n * PageSize < Len(s) => Len(row[n]) = PageSize
         /\ ~(n * PageSize < Len(s)) => Len(row[n]) = Len(s) - (n - 1) * PageSize
<1> DEFINE n == Len(row)
<1>0. n \in Nat \ {0} /\ n - 1 \in Nat /\ Len(s) \in Nat /\ (n - 1) * PageSize <= Len(s)
  BY DEF RowOK, Sequence
<1>1. n \in Nat \ {0} /\ Len(s) \in Nat /\ (n - 1) * PageSize \in Nat /\ (n - 1) * PageSize <= Len(s)
  BY <1>0, PagesGrow
<1>2. ASSUME NEW j \in 1 .. n
      PROVE  /\ (j - 1) * PageSize \in Nat /\ j * PageSize \in Nat
             /\ j * PageSize = (j - 1) * PageSize + PageSize
             /\ (j - 1) * PageSize <= (n - 1) * PageSize
             /\ j < n => j * PageSize <= (n - 1) * PageSize
  <2>1. j \in Nat /\ j - 1 \in Nat /\ n - 1 \in Nat /\ j = (j - 1) + 1
    BY <1>1
  <2>2. j * PageSize = (j - 1) * PageSize + PageSize
    BY <2>1, PagesGrow
  <2>3. (j - 1) * PageSize <= (n - 1) * PageSize
    BY <1>1, <2>1, PagesGrow
  <2>4. j < n => j * PageSize <= (n - 1) * PageSize
    BY <1>1, <2>1, PagesGrow
  <2> QED
    BY <2>1, <2>2, <2>3, <2>4, PagesGrow
<1>3. ASSUME NEW j \in 1 .. n
      PROVE  Len(row[j]) = (IF j * PageSize < Len(s) THEN j * PageSize ELSE Len(s)) - (j - 1) * PageSize
  <2>1. row[j] = Library!PageAt(s, j)
    BY DEF RowOK
  <2>2. j \in Nat \ {0} /\ (j - 1) * PageSize <= Len(s)
    BY <1>1, <1>2
  <2> QED
    BY <2>1, <2>2, PageIs
<1>4. PageSize \in Nat
  BY PagesGrow
<1> HIDE DEF n
<1>5. ASSUME NEW j \in 1 .. n
      PROVE  Len(row[j]) \in Nat /\ (j < n => Len(row[j]) = PageSize)
  <2> DEFINE before == (j - 1) * PageSize
             all == j * PageSize
             most == (n - 1) * PageSize
  <2>1. /\ before \in Nat /\ all \in Nat /\ most \in Nat /\ Len(s) \in Nat
        /\ all = before + PageSize /\ before <= most /\ (j < n => all <= most) /\ most <= Len(s)
    BY <1>1, <1>2
  <2>2. Len(row[j]) = (IF all < Len(s) THEN all ELSE Len(s)) - before
    BY <1>3
  <2> HIDE DEF before, all, most
  <2> QED
    BY <1>4, <2>1, <2>2
<1>6. n \in 1 .. n /\ n * PageSize = (n - 1) * PageSize + PageSize
  BY <1>1, <1>2
<1>7. Len(row[n]) = (IF n * PageSize < Len(s) THEN n * PageSize ELSE Len(s)) - (n - 1) * PageSize
  BY <1>3, <1>6
<1>8. n * PageSize < Len(s) => Len(row[n]) = PageSize
  <2> DEFINE before == (n - 1) * PageSize
             all == n * PageSize
  <2>1. all = before + PageSize /\ before \in Nat
    BY <1>1, <1>6
  <2>2. Len(row[n]) = (IF all < Len(s) THEN all ELSE Len(s)) - before
    BY <1>7
  <2>3. all < Len(s) => Len(row[n]) = PageSize
    <3> HIDE DEF before, all
    <3> QED
      BY <1>4, <2>1, <2>2
  <2> QED
    BY <2>3
<1>9. \A j \in 1 .. n - 1 : Len(row[j]) = PageSize
  BY <1>1, <1>5
<1> QED
  BY <1>1, <1>5, <1>7, <1>8, <1>9 DEF n

\* What a row shows is what comes before its last page, and that.
LEMMA RowItems ==
  ASSUME NEW s, Sequence(s), NEW row, RowOK(row, s)
  PROVE  Library!Items(row) = (Len(row) - 1) * PageSize + Len(row[Len(row)])
<1> DEFINE n == Len(row)
           Sum(f) == [k \in 0 .. n |-> IF k = 0 THEN 0 ELSE f[k - 1] + Len(row[k])]
           ends == [k \in 0 .. n |-> IF k = 0 THEN 0 ELSE (k - 1) * PageSize + Len(row[k])]
           sum == CHOOSE f : f = Sum(f)
<1>0. n \in Nat \ {0} /\ \A k \in 1 .. n : Len(row[k]) \in Nat /\ (k < n => Len(row[k]) = PageSize)
  BY RowHolds
<1> HIDE DEF n
<1>1. \A k \in 1 .. n : ends[k] = ends[k - 1] + Len(row[k])
  <2> TAKE k \in 1 .. n
  <2>1. CASE k = 1
    <3>1. ends[0] = 0 /\ ends[1] = (1 - 1) * PageSize + Len(row[1])
      BY <1>0
    <3>2. (1 - 1) * PageSize = 0 /\ Len(row[1]) \in Nat
      BY <1>0, PagesGrow
    <3> HIDE DEF ends
    <3> QED
      BY <2>1, <3>1, <3>2
  <2>2. CASE k # 1
    <3>1. k - 1 \in 1 .. n /\ k - 1 < n /\ k - 2 \in Nat /\ (k - 2) + 1 = k - 1 /\ (k - 1) - 1 = k - 2
      BY <1>0, <2>2
    <3>2. (k - 1) * PageSize = (k - 2) * PageSize + PageSize
      BY <3>1, PagesGrow
    <3>3. ends[k - 1] = (k - 2) * PageSize + Len(row[k - 1])
      BY <1>0, <3>1
    <3>4. ends[k] = (k - 1) * PageSize + Len(row[k])
      BY <1>0
    <3>5. Len(row[k - 1]) = PageSize
      BY <1>0, <3>1
    <3> QED
      BY <3>2, <3>3, <3>4, <3>5
  <2> QED
    BY <2>1, <2>2
<1>2. ends[0] = 0 /\ DOMAIN ends = 0 .. n
  BY <1>0
<1>3. ends = Sum(ends)
  <2>1. ends = [k \in 0 .. n |-> ends[k]]
    OBVIOUS
  <2>2. \A k \in 0 .. n : ends[k] = IF k = 0 THEN 0 ELSE ends[k - 1] + Len(row[k])
    <3> HIDE DEF ends
    <3> QED
      BY <1>0, <1>1, <1>2
  <2>3. DOMAIN ends = 0 .. n
    BY <1>2
  <2> HIDE DEF ends
  <2> QED
    BY <2>1, <2>2, <2>3
<1>4. sum = Sum(sum)
  <2> HIDE DEF ends
  <2> QED
    BY <1>3
<1> HIDE DEF sum
<1>5. \A k \in 1 .. n : sum[k] = sum[k - 1] + Len(row[k])
  BY <1>0, <1>4
<1>6. sum[0] = 0
  BY <1>0, <1>4
<1>7. \A k \in 0 .. n : sum[k] = ends[k]
  <2> DEFINE Bad == {k \in 0 .. n : sum[k] # ends[k]}
  <2>1. SUFFICES ASSUME Bad # {} PROVE FALSE
    OBVIOUS
  <2>2. Bad \subseteq Nat
    BY <1>0
  <2>3. PICK k \in Bad : \A m \in Bad : k <= m
    BY <2>1, <2>2, LeastOf
  <2> HIDE DEF ends
  <2>4. k \in 1 .. n /\ sum[k] # ends[k]
    BY <1>0, <1>2, <1>6, <2>3
  <2>5. k - 1 \in 0 .. n /\ k - 1 \notin Bad
    BY <1>0, <2>3, <2>4
  <2>6. sum[k - 1] = ends[k - 1]
    BY <2>5
  <2> QED
    BY <1>1, <1>5, <2>4, <2>6
<1>8. Library!Items(row) = sum[n]
  BY DEF Library!Items, sum, n
<1>9. sum[n] = (n - 1) * PageSize + Len(row[n])
  BY <1>0, <1>7
<1> QED
  BY <1>8, <1>9 DEF n

\* The pages of the beginning of a list are the first of the list.
LEMMA ChunksAre ==
  ASSUME NEW s, Sequence(s), Len(s) # 0, NEW k \in Nat \ {0}
  PROVE  RowOK(Library!Chunks(Library!Take(s, k * PageSize)), s)
<1> DEFINE most == k * PageSize
           size == IF most < Len(s) THEN most ELSE Len(s)
           t == Library!Take(s, most)
           q == Library!Pages(size)
           row == Library!Chunks(t)
<1>1. /\ Len(s) \in Nat \ {0} /\ PageSize \in Nat \ {0} /\ most \in Nat \ {0} /\ size \in Nat \ {0}
      /\ size <= most /\ size <= Len(s)
  <2>1. Len(s) \in Nat \ {0}
    BY DEF Sequence
  <2>2. most \in Nat /\ 1 * PageSize <= most /\ PageSize \in Nat \ {0}
    BY PagesGrow
  <2> QED
    BY <2>1, <2>2
<1>2. t = [i \in 1 .. size |-> s[i]] /\ Len(t) = size
  <2>1. t = SubSeq(s, 0 + 1, size)
    BY DEF Library!Take
  <2>2. size - 0 = size /\ \A i \in 1 .. size : 0 + i = i
    BY <1>1
  <2> HIDE DEF size, t
  <2>3. t = [i \in 1 .. size - 0 |-> s[0 + i]] /\ Len(t) = size - 0
    BY <1>1, <2>1, PartIs
  <2> QED
    BY <2>2, <2>3
<1>3. q \in Nat \ {0} /\ size <= q * PageSize /\ (q - 1) * PageSize < size
  BY <1>1, PagesHold
<1>4. row = [j \in 1 .. q |-> Library!PageAt(t, j)]
  <2> HIDE DEF t, size
  <2> QED
    BY <1>2 DEF Library!Chunks
<1> HIDE DEF t, q, row
<1>5. Sequence(row) /\ Len(row) = q
  BY <1>3, <1>4 DEF Sequence
<1>6. q <= k
  <2>1. SUFFICES ASSUME k <= q - 1 PROVE FALSE
    BY <1>3
  <2>2. most <= (q - 1) * PageSize /\ (q - 1) * PageSize \in Nat
    BY <1>3, <2>1, PagesGrow
  <2> QED
    BY <1>1, <1>3, <2>2
<1>7. ASSUME NEW j \in 1 .. q
      PROVE  Library!PageAt(t, j) = Library!PageAt(s, j)
  <2> DEFINE from == (j - 1) * PageSize
             to == j * PageSize
             low == IF to < size THEN to ELSE size
             high == IF to < Len(s) THEN to ELSE Len(s)
  <2>1. j \in Nat \ {0} /\ j - 1 \in Nat /\ j - 1 <= q - 1 /\ q - 1 \in Nat /\ j <= k
    BY <1>3, <1>6
  <2>2. from \in Nat /\ to \in Nat /\ from <= (q - 1) * PageSize /\ to <= most
    BY <2>1, PagesGrow
  <2>3. from <= size /\ from <= Len(s)
    <3>1. (q - 1) * PageSize \in Nat
      BY <2>1, PagesGrow
    <3> HIDE DEF from, size, most
    <3> QED
      BY <1>1, <1>3, <2>2, <3>1
  <2>4. low = high
    <3>1. size = IF most < Len(s) THEN most ELSE Len(s)
      OBVIOUS
    <3> HIDE DEF to, size, most
    <3> QED
      BY <1>1, <2>2, <3>1
  <2>5. low \in Nat /\ low <= size
    BY <1>1, <2>2
  <2>6. Sequence(t)
    BY <1>1, <1>2 DEF Sequence
  <2>7. Library!PageAt(t, j) = [i \in 1 .. low - from |-> t[from + i]]
    <3>1. Len(t) = size /\ (j - 1) * PageSize <= Len(t)
      BY <1>2, <2>3
    <3> DEFINE end == IF j * PageSize < Len(t) THEN j * PageSize ELSE Len(t)
    <3>2. Library!PageAt(t, j) = [i \in 1 .. end - (j - 1) * PageSize |-> t[(j - 1) * PageSize + i]]
      BY <2>1, <2>6, <3>1, PageIs
    <3>3. end = low
      BY <3>1
    <3> HIDE DEF end, low, size
    <3> QED
      BY <3>2, <3>3
  <2>8. Library!PageAt(s, j) = [i \in 1 .. high - from |-> s[from + i]]
    BY <2>1, <2>3, PageIs
  <2>9. \A i \in 1 .. low - from : t[from + i] = s[from + i]
    <3> HIDE DEF from, low, size
    <3> QED
      BY <1>1, <1>2, <2>2, <2>5
  <2> HIDE DEF from, low, high
  <2> QED
    BY <2>4, <2>7, <2>8, <2>9
<1>8. (q - 1) * PageSize <= Len(s)
  <2>1. q - 1 \in Nat /\ (q - 1) * PageSize \in Nat
    BY <1>3, PagesGrow
  <2> HIDE DEF size
  <2> QED
    BY <1>1, <1>3, <2>1
<1>9. \A j \in 1 .. q : row[j] = Library!PageAt(s, j)
  BY <1>4, <1>7
<1>10. RowOK(row, s)
  BY <1>3, <1>5, <1>8, <1>9 DEF RowOK
<1> QED
  BY <1>10 DEF row, t

\* The page after full ones is the next of the list.
LEMMA NextRowPageIs ==
  ASSUME NEW s, Sequence(s), NEW row, RowOK(row, s), Len(row[Len(row)]) = PageSize
  PROVE  LET skip == Library!Items(row)
         IN RowOK(Append(row, Library!Take(SubSeq(s, skip + 1, Len(s)), PageSize)), s)
<1> DEFINE n == Len(row)
           skip == n * PageSize
           rest == SubSeq(s, skip + 1, Len(s))
           left == Len(s) - skip
           end == IF (n + 1) * PageSize < Len(s) THEN (n + 1) * PageSize ELSE Len(s)
           page == Library!Take(rest, PageSize)
<1>1. /\ n \in Nat \ {0} /\ PageSize \in Nat \ {0} /\ Len(s) \in Nat /\ skip \in Nat
      /\ (n + 1) * PageSize = skip + PageSize /\ skip = (n - 1) * PageSize + PageSize
  <2>1. n \in Nat \ {0} /\ n - 1 \in Nat /\ (n - 1) + 1 = n /\ Len(s) \in Nat
    BY DEF RowOK, Sequence
  <2> QED
    BY <2>1, PagesGrow
<1>2. Library!Items(row) = skip
  BY <1>1, RowItems
<1>3. skip <= Len(s)
  <2>1. (n - 1) * PageSize \in Nat
    BY <1>1, PagesGrow
  <2>2. ~(skip < Len(s)) => PageSize = Len(s) - (n - 1) * PageSize
    BY RowHolds
  <2> HIDE DEF skip
  <2> QED
    BY <1>1, <2>1, <2>2
<1> HIDE DEF skip
<1>0. PageSize \in Nat /\ Len(s) \in Nat /\ skip \in Nat /\ skip <= Len(s)
  BY <1>1, <1>3
<1>4. Sequence(rest) /\ Len(rest) = left /\ \A i \in 1 .. left : rest[i] = s[skip + i]
  BY <1>0, PartIs
<1> DEFINE size == IF PageSize < left THEN PageSize ELSE left
<1>5. page = SubSeq(rest, 0 + 1, size)
  <2> HIDE DEF rest, left
  <2> QED
    BY <1>4 DEF Library!Take
<1> HIDE DEF rest, page
<1>6. size \in Nat /\ size <= left /\ left \in Nat
  BY <1>0
<1>7. size = end - skip
  <2> DEFINE more == (n + 1) * PageSize
  <2>1. end = IF more < Len(s) THEN more ELSE Len(s)
    OBVIOUS
  <2>2. more = skip + PageSize
    BY <1>1
  <2>3. size = IF PageSize < Len(s) - skip THEN PageSize ELSE Len(s) - skip
    OBVIOUS
  <2> HIDE DEF more, end, size
  <2> QED
    BY <1>0, <2>1, <2>2, <2>3
<1>8. page = [i \in 1 .. end - skip |-> s[skip + i]]
  <2> HIDE DEF end, size, left
  <2>1. page = [i \in 1 .. size - 0 |-> rest[0 + i]]
    BY <1>4, <1>5, <1>6, PartIs
  <2>2. size - 0 = size /\ \A i \in 1 .. size : 0 + i = i /\ i \in 1 .. left
    BY <1>6
  <2> QED
    BY <1>4, <1>7, <2>1, <2>2
<1>9. page = Library!PageAt(s, n + 1)
  <2>1. n + 1 \in Nat \ {0} /\ (n + 1) - 1 = n /\ n * PageSize <= Len(s)
    BY <1>1, <1>3 DEF skip
  <2> DEFINE before == ((n + 1) - 1) * PageSize
  <2>2. before = skip /\ before <= Len(s)
    BY <2>1 DEF skip
  <2>3. Library!PageAt(s, n + 1) = [i \in 1 .. end - before |-> s[before + i]]
    BY <2>1, <2>2, PageIs
  <2> HIDE DEF before, end
  <2> QED
    BY <1>8, <2>2, <2>3
<1>10. RowOK(Append(row, page), s)
  <2>1. Sequence(row) /\ \A j \in 1 .. n : row[j] = Library!PageAt(s, j)
    BY DEF RowOK
  <2>2. /\ Sequence(Append(row, page)) /\ Len(Append(row, page)) = n + 1
        /\ \A j \in 1 .. n : Append(row, page)[j] = row[j]
        /\ Append(row, page)[n + 1] = page
    BY <2>1, AppendIs
  <2>3. \A j \in 1 .. n + 1 : Append(row, page)[j] = Library!PageAt(s, j)
    BY <1>1, <1>9, <2>1, <2>2
  <2>4. ((n + 1) - 1) * PageSize <= Len(s)
    BY <1>1, <1>3 DEF skip
  <2> QED
    BY <1>1, <2>2, <2>3, <2>4 DEF RowOK
<1> QED
  BY <1>2, <1>10 DEF page, rest

\* Items are theirs, and there is a row of pages for each type in the library.
RowsInv ==
  /\ OfLibrary(items) /\ sort \in Sorts \cup {None}
  /\ LET types == IF sort = None THEN <<>> ELSE Library!InOrder(Library!TypesOf("library", items, <<>>))
     IN /\ Sequence(rows) /\ Len(rows) = Len(types)
        /\ \A i \in 1 .. Len(rows) :
             /\ Library!OfType(items, types[i]) # {}
             /\ RowOK(rows[i], Library!Sorted(sort, items, Library!OfType(items, types[i])))

\* Of each type in order there are items.
LEMMA TypesAre ==
  ASSUME NEW list, OfLibrary(list)
  PROVE  LET types == Library!InOrder(Library!TypesOf("library", list, <<>>))
         IN Sequence(types) /\ \A i \in 1 .. Len(types) : Library!OfType(list, types[i]) # {}
<1> DEFINE all == Library!TypesOf("library", list, <<>>)
<1>1. \A t \in all : Library!OfType(list, t) # {}
  BY DEF Library!TypesOf, Library!OfType
<1>2. all \subseteq Library!ToSet(TypeOrder)
  BY LibraryAssumption DEF Library!TypesOf, Library!InLibrary, OfLibrary, Library!ItemsAssumption
<1> HIDE DEF all
<1>3. LET types == Library!InOrder(all) IN Sequence(types) /\ \A i \in 1 .. Len(types) : types[i] \in all
  BY <1>2, InOrderIs
<1> QED
  BY <1>1, <1>3 DEF all

\* The items of a type, sorted.
LEMMA OfTypeSorted ==
  ASSUME NEW by \in Sorts, NEW list, OfLibrary(list), NEW t, Library!OfType(list, t) # {}
  PROVE  LET ids == Library!OfType(list, t)
             s == Library!Sorted(by, list, ids)
         IN /\ Sequence(s) /\ Len(s) = Library!Cardinality(ids) /\ Len(s) # 0
            /\ \A i \in 1 .. Len(s) : list[s[i]].type = t
<1> DEFINE ids == Library!OfType(list, t)
<1>1. ids \subseteq Library!InLibrary(list) /\ \A id \in ids : list[id].type = t
  BY DEF Library!OfType
<1>2. Library!Cardinality(ids) = Cardinality(ids)
  BY CardinalityIs
<1> HIDE DEF ids
<1> QED
  BY <1>1, <1>2, SortedIs DEF ids

\* The rows are made anew with the pages that are shown.
LEMMA RowsAgain ==
  ASSUME RowsInv, NEW by \in Sorts, NEW list, OfLibrary(list), sort' = by, items' = list,
         rows' = Library!Rows(rows, by, items, list)
  PROVE  RowsInv'
<1> DEFINE types == Library!InOrder(Library!TypesOf("library", list, <<>>))
           of(t) == Library!Sorted(by, list, Library!OfType(list, t))
           shown(t) == Library!ShownOf(rows, items, t)
           pages_of(t) == IF shown(t) = 0 THEN 1 ELSE Library!Pages(shown(t))
           row(t) == Library!Chunks(Library!Take(of(t), pages_of(t) * PageSize))
<1>1. Sequence(types) /\ \A i \in 1 .. Len(types) : Library!OfType(list, types[i]) # {}
  BY TypesAre
<1>2. \A i \in DOMAIN rows : Library!Items(rows[i]) \in Nat
  <2> TAKE i \in DOMAIN rows
  <2>0. DOMAIN rows = 1 .. Len(rows)
    BY DEF RowsInv, Sequence
  <2>1. sort \in Sorts
    <3>1. CASE sort = None
      <4>1. rows = <<>>
        BY <3>1 DEF RowsInv, Sequence
      <4> QED
        BY <4>1
    <3> QED
      BY <3>1 DEF RowsInv
  <2>2. PICK s : Sequence(s) /\ RowOK(rows[i], s)
    <3> DEFINE t == Library!InOrder(Library!TypesOf("library", items, <<>>))[i]
    <3>1. sort # None
      BY <2>1, LibraryAssumption DEF Library!SortsAssumption
    <3>2. /\ Library!OfType(items, t) # {} /\ OfLibrary(items)
          /\ RowOK(rows[i], Library!Sorted(sort, items, Library!OfType(items, t)))
      BY <2>0, <3>1 DEF RowsInv
    <3> QED
      BY <2>1, <3>2, OfTypeSorted
  <2>3. Len(rows[i]) \in Nat \ {0} /\ Len(rows[i][Len(rows[i])]) \in Nat
    BY <2>2, RowHolds
  <2>4. (Len(rows[i]) - 1) * PageSize \in Nat
    BY <2>3, PagesGrow
  <2> QED
    BY <2>2, <2>3, <2>4, RowItems
<1>3. \A t : shown(t) \in Nat
  BY <1>2 DEF Library!ShownOf
<1>4. \A t : pages_of(t) \in Nat \ {0}
  <2> HIDE DEF shown
  <2> QED
    BY <1>3, PagesHold
<1>5. rows' = [i \in DOMAIN types |-> row(types[i])]
  BY DEF Library!Rows
<1>6. DOMAIN types = 1 .. Len(types) /\ Len(types) \in Nat
  BY <1>1 DEF Sequence
<1>7. \A i \in 1 .. Len(types) : RowOK(row(types[i]), of(types[i]))
  <2> TAKE i \in 1 .. Len(types)
  <2>1. Sequence(of(types[i])) /\ Len(of(types[i])) # 0
    BY <1>1, OfTypeSorted
  <2> HIDE DEF of, pages_of
  <2> QED
    BY <1>4, <2>1, ChunksAre
<1> HIDE DEF row, of
<1>8. Sequence(rows') /\ Len(rows') = Len(types) /\ \A i \in 1 .. Len(types) : rows'[i] = row(types[i])
  <2> HIDE DEF types
  <2> QED
    BY <1>5, <1>6 DEF Sequence
<1>9. by # None
  BY LibraryAssumption DEF Library!SortsAssumption
<1> QED
  BY <1>1, <1>7, <1>8, <1>9 DEF RowsInv, of

LEMMA RowsStay ==
  ASSUME RowsInv, UNCHANGED <<items, sort, rows>>
  PROVE  RowsInv'
BY DEF RowsInv

LEMMA RowsBegin ==
  ASSUME Library!Init
  PROVE  RowsInv
BY DEF Library!Init, RowsInv, OfLibrary, Library!Empty, Sequence

\* The library changed, and the rows with it.
LEMMA RowsChanged ==
  ASSUME RowsInv, Library!LibraryChanged, OfLibrary(items')
  PROVE  RowsInv'
<1>1. CASE sort = None
  <2>1. sort' = None /\ rows' = <<>>
    BY <1>1 DEF Library!LibraryChanged
  <2> QED
    BY <2>1 DEF RowsInv, Sequence
<1>2. CASE sort # None
  <2>1. sort \in Sorts
    BY <1>2 DEF RowsInv
  <2>2. sort' = sort /\ rows' = Library!Rows(rows, sort, items, items')
    BY <1>2 DEF Library!LibraryChanged
  <2> QED
    BY <2>1, <2>2, RowsAgain
<1> QED
  BY <1>1, <1>2

LEMMA NextRowPageSteps ==
  ASSUME RowsInv, NEW index \in DOMAIN rows, Library!NextRowPage(index)
  PROVE  RowsInv'
<1> DEFINE t == Library!InOrder(Library!TypesOf("library", items, <<>>))[index]
           ids == Library!OfType(items, t)
           s == Library!Sorted(sort, items, ids)
           row == rows[index]
<1>1. DOMAIN rows = 1 .. Len(rows) /\ index \in 1 .. Len(rows) /\ Len(rows) \in Nat
  BY DEF RowsInv, Sequence
<1>2. sort \in Sorts /\ sort # None
  <2>1. CASE sort = None
    <3>1. Len(rows) = 0
      BY <2>1 DEF RowsInv
    <3> QED
      BY <1>1, <3>1
  <2> QED
    BY <2>1 DEF RowsInv
<1>3. OfLibrary(items) /\ ids # {} /\ RowOK(row, s)
  BY <1>1, <1>2 DEF RowsInv
<1>4. Sequence(s) /\ Len(s) = Library!Cardinality(ids) /\ Len(s) # 0 /\ \A i \in 1 .. Len(s) : items[s[i]].type = t
  BY <1>2, <1>3, OfTypeSorted
<1> HIDE DEF t, s, row
<1>5. items[row[1][1]].type = t
  <2>1. row[1] = Library!PageAt(s, 1) /\ Len(s) \in Nat
    BY <1>3, <1>4 DEF RowOK, Sequence
  <2>2. (1 - 1) * PageSize = 0 /\ 1 * PageSize \in Nat \ {0} /\ PageSize \in Nat \ {0}
    BY PagesGrow
  <2> DEFINE end == IF 1 * PageSize < Len(s) THEN 1 * PageSize ELSE Len(s)
             before == (1 - 1) * PageSize
  <2>3. before = 0 /\ before <= Len(s)
    BY <2>1, <2>2
  <2>4. Library!PageAt(s, 1) = [i \in 1 .. end - before |-> s[before + i]]
    BY <1>4, <2>3, PageIs
  <2>5. end \in Nat \ {0}
    BY <1>4, <2>1, <2>2
  <2> HIDE DEF end, before
  <2>6. row[1][1] = s[1]
    BY <2>1, <2>3, <2>4, <2>5
  <2> QED
    BY <1>4, <2>1, <2>6
<1>6. Len(row[Len(row)]) = PageSize
  BY DEF Library!NextRowPage, Library!Last, row
<1> DEFINE next == Append(row, Library!Take(SubSeq(s, Library!Items(row) + 1, Len(s)), PageSize))
<1>7. RowOK(next, s)
  BY <1>3, <1>4, <1>6, NextRowPageIs
<1>8. rows' = [rows EXCEPT ![index] = next]
  <2>1. Library!OfType(items, items[row[1][1]].type) = ids
    BY <1>5
  <2> HIDE DEF ids
  <2>2. rows' = [rows EXCEPT ![index] =
                   Append(@, Library!Take(SubSeq(Library!Sorted(sort, items, ids), Library!Items(row) + 1,
                                                 Library!Cardinality(ids)), PageSize))]
    BY <2>1 DEF Library!NextRowPage, row
  <2> QED
    BY <1>4, <2>2 DEF s, row
<1> HIDE DEF next
<1>9. UNCHANGED <<items, sort>>
  BY DEF Library!NextRowPage, Library!ctx
<1>10. Sequence(rows') /\ Len(rows') = Len(rows)
  <2>1. rows' = [i \in 1 .. Len(rows) |-> rows'[i]]
    BY <1>1, <1>8
  <2>2. Len(rows') = Len(rows)
    BY <1>1, <2>1
  <2> QED
    BY <1>1, <2>1, <2>2 DEF Sequence
<1>11. \A i \in 1 .. Len(rows) : rows'[i] = IF i = index THEN next ELSE rows[i]
  BY <1>1, <1>8
<1> QED
  BY <1>1, <1>2, <1>3, <1>7, <1>9, <1>10, <1>11 DEF RowsInv, s, t

LEMMA RowsStep ==
  ASSUME RowsInv, [Library!Next]_libraryVars
  PROVE  RowsInv'
<1>1. ASSUME NEW id \in Library!Id, NEW item \in Versions[id], Library!UpdateLibraryItem(id, item)
      PROVE  RowsInv'
  <2>1. OfLibrary(items')
    BY <1>1 DEF Library!UpdateLibraryItem, OfLibrary, RowsInv
  <2> QED
    BY <1>1, <2>1, RowsChanged DEF Library!UpdateLibraryItem
<1>2. ASSUME NEW list, \A id \in Library!Id : list[id] \in Versions[id] \cup {None}, Library!Replaced(list)
      PROVE  RowsInv'
  BY <1>2, RowsChanged DEF Library!Replaced, OfLibrary
<1>3. ASSUME NEW by \in Sorts, Library!LoadByType(by)
      PROVE  RowsInv'
  BY <1>3, RowsAgain DEF Library!LoadByType, Library!ctx, RowsInv
<1>4. CASE Library!UnloadByType
  BY <1>4 DEF Library!UnloadByType, Library!ctx, RowsInv, Sequence
<1>5. ASSUME NEW index \in DOMAIN rows, Library!NextRowPage(index)
      PROVE  RowsInv'
  BY <1>5, NextRowPageSteps
<1>6. CASE \/ \E notified \in Library!NotificationItems :
                Library!ResourceRequestResult(notified) \/ Library!PullNotifications(notified)
           \/ \E screen \in Library!Screens : \E request \in Library!Requests \cup {None} : Library!LoadScreen(screen, request)
           \/ \E screen \in Library!Screens : Library!NextScreenPage(screen)
           \/ \E t \in Chosen \cup {"none"} : Library!LoadInstalled(t)
           \/ \E collection \in AddonTypes \ {installs} : Library!ProfileChanged(collection)
           \/ UNCHANGED libraryVars
  <2>1. UNCHANGED <<items, sort, rows>>
    BY <1>6
    DEF Library!ResourceRequestResult, Library!PullNotifications, Library!NextScreenPage, Library!LoadScreen, Library!LoadInstalled, Library!ProfileChanged,
        Library!byType, Library!ctx, libraryVars
  <2> QED
    BY <2>1, RowsStay
<1>7. ASSUME NEW id \in Library!Id, NEW item \in Versions[id], Library!DismissNotificationItem(id, item)
      PROVE  RowsInv'
  <2>1. OfLibrary(items')
    BY <1>7 DEF Library!DismissNotificationItem, OfLibrary, RowsInv
  <2> QED
    BY <1>7, <2>1, RowsChanged DEF Library!DismissNotificationItem
<1> QED
  BY <1>1, <1>2, <1>3, <1>4, <1>5, <1>6, <1>7 DEF Library!Next

LEMMA RowsFollow ==
  ASSUME RowsInv
  PROVE  Library!RowsArePaged
<1> DEFINE types == IF sort = None THEN <<>> ELSE Library!InOrder(Library!TypesOf("library", items, <<>>))
           sorted(i) == Library!Sorted(sort, items, Library!OfType(items, types[i]))
<1>1. Len(rows) = Len(types) /\ DOMAIN rows = 1 .. Len(rows) /\ Len(rows) \in Nat
  BY DEF RowsInv, Sequence
<1>2. ASSUME NEW i \in DOMAIN rows
      PROVE  /\ rows[i] # <<>> /\ rows[i][1] # <<>>
             /\ \A j \in DOMAIN rows[i] : rows[i][j] = Library!PageAt(sorted(i), j)
             /\ \A j \in 1 .. Len(rows[i]) - 1 : Len(rows[i][j]) = PageSize
  <2>1. sort \in Sorts
    <3>1. CASE sort = None
      <4>1. Len(rows) = 0
        BY <3>1 DEF RowsInv
      <4> QED
        BY <1>1, <4>1
    <3> QED
      BY <3>1 DEF RowsInv
  <2>2. OfLibrary(items) /\ Library!OfType(items, types[i]) # {} /\ RowOK(rows[i], sorted(i))
    BY <1>1 DEF RowsInv
  <2>3. Sequence(sorted(i)) /\ Len(sorted(i)) # 0
    <3> HIDE DEF types
    <3> QED
      BY <2>1, <2>2, OfTypeSorted
  <2> HIDE DEF sorted
  <2>4. /\ Len(rows[i]) \in Nat \ {0} /\ DOMAIN rows[i] = 1 .. Len(rows[i])
        /\ \A j \in DOMAIN rows[i] : rows[i][j] = Library!PageAt(sorted(i), j)
        /\ \A j \in 1 .. Len(rows[i]) - 1 : Len(rows[i][j]) = PageSize
    BY <2>2, <2>3, RowHolds DEF RowOK, Sequence
  <2>5. Len(rows[i][1]) # 0
    <3>1. CASE Len(rows[i]) = 1
      <4>1. (1 - 1) * PageSize = 0 /\ PageSize # 0 /\ Len(sorted(i)) \in Nat
        BY <2>3, PagesGrow DEF Sequence
      <4>2. Len(rows[i][1]) = PageSize \/ Len(rows[i][1]) = Len(sorted(i)) - (1 - 1) * PageSize
        BY <2>2, <2>3, <3>1, RowHolds
      <4> QED
        BY <2>3, <4>1, <4>2
    <3>2. CASE Len(rows[i]) # 1
      <4>1. PageSize # 0 /\ 1 \in 1 .. Len(rows[i]) - 1
        BY <2>4, <3>2, PagesGrow
      <4> QED
        BY <2>4, <4>1
    <3> QED
      BY <3>1, <3>2
  <2> QED
    BY <2>4, <2>5
<1> QED
  BY <1>1, <1>2 DEF Library!RowsArePaged
-----------------------------------------------------------------------------
(* All of them *)

Inv ==
  /\ part \in Parts
  /\ part = "details" => DetailsInv
  /\ part = "catalogs" => CatalogInv
  /\ part = "library" => LibraryInv /\ RowsInv
  /\ part = "calendar" => MonthInv
  /\ part = "search" => SearchInv
  /\ part = "server" => ServerInv

LEMMA ScreensBegin == Init => Inv
BY DetailsBegins, CatalogBegins, LibraryBegins, RowsBegin, MonthBegins, SearchBegins, ServerBegins DEF Init, Inv

LEMMA ScreensStep == Inv /\ [Next]_modelVars => Inv'
<1> SUFFICES ASSUME Inv, [Next]_modelVars PROVE Inv'
  OBVIOUS
<1>1. /\ part' = part
      /\ part = "details" => [Details!Next]_detailsVars
      /\ part = "catalogs" => [Catalog!Next]_catalogVars
      /\ part = "library" => [Library!Next]_libraryVars
      /\ part = "calendar" => [Month!Next]_calendarVars
      /\ part = "search" => [Search!Next]_searchVars
      /\ part = "server" => [Server!Next]_serverVars
  BY DEF Next, modelVars
<1> QED
  BY <1>1, DetailsSteps, CatalogSteps, LibrarySteps, RowsStep, MonthSteps, SearchSteps, ServerSteps DEF Inv

LEMMA ScreensInv == Spec => []Inv
BY ScreensBegin, ScreensStep, PTL DEF Spec
-----------------------------------------------------------------------------
(* What the invariants say of the screens *)

\* Every part keeps its types, the calls of the server's model included, whatever
\* profiles, answers and urls there are.
THEOREM ScreensAreTyped == Spec => []TypeOK
<1>1. Inv => TypeOK
  BY DetailsShow DEF Inv, TypeOK, CatalogInv, BoardInv, ServerInv, ShownTyped, CallsOK, Server!TypeOK
<1> QED
  BY <1>1, ScreensInv, PTL

\* The page of a title has the streams of its video, what follows from other parts as
\* they are now, the rating of the title, and as the video guessed that of the first
\* add-on of the profile that knows it, in whatever order the add-ons answered.
THEOREM DetailsFollowAlways == Spec => []DetailsFollow
<1>1. Inv => DetailsFollow
  BY DetailsShow DEF Inv, DetailsFollow, DetailsInv, RatingInv
<1> QED
  BY <1>1, ScreensInv, PTL

\* The pages of discover, of each row of the board and of each row of the library follow
\* one another, however often the next one is asked for, fails or is late, and however
\* the library changes under them; so does the page that discover offers next.
THEOREM PagesAlwaysFollow == Spec => []PagesFollow
<1>1. Inv => PagesFollow
  BY DiscoverOffersNext, RowsFollow DEF Inv, PagesFollow, CatalogInv, BoardInv, PagesOK, Catalog!BoardPagesFollow
<1> QED
  BY <1>1, ScreensInv, PTL

\* The board is of the add-ons installed, the library's screens of the library, with the
\* notifications as of the last message each handles, the calendar of its month, local
\* search of the last good answer and what the server reports of the url and the torrent
\* chosen, after any late answer or change of Ctx.
THEOREM WhatIsShownIsCurrent == Spec => []ShownIsCurrent
<1>1. Inv => ShownIsCurrent
  BY MonthIsShown DEF Inv, ShownIsCurrent, CatalogInv, BoardInv, LibraryInv, SearchInv, ServerInv
<1> QED
  BY <1>1, ScreensInv, PTL

\* Nothing but the server's statistics stays Loading that no request is under way for:
\* not after a reload, an unload, another profile or an answer to someone else's request.
THEOREM WhatLoadsIsUnderWay ==
  ASSUME RequestsAreNotFree
  PROVE  Spec => []LoadingIsAnswered
<1>1. Inv => LoadingIsAnswered
  BY DetailsShow
  DEF Inv, Parts, LoadingIsAnswered, CatalogInv, FlightInv, MonthInv, SearchInv, ServerInv
<1> QED
  BY <1>1, ScreensInv, PTL
=============================================================================
