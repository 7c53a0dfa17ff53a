-------------------------- MODULE DashboardProofs --------------------------
(***************************************************************************)
(* Proofs about the dashboard, for any users, any number of events and any *)
(* page size: the pages composed with the session are still the pages on   *)
(* their own, so what holds of one of them whatever the others do is       *)
(* proved of its own specification.                                        *)
(***************************************************************************)
EXTENDS Dashboard, TLAPS

-----------------------------------------------------------------------------
(* The composition                                                         *)

LEMMA TurnParts ==
  ASSUME Turns
  PROVE  /\ [MountEvents \/ UnmountEvents]_eventsVars
         /\ [MountSettings \/ UnmountSettings]_settingsPageVars
         /\ [MountMain \/ UnmountMain]_stats
  BY DEF Turns, Turn

\* A step of the dashboard is a step of each component, or leaves it alone.
LEMMA StepParts ==
  ASSUME [Next]_vars
  PROVE  /\ [SessionNext]_sessionVars
         /\ [EventsNext]_eventsVars
         /\ [SettingsPageNext]_settingsPageVars
<1>1. CASE SessionStep
  <2>1. SessionNext /\ Turns  BY <1>1 DEF SessionStep
  <2> QED  BY <2>1, TurnParts DEF EventsNext, SettingsPageNext
<1>2. CASE \E r \in Routes : Navigate(r)
  <2>1. Turns /\ UNCHANGED sessionVars  BY <1>2 DEF Navigate
  <2> QED  BY <2>1, TurnParts DEF EventsNext, SettingsPageNext
<1>3. CASE AnswerStats \/ LoseStats
  BY <1>3 DEF AnswerStats, LoseStats
<1>4. CASE EventsStep
  <2>1. EventsNext  BY <1>4 DEF EventsStep, EventsNext
  <2> QED  BY <1>4, <2>1 DEF EventsStep
<1>5. CASE SettingsRequests \/ SettingsTimers \/ SettingsClicks
  <2>1. SettingsPageNext
    BY <1>5 DEF SettingsRequests, SettingsTimers, SettingsClicks, SettingsPageNext
  <2> QED  BY <1>5, <2>1 DEF SettingsRequests, SettingsTimers, SettingsClicks
<1>6. CASE UNCHANGED vars  BY <1>6 DEF vars
<1> QED  BY <1>1, <1>2, <1>3, <1>4, <1>5, <1>6 DEF Next

\* App, Router and the pages together (main.js) let each page and the session
\* behave as it does alone: mounting, unmounting and a server that dies are
\* the only ways they act on one another.
THEOREM Composed == Spec => SessionSpec /\ EventsSpec /\ SettingsPageSpec
<1>1. Init => SessionInit /\ EventsInit /\ SettingsPageInit  BY DEF Init
<1> QED
  BY <1>1, StepParts, PTL DEF Spec, SessionSpec, EventsSpec, SettingsPageSpec

-----------------------------------------------------------------------------
(* The session                                                             *)

SessionFlags == alive \in BOOLEAN /\ loading \in BOOLEAN /\ leaving \in BOOLEAN
SessionNames ==
  /\ cookie \in Users \cup {""} /\ user \in Users \cup {""}
  /\ start \in Users \cup {"", Nobody}
  /\ form \in [Slots -> Users \cup {"", Nobody}]

LEMMA SessionParts == SessionTypeOK <=> SessionFlags /\ SessionNames
  BY DEF SessionTypeOK, SessionFlags, SessionNames

LEMMA SessionFlagsStep ==
  ASSUME SessionFlags, [SessionNext]_sessionVars PROVE SessionFlags'
<1> USE DEF SessionFlags, browserVars, sentVars
<1>1. CASE Visit \/ Logout \/ CookieExpires
  BY <1>1 DEF Visit, Logout, CookieExpires
<1>2. CASE \E s \in Slots : \/ \E who \in Users \cup {Nobody} : Submit(s, who)
                            \/ AnswerForm(s) \/ LoseForm(s)
  BY <1>2 DEF Submit, AnswerForm, LoseForm, SignIn
<1>3. CASE AnswerStart \/ AnswerLogout \/ LoseStart \/ LoseLogout
  BY <1>3 DEF AnswerStart, AnswerLogout, LoseStart, LoseLogout, SignIn
<1>4. CASE Crash \/ Restart
  BY <1>4 DEF Crash, CrashStart, CrashElsewhere, CrashForm, Restart
<1>5. CASE UNCHANGED sessionVars  BY <1>5 DEF sessionVars
<1> QED  BY <1>1, <1>2, <1>3, <1>4, <1>5 DEF SessionNext

LEMMA SessionNamesStep ==
  ASSUME SessionNames, [SessionNext]_sessionVars PROVE SessionNames'
<1> USE DEF SessionNames, browserVars, sentVars
<1>1. CASE Visit \/ Logout \/ CookieExpires
  BY <1>1 DEF Visit, Logout, CookieExpires, Token
<1>2. CASE \E s \in Slots : \/ \E who \in Users \cup {Nobody} : Submit(s, who)
                            \/ AnswerForm(s) \/ LoseForm(s)
  BY <1>2 DEF Submit, AnswerForm, LoseForm, SignIn
<1>3. CASE AnswerStart \/ AnswerLogout \/ LoseStart \/ LoseLogout
  BY <1>3 DEF AnswerStart, AnswerLogout, LoseStart, LoseLogout, SignIn
<1>4. CASE Crash \/ Restart
  BY <1>4 DEF Crash, CrashStart, CrashElsewhere, CrashForm, Restart
<1>5. CASE UNCHANGED sessionVars  BY <1>5 DEF sessionVars
<1> QED  BY <1>1, <1>2, <1>3, <1>4, <1>5 DEF SessionNext

LEMMA SessionTypes == SessionSpec => []SessionTypeOK
<1>1. SessionInit => SessionTypeOK
  <2> SUFFICES ASSUME SessionInit PROVE SessionFlags /\ SessionNames
    BY SessionParts
  <2>1. SessionFlags  BY DEF SessionInit, SessionFlags
  <2>2. SessionNames  BY DEF SessionInit, SessionNames, Token
  <2> QED  BY <2>1, <2>2
<1>2. SessionTypeOK /\ [SessionNext]_sessionVars => SessionTypeOK'
  BY SessionParts, SessionFlagsStep, SessionNamesStep
     DEF SessionTypeOK, SessionFlags, SessionNames
<1> QED  BY <1>1, <1>2, PTL DEF SessionSpec
-----------------------------------------------------------------------------
(* The event list                                                          *)

LEMMA PagesFacts ==
  /\ MaxEvents \in Nat /\ MaxEvents > 0 /\ PerPage \in Nat /\ PerPage > 0
  /\ TotalPages \in Nat /\ TotalPages > 0
<1>1. MaxEvents \in Nat /\ MaxEvents > 0 /\ PerPage \in Nat /\ PerPage > 0
  BY EventsAssumption
<1>2. TotalPages \in Nat /\ TotalPages > 0
  BY <1>1 DEF TotalPages
<1> QED  BY <1>1, <1>2

LEMMA ClickablePages ==
  ASSUME NEW p \in Pages \cup {Null} PROVE Clickable(p) \subseteq Pages
<1>1. Offered(p) \subseteq Pages  BY PagesFacts DEF Offered, Pages
<1>2. Previous(p) \in Pages /\ Following(p) \in Pages
  BY PagesFacts DEF Previous, Following, Pages, Null
<1> QED  BY <1>1, <1>2 DEF Clickable

\* What is known of the list in each phase: which page it was asked for, and
\* which page number is stored.
EventsInv ==
  /\ EventsTypeOK
  /\ phase \in {"off", "mounting"} => page = 1
  /\ phase = "idle" /\ latest # None => latest = ServerPage(page)
  /\ phase = "idle" /\ latest = None /\ ~missed =>
       table = EventsOf(ServerPage(page))
  /\ phase = "idle" => stored = ServerPage(page)
  /\ phase = "changed" /\ page = Null => stored = 1

LEMMA AskPage ==
  ASSUME NEW p \in Pages \cup {Null}, EventsTypeOK, Ask(p)
  PROVE  /\ latest' = ServerPage(p) /\ latest' # None /\ latest' \in Pages
         /\ overdue' \in [Pages -> Nat] /\ missed' = FALSE
<1>1. ServerPage(p) \in Pages /\ ServerPage(p) # None
  BY PagesFacts DEF ServerPage, Pages, Null, None
<1>2. overdue' \in [Pages -> Nat]
  <2>1. \A q \in Pages : overdue[q] + (IF q = latest THEN 1 ELSE 0) \in Nat
    BY DEF EventsTypeOK
  <2> QED  BY <2>1 DEF Ask
<1> QED  BY <1>1, <1>2 DEF Ask

\* A request for p is one of those unanswered no more.
LEMMA OverdueEnds ==
  ASSUME EventsTypeOK, NEW p \in Pages, overdue[p] > 0,
         overdue' = [overdue EXCEPT ![p] = @ - 1]
  PROVE  overdue' \in [Pages -> Nat]
<1>1. overdue[p] - 1 \in Nat  BY DEF EventsTypeOK
<1> QED  BY <1>1 DEF EventsTypeOK

LEMMA EventsInitInv == EventsInit => EventsInv
<1>1. 1 \in Pages  BY PagesFacts DEF Pages
<1>2. NoneOverdue \in [Pages -> Nat]  BY DEF NoneOverdue
<1> QED  BY <1>1, <1>2 DEF EventsInit, EventsInv, EventsTypeOK, None

LEMMA EventsStepInv == EventsInv /\ [EventsNext]_eventsVars => EventsInv'
<1> SUFFICES ASSUME EventsInv, [EventsNext]_eventsVars PROVE EventsInv'
  OBVIOUS
<1> USE DEF EventsInv, EventsTypeOK, sentPages
<1>0. 1 \in Pages  BY PagesFacts DEF Pages
<1>1. CASE MountEvents  BY <1>1 DEF MountEvents
<1>2. CASE UnmountEvents
  <2>1. NoneOverdue \in [Pages -> Nat]  BY DEF NoneOverdue
  <2> QED  BY <1>0, <1>2, <2>1 DEF UnmountEvents
<1>3. CASE MountEffects
  <2>1. /\ latest' = ServerPage(1) /\ latest' # None /\ latest' \in Pages
        /\ overdue' \in [Pages -> Nat] /\ missed' = FALSE
    BY <1>0, <1>3, AskPage DEF MountEffects
  <2>2. /\ page = 1 /\ page' = stored /\ stored' = 1 /\ table' = table
        /\ phase' = IF page' = page THEN "idle" ELSE "changed"
    BY <1>3 DEF MountEffects
  <2> QED  BY <1>0, <2>1, <2>2 DEF ServerPage
<1>4. CASE ChangeEffects
  <2>1. /\ latest' = ServerPage(page) /\ latest' # None /\ latest' \in Pages
        /\ overdue' \in [Pages -> Nat] /\ missed' = FALSE
    BY <1>4, AskPage DEF ChangeEffects
  <2>2. /\ phase = "changed" /\ phase' = "idle" /\ UNCHANGED <<page, table>>
        /\ stored' = IF page = Null THEN stored ELSE page
    BY <1>4 DEF ChangeEffects
  <2> QED  BY <2>1, <2>2 DEF ServerPage
<1>5. CASE AnswerLatest
  BY <1>5 DEF AnswerLatest, EventsOf, ServerPage
<1>6. CASE \E p \in Pages : AnswerOverdue(p)
  <2>1. overdue' \in [Pages -> Nat]  BY <1>6, OverdueEnds DEF AnswerOverdue
  <2> QED  BY <1>6, <2>1 DEF AnswerOverdue, EventsOf, ServerPage
<1>7. CASE EventsLose
  <2>1. CASE LoseLatest  BY <2>1 DEF LoseLatest, EventsOf, ServerPage
  <2>2. CASE \E p \in Pages : LoseOverdue(p)
    <3>1. overdue' \in [Pages -> Nat]  BY <2>2, OverdueEnds DEF LoseOverdue
    <3> QED  BY <2>2, <3>1 DEF LoseOverdue, EventsOf, ServerPage
  <2> QED  BY <1>7, <2>1, <2>2 DEF EventsLose
<1>8. CASE \E p \in Clickable(page) : Click(p)
  <2>1. PICK p \in Pages : Click(p)  BY <1>8, ClickablePages
  <2>2. p # Null  BY DEF Pages, Null
  <2> QED  BY <2>1, <2>2 DEF Click
<1>9. CASE UNCHANGED eventsVars
  BY <1>9 DEF eventsVars, EventsOf, ServerPage
<1> QED
  BY <1>1, <1>2, <1>3, <1>4, <1>5, <1>6, <1>7, <1>8, <1>9
     DEF EventsNext, EventsEffects, EventsAnswer

LEMMA EventsAlways == EventsSpec => []EventsInv
<1> QED  BY EventsInitInv, EventsStepInv, PTL DEF EventsSpec

\* Events of main.js, refresh after refresh, and print_events of net.c: the
\* table is that of the page its label names.
THEOREM TableIsOfPage == Spec => []TableMatchesLabel
<1>1. EventsInv => TableMatchesLabel
  <2> SUFFICES ASSUME EventsInv, phase = "idle", latest = None, ~missed
               PROVE  IF page = Null THEN table = EventsOf(1)
                      ELSE table = {no \in 0..(MaxEvents - 1) :
                                      no + 1 \in From(page)..To(page)}
    BY DEF TableMatchesLabel
  <2>1. table = EventsOf(ServerPage(page))  BY DEF EventsInv
  <2>2. CASE page = Null  BY <2>1, <2>2 DEF ServerPage
  <2>3. CASE page # Null
    <3>1. page \in Pages  BY <2>3 DEF EventsInv, EventsTypeOK
    <3> DEFINE a == (page - 1) * PerPage
               b == page * PerPage
    <3>2. a \in Int /\ b \in Int  BY <3>1, PagesFacts DEF Pages
    <3>3. table = {no \in 0..(MaxEvents - 1) : no >= a /\ no < b}
      BY <2>1, <2>3 DEF ServerPage, EventsOf
    <3>4. From(page) = a + 1 /\ To(page) = IF b <= MaxEvents THEN b ELSE MaxEvents
      BY DEF From, To
    <3> HIDE DEF a, b
    <3>5. \A no \in 0..(MaxEvents - 1) :
            (no >= a /\ no < b) <=> no + 1 \in From(page)..To(page)
      BY <3>2, <3>4, PagesFacts
    <3>6. table = {no \in 0..(MaxEvents - 1) : no + 1 \in From(page)..To(page)}
      BY <3>3, <3>5
    <3> QED  BY <2>3, <3>6
  <2> QED  BY <2>2, <2>3
<1> QED  BY <1>1, EventsAlways, Composed, PTL

\* localStorage and the page number of Events do not drift apart.
THEOREM PageIsRemembered == Spec => []PageRemembered
<1>1. EventsInv => PageRemembered  BY DEF EventsInv, PageRemembered
<1> QED  BY <1>1, EventsAlways, Composed, PTL

\* Pagination, for every number of pages: what cannot be reached with one click
\* is behind dots, and the neighbours can.  The converse is false: with seven
\* pages the first shows dots although every page can be clicked.
THEOREM PagerReaches == Spec => []PagerShowsGaps
<1>1. EventsInv => PagerShowsGaps
  <2> SUFFICES ASSUME page \in Pages \cup {Null}, NEW p \in Pages \ Offered(page)
               PROVE  /\ p < page - 1 \/ p > page + 1
                      /\ p < page => DotsLeft(page)
                      /\ p > page => DotsRight(page)
    BY DEF EventsInv, EventsTypeOK, PagerShowsGaps
  <2>1. /\ page \in Nat /\ p \in Nat /\ TotalPages \in Nat
        /\ page <= TotalPages /\ p > 1 /\ p < TotalPages
        /\ p < Lowest(page) \/ p >= Lowest(page) + Width
    <3>1. /\ page \in Nat /\ page <= TotalPages /\ TotalPages \in Nat
          /\ p \in Nat /\ p >= 1 /\ p <= TotalPages
      BY PagesFacts DEF Pages, Null
    <3>2. /\ p # 1 /\ p # TotalPages
          /\ ~(p >= Lowest(page) /\ p < Lowest(page) + Width)
      BY DEF Offered
    <3>3. Lowest(page) \in Int /\ Width \in Int
      BY <3>1 DEF Lowest, Width, maxPageRange
    <3> QED  BY <3>1, <3>2, <3>3
  <2>2. CASE p < Lowest(page)
    BY <2>1, <2>2 DEF Lowest, DotsLeft, maxPageRange
  <2>3. CASE p >= Lowest(page) + Width
    BY <2>1, <2>3 DEF Lowest, Width, DotsRight, maxPageRange
  <2> QED  BY <2>1, <2>2, <2>3
<1> QED  BY <1>1, EventsAlways, Composed, PTL
-----------------------------------------------------------------------------
(* The settings form                                                       *)

FormFlags == getting \in BOOLEAN /\ enabled \in BOOLEAN /\ auto \in BOOLEAN
FormRest ==
  /\ view \in {"off", "blank", "form"}
  /\ edits \in SUBSET Keys
  /\ saving \in {"none", "post", "get"}
  /\ toast \in {"", "Success", "Failed"}
  /\ closes \in Nat

\* Only a form is edited or saved, and it is there once the first request
\* has been answered.
FormInv ==
  /\ getting => view = "blank"
  /\ view # "form" => edits = {}

LEMMA FormFlagsStep ==
  ASSUME FormFlags, [SettingsPageNext]_settingsPageVars PROVE FormFlags'
<1> USE DEF FormFlags, formVars, toastVars
<1>1. CASE MountSettings \/ UnmountSettings
  BY <1>1 DEF MountSettings, UnmountSettings, Received, NoToast
<1>2. CASE SettingsPageAnswer
  BY <1>2 DEF SettingsPageAnswer, AnswerGet, AnswerPost, AnswerRefresh, Received
<1>3. CASE SettingsPageLose
  BY <1>3 DEF SettingsPageLose, LoseGet, LosePost, LoseRefresh
<1>4. CASE \E k \in Keys : Edit(k)  BY <1>4 DEF Edit
<1>5. CASE Save \/ AutoClose \/ ClickClose \/ Closed
  BY <1>5 DEF Save, AutoClose, ClickClose, Closed
<1>6. CASE UNCHANGED settingsPageVars  BY <1>6 DEF settingsPageVars
<1> QED  BY <1>1, <1>2, <1>3, <1>4, <1>5, <1>6 DEF SettingsPageNext

LEMMA Counting ==
  \A n \in Nat : n + 1 \in Nat /\ n + 1 > 0 /\ (n > 0 => n - 1 \in Nat)
  OBVIOUS

LEMMA FormRestStep ==
  ASSUME FormRest, [SettingsPageNext]_settingsPageVars PROVE FormRest'
<1> USE DEF FormRest, formVars, toastVars
<1>1. CASE MountSettings  BY <1>1 DEF MountSettings
<1>2. CASE UnmountSettings  BY <1>2 DEF UnmountSettings, Received, NoToast
<1>3. CASE AnswerGet  BY <1>3 DEF AnswerGet, Received
<1>4. CASE AnswerPost  BY <1>4 DEF AnswerPost, Result
<1>5. CASE AnswerRefresh  BY <1>5 DEF AnswerRefresh, Received
<1>6. CASE LoseGet  BY <1>6 DEF LoseGet
<1>7. CASE LosePost  BY <1>7 DEF LosePost
<1>8. CASE LoseRefresh  BY <1>8 DEF LoseRefresh
<1>9. CASE \E k \in Keys : Edit(k)  BY <1>9 DEF Edit
<1>10. CASE Save  BY <1>10 DEF Save
<1>11. CASE AutoClose \/ ClickClose
  <2>1. closes' = closes + 1 /\ UNCHANGED <<view, edits, saving, toast>>
    BY <1>11 DEF AutoClose, ClickClose
  <2>2. closes' \in Nat  BY <2>1, Counting
  <2> QED  BY <2>1, <2>2
<1>12. CASE Closed
  <2>1. closes > 0 /\ closes' = closes - 1 /\ toast' = ""
    BY <1>12 DEF Closed
  <2>2. UNCHANGED <<view, edits, saving>>  BY <1>12 DEF Closed
  <2>3. closes' \in Nat  BY <2>1, Counting
  <2> QED  BY <2>1, <2>2, <2>3
<1>13. CASE UNCHANGED settingsPageVars  BY <1>13 DEF settingsPageVars
<1> QED
  BY <1>1, <1>2, <1>3, <1>4, <1>5, <1>6, <1>7, <1>8, <1>9, <1>10, <1>11, <1>12, <1>13
     DEF SettingsPageNext, SettingsPageAnswer, SettingsPageLose

LEMMA FormInvStep ==
  ASSUME FormInv, [SettingsPageNext]_settingsPageVars PROVE FormInv'
<1> USE DEF FormInv, formVars, toastVars
<1>1. CASE MountSettings  BY <1>1 DEF MountSettings
<1>2. CASE UnmountSettings  BY <1>2 DEF UnmountSettings, Received, NoToast
<1>3. CASE AnswerGet  BY <1>3 DEF AnswerGet, Received
<1>4. CASE AnswerPost  BY <1>4 DEF AnswerPost, Result
<1>5. CASE AnswerRefresh  BY <1>5 DEF AnswerRefresh, Received
<1>6. CASE LoseGet  BY <1>6 DEF LoseGet
<1>7. CASE LosePost  BY <1>7 DEF LosePost
<1>8. CASE LoseRefresh  BY <1>8 DEF LoseRefresh
<1>9. CASE \E k \in Keys : Edit(k)  BY <1>9 DEF Edit
<1>10. CASE Save  BY <1>10 DEF Save
<1>11. CASE AutoClose  BY <1>11 DEF AutoClose
<1>12. CASE ClickClose  BY <1>12 DEF ClickClose
<1>13. CASE Closed  BY <1>13 DEF Closed
<1>14. CASE UNCHANGED settingsPageVars  BY <1>14 DEF settingsPageVars
<1> QED
  BY <1>1, <1>2, <1>3, <1>4, <1>5, <1>6, <1>7, <1>8, <1>9, <1>10, <1>11, <1>12, <1>13, <1>14
     DEF SettingsPageNext, SettingsPageAnswer, SettingsPageLose

LEMMA ToastStep ==
  ASSUME FormFlags, FormRest, ToastHasTimer, [SettingsPageNext]_settingsPageVars
  PROVE  ToastHasTimer'
<1> USE DEF FormFlags, FormRest, ToastHasTimer, formVars, toastVars
<1>1. CASE MountSettings  BY <1>1 DEF MountSettings
<1>2. CASE UnmountSettings  BY <1>2 DEF UnmountSettings, Received, NoToast
<1>3. CASE AnswerGet  BY <1>3 DEF AnswerGet, Received
<1>4. CASE AnswerPost  BY <1>4 DEF AnswerPost, Result
<1>5. CASE AnswerRefresh  BY <1>5 DEF AnswerRefresh, Received
<1>6. CASE LoseGet  BY <1>6 DEF LoseGet
<1>7. CASE LosePost  BY <1>7 DEF LosePost
<1>8. CASE LoseRefresh  BY <1>8 DEF LoseRefresh
<1>9. CASE \E k \in Keys : Edit(k)
  <2>1. UNCHANGED <<toast, auto, closes>>  BY <1>9 DEF Edit
  <2> QED  BY <2>1
<1>10. CASE Save  BY <1>10 DEF Save
<1>11. CASE AutoClose \/ ClickClose
  <2>1. closes' = closes + 1  BY <1>11 DEF AutoClose, ClickClose
  <2>2. closes \in Nat  OBVIOUS
  <2>3. closes' > 0  BY <2>1, <2>2, Counting
  <2> QED  BY <2>3
<1>12. CASE Closed  BY <1>12 DEF Closed
<1>13. CASE UNCHANGED settingsPageVars  BY <1>13 DEF settingsPageVars
<1> QED
  BY <1>1, <1>2, <1>3, <1>4, <1>5, <1>6, <1>7, <1>8, <1>9, <1>10, <1>11, <1>12, <1>13
     DEF SettingsPageNext, SettingsPageAnswer, SettingsPageLose

FormAll == FormFlags /\ FormRest /\ FormInv /\ ToastHasTimer

LEMMA FormAlways == SettingsPageSpec => []FormAll
<1>1. SettingsPageInit => FormAll
  <2> SUFFICES ASSUME SettingsPageInit PROVE FormAll
    OBVIOUS
  <2>1. FormFlags  BY DEF SettingsPageInit, FormFlags
  <2>2. FormRest  BY DEF SettingsPageInit, FormRest
  <2>3. FormInv /\ ToastHasTimer  BY DEF SettingsPageInit, FormInv, ToastHasTimer
  <2> QED  BY <2>1, <2>2, <2>3 DEF FormAll
<1>2. FormAll /\ [SettingsPageNext]_settingsPageVars => FormAll'
  BY FormFlagsStep, FormRestStep, FormInvStep, ToastStep DEF FormAll
<1> QED  BY <1>1, <1>2, PTL DEF SettingsPageSpec

\* A notification of Settings never stays for good: setSaveResult(null) is
\* always still to come, also after clicks on Close at any moment.
THEOREM ToastGoes == Spec => []ToastHasTimer
<1>1. FormAll => ToastHasTimer  BY DEF FormAll
<1> QED  BY <1>1, FormAlways, Composed, PTL

\* No answer but the one to a save replaces what has been edited in Settings.
THEOREM EditsStay == Spec => EditsKept
<1>1. FormAll /\ [SettingsPageNext]_settingsPageVars
        => [edits \subseteq edits' \/ saving = "get" \/ view' = "off"]_settingsPageVars
  <2> SUFFICES ASSUME FormAll, SettingsPageNext
               PROVE  edits \subseteq edits' \/ saving = "get" \/ view' = "off"
    OBVIOUS
  <2>1. CASE AnswerGet
    <3>1. edits = {}  BY <2>1 DEF FormAll, FormInv, AnswerGet
    <3> QED  BY <3>1
  <2>2. CASE AnswerPost \/ AnswerRefresh
    BY <2>2 DEF AnswerPost, AnswerRefresh, formVars
  <2>3. CASE MountSettings \/ UnmountSettings
    BY <2>3 DEF MountSettings, UnmountSettings, formVars
  <2>4. CASE SettingsPageLose
    BY <2>4 DEF SettingsPageLose, LoseGet, LosePost, LoseRefresh, formVars
  <2>5. CASE \E k \in Keys : Edit(k)  BY <2>5 DEF Edit
  <2>6. CASE Save \/ AutoClose \/ ClickClose \/ Closed
    BY <2>6 DEF Save, AutoClose, ClickClose, Closed, formVars
  <2> QED
    BY <2>1, <2>2, <2>3, <2>4, <2>5, <2>6
       DEF SettingsPageNext, SettingsPageAnswer
<1> QED  BY <1>1, FormAlways, Composed, PTL DEF SettingsPageSpec, EditsKept

-----------------------------------------------------------------------------
(* A save comes to rest                                                    *)

\* Only the form saves, so its own request is not on the way by then.
SavingForm == saving # "none" => view = "form"

LEMMA SavingStep ==
  ASSUME FormAll, SavingForm, [SettingsPageNext]_settingsPageVars
  PROVE  /\ SavingForm'
         /\ saving = "post" => saving' \in {"post", "get", "none"}
         /\ saving = "get" => saving' \in {"get", "none"}
         /\ saving # "none" /\ (SettingsPageAnswer \/ SettingsPageLose)
              => saving' # saving
<1> USE DEF FormAll, FormInv, SavingForm
<1>1. saving # "none" /\ (SettingsPageAnswer \/ SettingsPageLose) => saving' # saving
  BY DEF SettingsPageAnswer, SettingsPageLose, AnswerGet, AnswerPost, AnswerRefresh,
         LoseGet, LosePost, LoseRefresh
<1>2. /\ SavingForm'
      /\ saving = "post" => saving' \in {"post", "get", "none"}
      /\ saving = "get" => saving' \in {"get", "none"}
  <2>1. CASE AnswerGet \/ LoseGet
    BY <2>1 DEF AnswerGet, LoseGet
  <2>2. CASE AnswerPost \/ LosePost \/ AnswerRefresh \/ LoseRefresh
    BY <2>2 DEF AnswerPost, LosePost, AnswerRefresh, LoseRefresh
  <2>3. CASE MountSettings \/ UnmountSettings
    BY <2>3 DEF MountSettings, UnmountSettings
  <2>4. CASE \E k \in Keys : Edit(k)
    BY <2>4 DEF Edit
  <2>5. CASE Save
    BY <2>5 DEF Save
  <2>6. CASE AutoClose \/ ClickClose \/ Closed \/ UNCHANGED settingsPageVars
    BY <2>6 DEF AutoClose, ClickClose, Closed, settingsPageVars
  <2> QED
    BY <2>1, <2>2, <2>3, <2>4, <2>5, <2>6
       DEF SettingsPageNext, SettingsPageAnswer, SettingsPageLose
<1> QED  BY <1>1, <1>2

LEMMA SavingAlways == SettingsPageSpec => []SavingForm
<1>1. SettingsPageInit => SavingForm  BY DEF SettingsPageInit, SavingForm
<1> QED  BY <1>1, FormAlways, SavingStep, PTL DEF SettingsPageSpec

\* A notification on the screen keeps its own timer until that has run; one
\* that has run clicks, and the click takes the notification away.
LEMMA ToastLeaves ==
  ASSUME FormAll, toast # "", [SettingsPageNext]_settingsPageVars
  PROVE  /\ auto' => auto \/ toast' = ""
         /\ AutoClose => ~auto'
         /\ ~auto /\ (AutoClose \/ Closed) => toast' = ""
         /\ Closed => toast' = ""
<1>1. (AutoClose => ~auto') /\ (Closed => toast' = "") /\ (AutoClose => auto)
  BY DEF AutoClose, Closed
<1>2. auto' => auto \/ toast' = ""
  <2>1. CASE AnswerPost
    BY <2>1 DEF AnswerPost
  <2>2. CASE AnswerGet \/ LoseGet \/ LosePost \/ AnswerRefresh \/ LoseRefresh \/ Save
    BY <2>2 DEF AnswerGet, LoseGet, LosePost, AnswerRefresh, LoseRefresh, Save, toastVars
  <2>3. CASE MountSettings \/ UnmountSettings
    BY <2>3 DEF MountSettings, UnmountSettings, toastVars, NoToast
  <2>4. CASE \E k \in Keys : Edit(k)
    <3>1. UNCHANGED auto  BY <2>4 DEF Edit, toastVars
    <3> QED  BY <3>1
  <2>5. CASE AutoClose \/ ClickClose \/ Closed \/ UNCHANGED settingsPageVars
    BY <2>5 DEF AutoClose, ClickClose, Closed, settingsPageVars, toastVars
  <2> QED
    BY <2>1, <2>2, <2>3, <2>4, <2>5
       DEF SettingsPageNext, SettingsPageAnswer, SettingsPageLose
<1> QED  BY <1>1, <1>2

\* Whatever becomes of the requests of a save and however often its
\* notification is clicked on, the button can be used again and the
\* notification goes.
THEOREM SavesRest == Spec /\ RequestsEnd /\ TimersRun => SaveComesToRest
<1> DEFINE Form == FormAll /\ SavingForm
           Posting == Form /\ saving = "post"
           Getting == Form /\ saving = "get"
           Saved == saving = "none"
           Fresh == Form /\ toast # "" /\ auto
           Used == Form /\ toast # "" /\ ~auto
           Gone == toast = ""
<1>1. SettingsPageSpec => []Form
  BY FormAlways, SavingAlways, PTL
<1>2. Form /\ [Next]_vars => Form'
  <2> SUFFICES ASSUME Form, [Next]_vars PROVE Form'
    OBVIOUS
  <2>1. [SettingsPageNext]_settingsPageVars  BY StepParts
  <2> QED
    BY <2>1, SavingStep, FormFlagsStep, FormRestStep, FormInvStep, ToastStep DEF FormAll
<1>3. ASSUME Form, [Next]_vars
      PROVE  /\ saving = "post" => Posting' \/ Getting' \/ Saved'
             /\ saving = "get" => Getting' \/ Saved'
             /\ saving = "post" /\ SettingsRequests => Getting' \/ Saved'
             /\ saving = "get" /\ SettingsRequests => Saved'
  <2>1. [SettingsPageNext]_settingsPageVars  BY <1>3, StepParts
  <2>2. SettingsRequests => SettingsPageAnswer \/ SettingsPageLose
    BY DEF SettingsRequests
  <2> QED  BY <1>2, <1>3, <2>1, <2>2, SavingStep
<1>4. ASSUME Form, toast # "", [Next]_vars
      PROVE  /\ auto => Fresh' \/ Used' \/ Gone'
             /\ ~auto => Used' \/ Gone'
             /\ auto /\ SettingsTimers => Used' \/ Gone'
             /\ ~auto /\ SettingsTimers => Gone'
  <2>1. [SettingsPageNext]_settingsPageVars  BY <1>4, StepParts
  <2>2. SettingsTimers => AutoClose \/ Closed  BY DEF SettingsTimers
  <2> QED  BY <1>2, <1>4, <2>1, <2>2, ToastLeaves
<1>a. Posting /\ [Next]_vars => Posting' \/ Getting' \/ Saved'  BY <1>3
<1>b. Posting /\ [Next]_vars /\ <<SettingsRequests>>_vars => Getting' \/ Saved'  BY <1>3
<1>c. Getting /\ [Next]_vars => Getting' \/ Saved'  BY <1>3
<1>d. Getting /\ [Next]_vars /\ <<SettingsRequests>>_vars => Saved'  BY <1>3
<1>e. Fresh /\ [Next]_vars => Fresh' \/ Used' \/ Gone'  BY <1>4
<1>f. Fresh /\ [Next]_vars /\ <<SettingsTimers>>_vars => Used' \/ Gone'  BY <1>4
<1>g. Used /\ [Next]_vars => Used' \/ Gone'  BY <1>4
<1>h. Used /\ [Next]_vars /\ <<SettingsTimers>>_vars => Gone'  BY <1>4
<1>i. Form => (Posting \/ Getting \/ Saved) /\ (Fresh \/ Used \/ Gone)
  BY DEF FormAll, FormRest
<1>j. ~getting /\ saving = "none" => Saved  OBVIOUS
<1>k. Form /\ ~auto /\ closes = 0 => Gone
  <2>1. closes = 0 => ~(closes > 0)  OBVIOUS
  <2>2. Form => (toast # "" => auto \/ closes > 0)  BY DEF FormAll, ToastHasTimer
  <2> QED  BY <2>1, <2>2
<1>l. (Saved <=> saving = "none") /\ (Gone <=> toast = "")  OBVIOUS
<1> HIDE DEF Form, Posting, Getting, Saved, Fresh, Used, Gone
<1>5. Spec /\ RequestsEnd => []<>Saved
  BY <1>1, <1>a, <1>b, <1>c, <1>d, <1>i, <1>j, Composed, PTL DEF Spec, RequestsEnd
<1>6. Spec /\ TimersRun => []<>Gone
  BY <1>1, <1>e, <1>f, <1>g, <1>h, <1>i, <1>k, Composed, PTL DEF Spec, TimersRun
<1> QED  BY <1>5, <1>6, <1>l, PTL DEF SaveComesToRest

-----------------------------------------------------------------------------
(* Types                                                                   *)

LEMMA PlacesTypes == Spec => [](route \in Routes /\ stats \in {"off", "asked", "blank", "shown"})
<1> DEFINE T == route \in Routes /\ stats \in {"off", "asked", "blank", "shown"}
<1>1. Init => T  BY DEF Init
<1>2. T /\ [Next]_vars => T'
  <2> SUFFICES ASSUME T, [Next]_vars PROVE T'
    OBVIOUS
  <2>1. CASE SessionStep
    BY <2>1, TurnParts DEF SessionStep, MountMain, UnmountMain
  <2>2. CASE \E r \in Routes : Navigate(r)
    BY <2>2, TurnParts DEF Navigate, MountMain, UnmountMain
  <2>3. CASE AnswerStats \/ LoseStats  BY <2>3 DEF AnswerStats, LoseStats
  <2>4. CASE EventsStep \/ SettingsRequests \/ SettingsTimers \/ SettingsClicks
    BY <2>4 DEF EventsStep, SettingsRequests, SettingsTimers, SettingsClicks
  <2>5. CASE UNCHANGED vars  BY <2>5 DEF vars
  <2> QED  BY <2>1, <2>2, <2>3, <2>4, <2>5 DEF Next
<1> QED  BY <1>1, <1>2, PTL DEF Spec

\* Every variable of the dashboard keeps its type; among others a browser has
\* no cookie but that of a user of handle_login.
THEOREM TypeCorrect == Spec => []TypeOK
<1>1. FormAll => SettingsPageTypeOK
  BY DEF FormAll, FormFlags, FormRest, SettingsPageTypeOK
<1>2. EventsInv => EventsTypeOK  BY DEF EventsInv
<1>3. SessionTypeOK /\ EventsTypeOK /\ SettingsPageTypeOK
        /\ route \in Routes /\ stats \in {"off", "asked", "blank", "shown"}
        => TypeOK
  BY DEF TypeOK
<1> QED
  BY <1>1, <1>2, <1>3, Composed, SessionTypes, EventsAlways, FormAlways, PlacesTypes, PTL

-----------------------------------------------------------------------------
(* What is shown                                                           *)

\* The Router's turns: what is shown comes to be mounted, what is not is
\* unmounted, and nothing stands in the way of either.
LEMMA TurnsMount ==
  ASSUME OnlyShownMounted, Turns PROVE OnlyShownMounted'
<1> USE DEF Turns, Turn
<1>1. stats' # "off" <=> Shown' = "/"
  BY DEF OnlyShownMounted, MountMain, UnmountMain
<1>2. /\ phase' # "off" <=> Shown' = "/events"
      /\ phase' = "off" => latest' = None /\ overdue' = NoneOverdue /\ table' = {}
  BY DEF OnlyShownMounted, MountEvents, UnmountEvents, eventsVars, sentPages
<1>3. view' # "off" <=> Shown' = "/settings"
  BY DEF OnlyShownMounted, MountSettings, UnmountSettings, settingsPageVars
<1>4. view' = "off" =>
        ~getting' /\ saving' = "none" /\ edits' = {} /\ toast' = "" /\ ~auto' /\ closes' = 0
  BY DEF OnlyShownMounted, MountSettings, UnmountSettings, Received, NoToast,
     settingsPageVars, formVars, toastVars
<1> QED  BY <1>1, <1>2, <1>3, <1>4 DEF OnlyShownMounted

LEMMA MountedStep ==
  ASSUME OnlyShownMounted, [Next]_vars PROVE OnlyShownMounted'
<1>1. CASE SessionStep \/ \E r \in Routes : Navigate(r)
  BY <1>1, TurnsMount DEF SessionStep, Navigate
<1>2. CASE AnswerStats \/ LoseStats
  <2>1. stats # "off" /\ stats' # "off"
    BY <1>2 DEF AnswerStats, LoseStats
  <2>2. UNCHANGED <<sessionVars, route, eventsVars, settingsPageVars>>
    BY <1>2 DEF AnswerStats, LoseStats
  <2>3. Shown' = Shown  BY <2>2 DEF Shown, sessionVars, browserVars
  <2> QED
    BY <2>1, <2>2, <2>3 DEF OnlyShownMounted, eventsVars, sentPages,
       settingsPageVars, formVars, toastVars
<1>3. CASE EventsStep
  <2>0. UNCHANGED <<sessionVars, route, stats, settingsPageVars>>
    BY <1>3 DEF EventsStep
  <2>1. Shown' = Shown  BY <2>0 DEF Shown, sessionVars, browserVars
  <2>2. phase # "off" /\ phase' # "off"
    <3>1. CASE \E p \in Pages : AnswerOverdue(p) \/ LoseOverdue(p)
      <4>1. PICK p \in Pages : overdue[p] > 0 /\ phase' = phase
        BY <3>1 DEF AnswerOverdue, LoseOverdue
      <4>2. overdue # NoneOverdue  BY <4>1 DEF NoneOverdue
      <4> QED  BY <4>1, <4>2 DEF OnlyShownMounted
    <3>2. CASE EventsEffects \/ AnswerLatest \/ LoseLatest
                 \/ \E p \in Clickable(page) : Click(p)
      BY <3>2 DEF EventsEffects, MountEffects, ChangeEffects, AnswerLatest,
         LoseLatest, Click, OnlyShownMounted
    <3> QED  BY <1>3, <3>1, <3>2 DEF EventsStep, EventsAnswer, EventsLose
  <2> QED
    BY <2>0, <2>1, <2>2 DEF OnlyShownMounted, settingsPageVars, formVars, toastVars
<1>4. CASE SettingsRequests \/ SettingsTimers \/ SettingsClicks
  <2>0. UNCHANGED <<sessionVars, route, stats, eventsVars>>
    BY <1>4 DEF SettingsRequests, SettingsTimers, SettingsClicks
  <2>1. Shown' = Shown  BY <2>0 DEF Shown, sessionVars, browserVars
  <2>2. view # "off"
    <3>1. CASE SettingsRequests
      BY <3>1 DEF SettingsRequests, SettingsPageAnswer, SettingsPageLose,
         AnswerGet, AnswerPost, AnswerRefresh, LoseGet, LosePost, LoseRefresh,
         OnlyShownMounted
    <3>2. CASE SettingsTimers
      <4>1. auto \/ closes > 0  BY <3>2 DEF SettingsTimers, AutoClose, Closed
      <4>2. ~(0 > 0)  OBVIOUS
      <4>3. auto \/ ~(closes = 0)  BY <4>1, <4>2
      <4> QED  BY <4>3 DEF OnlyShownMounted
    <3>3. CASE SettingsClicks
      BY <3>3 DEF SettingsClicks, Save, ClickClose, Edit, OnlyShownMounted
    <3> QED  BY <1>4, <3>1, <3>2, <3>3
  <2>3. view' # "off"
    BY <1>4, <2>2 DEF SettingsRequests, SettingsPageAnswer, SettingsPageLose,
       AnswerGet, AnswerPost, AnswerRefresh, LoseGet, LosePost, LoseRefresh,
       SettingsTimers, AutoClose, Closed, SettingsClicks, Save, ClickClose, Edit
  <2> QED  BY <2>0, <2>1, <2>2, <2>3 DEF OnlyShownMounted, eventsVars, sentPages
<1>5. CASE UNCHANGED vars
  <2>1. Shown' = Shown
    BY <1>5 DEF vars, Shown, sessionVars, browserVars
  <2> QED
    BY <1>5, <2>1 DEF vars, OnlyShownMounted, eventsVars, sentPages,
       settingsPageVars, formVars, toastVars
<1> QED  BY <1>1, <1>2, <1>3, <1>4, <1>5 DEF Next

\* A page of main.js exists exactly while App and its Router show it, and
\* leaves nothing behind for the next one.
THEOREM ShownIsMounted == Spec => []OnlyShownMounted
<1>1. Init => OnlyShownMounted
  BY DEF Init, SessionInit, EventsInit, SettingsPageInit, Shown, OnlyShownMounted
<1> QED  BY <1>1, MountedStep, PTL DEF Spec

\* The user App shows and the access_token of its requests stay those of one
\* user (login, logout, handle_login and handle_logout).
THEOREM UserIsSent == Spec => []ShownIsSent
<1>1. SessionInit => ShownIsSent  BY DEF SessionInit, ShownIsSent
<1>2. ShownIsSent /\ [SessionNext]_sessionVars => ShownIsSent'
  <2> SUFFICES ASSUME ShownIsSent, [SessionNext]_sessionVars PROVE ShownIsSent'
    OBVIOUS
  <2> USE DEF ShownIsSent, browserVars, sentVars
  <2>1. CASE Visit \/ Logout \/ CookieExpires
    BY <2>1 DEF Visit, Logout, CookieExpires
  <2>2. CASE \E s \in Slots : \/ \E who \in Users \cup {Nobody} : Submit(s, who)
                              \/ AnswerForm(s) \/ LoseForm(s)
    BY <2>2 DEF Submit, AnswerForm, LoseForm, SignIn
  <2>3. CASE AnswerStart \/ AnswerLogout \/ LoseStart \/ LoseLogout
    BY <2>3 DEF AnswerStart, AnswerLogout, LoseStart, LoseLogout, SignIn
  <2>4. CASE Crash \/ Restart
    BY <2>4 DEF Crash, CrashStart, CrashElsewhere, CrashForm, Restart
  <2>5. CASE UNCHANGED sessionVars  BY <2>5 DEF sessionVars
  <2> QED  BY <2>1, <2>2, <2>3, <2>4, <2>5 DEF SessionNext
<1> QED  BY <1>1, <1>2, Composed, PTL DEF SessionSpec
=============================================================================
