----------------------------- MODULE EventsPage -----------------------------
(***************************************************************************)
(* The event list: Events of main.js, Pagination of components.js, and     *)
(* handle_events_get with print_events and ui_event_next of net.c.         *)
(*                                                                         *)
(* An event is its number, what the server tells of it is left out.        *)
(* Effects run after the page is painted, so a component can be on the     *)
(* screen with effects to come; a click meanwhile makes them run first,    *)
(* and on a page just mounted it changes nothing, since they replace the   *)
(* page number.  A page number that is not there counts as 0, as it does   *)
(* in the arithmetic of Pagination.                                        *)
(***************************************************************************)
EXTENDS Integers, FiniteSets

CONSTANTS MaxEvents,   \* MAX_EVENTS_NO, and totalItems of Pagination (400)
          PerPage,     \* EVENTS_PER_PAGE, and itemsPerPage (20)
          MaxOverdue   \* bound: no clicks with more old requests unanswered

ASSUME EventsAssumption ==
  /\ MaxEvents \in Nat \ {0}
  /\ PerPage \in Nat \ {0}
  /\ MaxOverdue \in Nat

Null == 0
None == 0
TotalPages == (MaxEvents + PerPage - 1) \div PerPage
Pages == 1..TotalPages

VARIABLES
  phase,    \* "off", "mounting" (with effects to come), "changed" (the same
            \* for a new page number), "idle"
  page,     \* state of Events
  stored,   \* 'page' of localStorage
  table,    \* state events: the numbers of the events listed
  latest,   \* the page asked for last, None after its answer
  overdue,  \* overdue[p]: requests for page p before that, without an answer
            \* yet
  missed    \* history: the answer to the last request was lost, or an older
            \* answer came after it

sentPages == <<latest, overdue, missed>>
eventsVars == <<phase, page, stored, table, sentPages>>

NoneOverdue == [p \in Pages |-> 0]
OverdueRequests == UNION {{p} \X (1..overdue[p]) : p \in Pages}

EventsTypeOK ==
  /\ phase \in {"off", "mounting", "changed", "idle"}
  /\ page \in Pages \cup {Null}
  /\ stored \in Pages \cup {Null}
  /\ table \in SUBSET (0..(MaxEvents - 1))
  /\ latest \in Pages \cup {None}
  /\ overdue \in [Pages -> Nat]
  /\ missed \in BOOLEAN

EventsInit ==
  /\ phase = "off"
  /\ page = 1
  /\ stored = Null
  /\ table = {}
  /\ latest = None
  /\ overdue = NoneOverdue
  /\ missed = FALSE

-----------------------------------------------------------------------------
(* The server: a null page number is none, and the default is 1.           *)

ServerPage(p) == IF p = Null THEN 1 ELSE p

\* print_events: ui_event_next returns the next number, 0 behind the last.
EventsOf(p) ==
  {no \in 0..(MaxEvents - 1) : no >= (p - 1) * PerPage /\ no < p * PerPage}

-----------------------------------------------------------------------------
(* Pagination                                                              *)

From(p) == (p - 1) * PerPage + 1
To(p) == IF p * PerPage <= MaxEvents THEN p * PerPage ELSE MaxEvents

maxPageRange == 2
Width == IF TotalPages <= maxPageRange * 2 + 1 THEN TotalPages
         ELSE maxPageRange * 2 + 1
Lowest(p) == IF p - maxPageRange >= 2 THEN p - maxPageRange ELSE 2

\* Mutant of Offered: the range does not start early enough.
OfferedFromCurrent(p) ==
  {1, TotalPages} \cup {q \in Pages : q >= p /\ q < p + Width}

\* The page numbers to click on: the first, the last and a range between.
Offered(p) ==
  {1, TotalPages} \cup {q \in Pages : q >= Lowest(p) /\ q < Lowest(p) + Width}

DotsLeft(p) == p > maxPageRange + 2
DotsRight(p) == p < TotalPages - (maxPageRange + 1)

Previous(p) == IF p - 1 >= 1 THEN p - 1 ELSE 1
Following(p) == IF p + 1 <= TotalPages THEN p + 1 ELSE TotalPages

Clickable(p) == Offered(p) \cup {Previous(p), Following(p)}

-----------------------------------------------------------------------------
(* Events                                                                  *)

MountEvents ==
  /\ phase = "off"
  /\ phase' = "mounting"
  /\ UNCHANGED <<page, stored, table, sentPages>>

\* refresh
Ask(p) ==
  /\ latest' = ServerPage(p)
  /\ overdue' = [q \in Pages |-> overdue[q] + IF q = latest THEN 1 ELSE 0]
  /\ missed' = FALSE

\* The effects of the first rendering, in their order: the first page is
\* asked for, the number stored becomes the page, and 1 is stored.
MountEffects ==
  /\ phase = "mounting"
  /\ Ask(1)
  /\ page' = stored
  /\ stored' = 1
  /\ phase' = IF page' = page THEN "idle" ELSE "changed"
  /\ UNCHANGED table

Click(p) ==
  /\ phase = "idle"
  /\ p # page
  /\ Cardinality(OverdueRequests) <= MaxOverdue
  /\ page' = p
  /\ phase' = "changed"
  /\ UNCHANGED <<stored, table, sentPages>>

\* Mutant of ChangeEffects: a number that is not there is stored as well.
ChangeEffectsStoreNull ==
  /\ phase = "changed"
  /\ Ask(page)
  /\ stored' = page
  /\ phase' = "idle"
  /\ UNCHANGED <<page, table>>

\* Mutant of ChangeEffects: refresh is an effect of the mounting only.
ChangeEffectsStoreOnly ==
  /\ phase = "changed"
  /\ stored' = IF page = Null THEN stored ELSE page
  /\ phase' = "idle"
  /\ UNCHANGED <<page, table, sentPages>>

\* The effects on [page]; null has no toString, and nothing is stored.
ChangeEffects ==
  /\ phase = "changed"
  /\ Ask(page)
  /\ stored' = IF page = Null THEN stored ELSE page
  /\ phase' = "idle"
  /\ UNCHANGED <<page, table>>

\* Whichever answer comes is shown.
AnswerLatest ==
  /\ latest # None
  /\ table' = EventsOf(latest)
  /\ latest' = None
  /\ UNCHANGED <<phase, page, stored, overdue, missed>>

AnswerOverdue(p) ==
  /\ overdue[p] > 0
  /\ table' = EventsOf(p)
  /\ overdue' = [overdue EXCEPT ![p] = @ - 1]
  /\ missed' = (missed \/ latest = None)
  /\ UNCHANGED <<phase, page, stored, latest>>

LoseLatest ==
  /\ latest # None
  /\ latest' = None
  /\ missed' = TRUE
  /\ UNCHANGED <<phase, page, stored, table, overdue>>

LoseOverdue(p) ==
  /\ overdue[p] > 0
  /\ overdue' = [overdue EXCEPT ![p] = @ - 1]
  /\ UNCHANGED <<phase, page, stored, table, latest, missed>>

\* The next instance begins with page 1 and an empty list.
UnmountEvents ==
  /\ phase # "off"
  /\ phase' = "off"
  /\ page' = 1
  /\ table' = {}
  /\ latest' = None
  /\ overdue' = NoneOverdue
  /\ missed' = FALSE
  /\ UNCHANGED stored

EventsAnswer == AnswerLatest \/ \E p \in Pages : AnswerOverdue(p)
EventsLose == LoseLatest \/ \E p \in Pages : LoseOverdue(p)
EventsEffects == MountEffects \/ ChangeEffects

EventsNext ==
  \/ MountEvents \/ UnmountEvents
  \/ EventsEffects \/ EventsAnswer \/ EventsLose
  \/ \E p \in Clickable(page) : Click(p)

EventsSpec == EventsInit /\ [][EventsNext]_eventsVars

-----------------------------------------------------------------------------
(* Properties                                                              *)

\* When the last request was answered, and no older answer has come since, the
\* events listed are those the line "showing a - b" counts, whatever was
\* clicked, answered and lost before; without a page number they are those of
\* the first page.  An older answer that comes after the last one does put
\* other events below the line.
TableMatchesLabel ==
  (phase = "idle" /\ latest = None /\ ~missed) =>
    IF page = Null THEN table = EventsOf(1)
    ELSE table = {no \in 0..(MaxEvents - 1) : no + 1 \in From(page)..To(page)}

\* A page that cannot be clicked on lies behind dots on its side, and the
\* pages before and after this one can.
PagerShowsGaps ==
  \A p \in Pages \ Offered(page) :
    /\ p < page - 1 \/ p > page + 1
    /\ p < page => DotsLeft(page)
    /\ p > page => DotsRight(page)

\* Once its effects have run, the page whose events are asked for is the one
\* to come back to; a browser begins without a page number only once.
PageRemembered == phase = "idle" => stored = ServerPage(page)
=============================================================================
