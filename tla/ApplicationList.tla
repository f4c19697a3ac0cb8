--------------------------- MODULE ApplicationList ---------------------------
(***************************************************************************)
(* The application list of hud-service: ApplicationListImpl, the window    *)
(* maps of the ApplicationImpl objects it owns, and the part of an open    *)
(* QueryImpl that looks at them.                                           *)
(*                                                                         *)
(* The service keeps one Application object per application id, each with  *)
(* a QMap from window id to Window object, and a pair (focused             *)
(* application, focused window id).  QMap::operator[] inserts a null value *)
(* for a key it does not find, so looking a window up is not a pure read:  *)
(* the keys of the map and the keys that hold a Window object differ.      *)
(*                                                                         *)
(* The module is open: the window stack may report any window of any       *)
(* application in any order, and the clients of the D-Bus API may name any *)
(* window id.  WindowTracking closes it with the bridge to BAMF.           *)
(***************************************************************************)
EXTENDS FiniteSets

CONSTANTS
  AppIds,      \* the application ids that can occur
  IgnoredIds,  \* IGNORED_APPLICATION_IDS: "", compiz, hud-gui, unknown
  WindowIds,   \* X window ids, 0 excluded
  None         \* a null Application::Ptr, or window id 0

ASSUME NoneIsNoId == None \notin AppIds \cup WindowIds

Applications == AppIds \ IgnoredIds

VARIABLES
  subscription,        \* "constructing", "connected", or "deaf" after an error
  applications,        \* keys of m_applications that hold an object
  keys,                \* keys[a]: the keys of a's m_windows
  live,                \* live[a]: those whose value is a Window object
  focusedApplication,  \* m_focusedApplication
  focusedWindowId,     \* m_focusedWindowId
  queryOpen,           \* a QueryImpl exists and is connected to focusedWindowChanged
  appstack,            \* the application that query's appstack model shows
  reported             \* history: reported[a], a's windows announced and not destroyed

listVars == <<applications, keys, live, focusedApplication, focusedWindowId>>
queryVars == <<queryOpen, appstack>>
vars == <<subscription, listVars, queryVars, reported>>

-----------------------------------------------------------------------------
(* The reads and the bookkeeping the handlers share.                       *)

\* focusedWindow() asks the focused application for the focused id, and
\* QMap::operator[] enters that id in its map when it is not there.
KeysAfterLookup(k, a, w) ==
  IF a = None \/ w = None THEN k ELSE [k EXCEPT ![a] = @ \cup {w}]

\* QueryImpl::refresh, as far as this module sees it: look the focused window
\* up (in the maps k), show the focused application.
Refresh(k, a, w) ==
  /\ keys' = KeysAfterLookup(k, a, w)
  /\ appstack' = a
  /\ UNCHANGED queryOpen

\* Mutation of SetFocusedWindow: the signal is emitted before the assignments.
SignalBeforeFocus(k, a, w) ==
  /\ focusedApplication' = a
  /\ focusedWindowId' = w
  /\ IF queryOpen THEN Refresh(k, focusedApplication, focusedWindowId)
                  ELSE keys' = k /\ UNCHANGED queryVars

\* setFocusedWindow: every open query refreshes within the emission.
SetFocusedWindow(k, a, w) ==
  /\ focusedApplication' = a
  /\ focusedWindowId' = w
  /\ IF queryOpen THEN Refresh(k, a, w)
                  ELSE keys' = k /\ UNCHANGED queryVars

Init ==
  /\ subscription = "constructing"
  /\ applications = {}
  /\ keys = [a \in Applications |-> {}]
  /\ live = [a \in Applications |-> {}]
  /\ focusedApplication = None
  /\ focusedWindowId = None
  /\ queryOpen = FALSE
  /\ appstack = None
  /\ reported = [a \in Applications |-> {}]

-----------------------------------------------------------------------------
(* The constructor.  stack maps the windows of the GetWindowStack reply to *)
(* their applications, focus is the one marked focused, if any.            *)

Construct(stack, focus) ==
  LET Of(a) == {w \in DOMAIN stack : stack[w] = a} IN
  /\ subscription = "constructing"
  /\ subscription' = "connected"
  /\ live' = [a \in Applications |-> Of(a)]
  /\ keys' = live'
  /\ applications' = {a \in Applications : Of(a) # {}}
  /\ reported' = live'
  /\ IF focus # None /\ stack[focus] \in Applications
     THEN focusedApplication' = stack[focus] /\ focusedWindowId' = focus
     ELSE UNCHANGED <<focusedApplication, focusedWindowId>>
  /\ UNCHANGED queryVars   \* no query exists before the list does

\* The call of GetWindowStack could not even be sent: the constructor returns
\* before it connects to any signal.  (isError() does not wait for the reply; an
\* error that arrives later makes the list of windows empty.)
ConstructError ==
  /\ subscription = "constructing"
  /\ subscription' = "deaf"
  /\ UNCHANGED <<listVars, queryVars, reported>>

-----------------------------------------------------------------------------
(* The signals of the window stack.                                        *)

\* Mutation of WindowCreated: only windows of listed applications are added.
CreatedInListedOnly(w, a) ==
  /\ subscription = "connected"
  /\ reported' = IF a \in Applications THEN [reported EXCEPT ![a] = @ \cup {w}]
                                        ELSE reported
  /\ keys' = IF a \in applications THEN [keys EXCEPT ![a] = @ \cup {w}] ELSE keys
  /\ live' = IF a \in applications THEN [live EXCEPT ![a] = @ \cup {w}] ELSE live
  /\ UNCHANGED <<subscription, applications, focusedApplication, focusedWindowId, queryVars>>

WindowCreated(w, a) ==
  /\ subscription = "connected"
  /\ IF a \in Applications
     THEN /\ applications' = applications \cup {a}
          /\ keys' = [keys EXCEPT ![a] = @ \cup {w}]
             \* an id the map already holds keeps its value, null included
          /\ live' = [live EXCEPT ![a] = IF w \in keys[a] THEN @ ELSE @ \cup {w}]
          /\ reported' = [reported EXCEPT ![a] = @ \cup {w}]
     ELSE UNCHANGED <<applications, keys, live, reported>>
  /\ UNCHANGED <<subscription, focusedApplication, focusedWindowId, queryVars>>

\* Mutation of RemoveWindow: isEmpty() counts the Window objects.
EmptyWithoutObjects(w, a) ==
  LET rest == [keys EXCEPT ![a] = IF live[a] \subseteq {w} THEN {} ELSE @ \ {w}] IN
  /\ live' = [live EXCEPT ![a] = @ \ {w}]
  /\ applications' = IF rest[a] = {} THEN applications \ {a} ELSE applications
  /\ IF rest[a] = {} /\ a = focusedApplication
     THEN SetFocusedWindow(rest, None, None)
     ELSE keys' = rest /\ UNCHANGED <<focusedApplication, focusedWindowId, queryVars>>

\* removeWindow, for an application that is listed.
RemoveWindow(w, a) ==
  LET rest == [keys EXCEPT ![a] = @ \ {w}] IN
  /\ live' = [live EXCEPT ![a] = @ \ {w}]
  /\ applications' = IF rest[a] = {} THEN applications \ {a} ELSE applications
  /\ IF rest[a] = {} /\ a = focusedApplication
     THEN SetFocusedWindow(rest, None, None)
     ELSE keys' = rest /\ UNCHANGED <<focusedApplication, focusedWindowId, queryVars>>

WindowDestroyed(w, a) ==
  /\ subscription = "connected"
  /\ IF a \in applications THEN RemoveWindow(w, a)
                           ELSE UNCHANGED <<listVars, queryVars>>
  /\ reported' = IF a \in Applications THEN [reported EXCEPT ![a] = @ \ {w}]
                                        ELSE reported
  /\ UNCHANGED subscription

\* Mutation of FocusedWindowChanged: the window is added when it is not known.
FocusAddsWindow(w, a) ==
  /\ subscription = "connected" /\ a \in Applications
  /\ applications' = applications \cup {a}
  /\ live' = [live EXCEPT ![a] = IF w \in keys[a] THEN @ ELSE @ \cup {w}]
  /\ SetFocusedWindow([keys EXCEPT ![a] = @ \cup {w}], a, w)
  /\ UNCHANGED <<subscription, reported>>

\* Mutation of FocusedWindowChanged: the application need not be listed.
FocusAnyApplication(w, a) ==
  /\ subscription = "connected" /\ a \in Applications
  /\ SetFocusedWindow(keys, a, w)
  /\ UNCHANGED <<subscription, applications, live, reported>>

\* Mutation of FocusedWindowChanged: returns when the application is the same.
FocusOtherApplicationOnly(w, a) ==
  /\ subscription = "connected"
  /\ IF a \in applications \ {focusedApplication}
     THEN SetFocusedWindow(keys, a, w)
     ELSE UNCHANGED <<keys, focusedApplication, focusedWindowId, queryVars>>
  /\ UNCHANGED <<subscription, applications, live, reported>>

\* An application that is not listed yields a null pointer and a stale id.
FocusedWindowChanged(w, a) ==
  /\ subscription = "connected"
  /\ IF a \in Applications
     THEN SetFocusedWindow(keys, IF a \in applications THEN a ELSE None, w)
     ELSE UNCHANGED <<keys, focusedApplication, focusedWindowId, queryVars>>
  /\ UNCHANGED <<subscription, applications, live, reported>>

-----------------------------------------------------------------------------
(* The calls of the service's clients.                                     *)

\* Mutation of RegisterApplication: it does not ask isIgnored().
RegisterIgnoredToo(a) ==
  /\ subscription # "constructing"
  /\ applications' = applications \cup {a}
  /\ UNCHANGED <<subscription, keys, live, focusedApplication, focusedWindowId,
                 queryVars, reported>>

\* RegisterApplication; an ignored id is answered with an error.
RegisterApplication(a) ==
  /\ subscription # "constructing"
  /\ a \in Applications
  /\ applications' = applications \cup {a}
  /\ UNCHANGED <<subscription, keys, live, focusedApplication, focusedWindowId,
                 queryVars, reported>>

\* AddSources and SetWindowContext look their window up by operator[] too.
LookupWindowContext(a, w) ==
  /\ a \in applications
  /\ keys' = KeysAfterLookup(keys, a, w)
  /\ UNCHANGED <<subscription, applications, live, focusedApplication,
                 focusedWindowId, queryVars, reported>>

OpenQuery ==
  /\ subscription # "constructing"
  /\ ~queryOpen
  /\ queryOpen' = TRUE
  /\ appstack' = focusedApplication
  /\ keys' = KeysAfterLookup(keys, focusedApplication, focusedWindowId)
  /\ UNCHANGED <<subscription, applications, live, focusedApplication,
                 focusedWindowId, reported>>

\* UpdateQuery with a new text, VoiceQuery, a changed window token.
RefreshQuery ==
  /\ queryOpen
  /\ Refresh(keys, focusedApplication, focusedWindowId)
  /\ UNCHANGED <<subscription, applications, live, focusedApplication,
                 focusedWindowId, reported>>

CloseQuery ==
  /\ queryOpen
  /\ queryOpen' = FALSE
  /\ appstack' = None
  /\ UNCHANGED <<subscription, listVars, reported>>

-----------------------------------------------------------------------------
StackReplies == UNION {[W -> AppIds] : W \in SUBSET WindowIds}

StackSignal ==
  \E w \in WindowIds, a \in AppIds :
    WindowCreated(w, a) \/ WindowDestroyed(w, a) \/ FocusedWindowChanged(w, a)

ClientCall ==
  \/ \E a \in AppIds : RegisterApplication(a)
  \/ \E a \in Applications, w \in WindowIds : LookupWindowContext(a, w)
  \/ OpenQuery \/ RefreshQuery \/ CloseQuery

Next ==
  \/ \E stack \in StackReplies : \E focus \in DOMAIN stack \cup {None} :
       Construct(stack, focus)
  \/ ConstructError
  \/ StackSignal
  \/ ClientCall

Spec == Init /\ [][Next]_vars

-----------------------------------------------------------------------------
TypeOK ==
  /\ subscription \in {"constructing", "connected", "deaf"}
  /\ applications \subseteq Applications
  /\ keys \in [Applications -> SUBSET WindowIds]
  /\ live \in [Applications -> SUBSET WindowIds]
  /\ focusedApplication \in Applications \cup {None}
  /\ focusedWindowId \in WindowIds \cup {None}
  /\ queryOpen \in BOOLEAN
  /\ appstack \in Applications \cup {None}
  /\ reported \in [Applications -> SUBSET WindowIds]

\* The focused application is always one of the listed ones: no order of window
\* reports, registrations and lookups leaves m_focusedApplication holding an
\* Application that removeWindow has already dropped from m_applications.
FocusedApplicationIsListed ==
  focusedApplication # None => focusedApplication \in applications

\* A window the stack announced and has not destroyed keeps its application in
\* the list, and its id in the application's map: removing other windows, or
\* destroying windows of other applications, never closes an application that
\* still has one (ApplicationListImpl::removeWindow with isEmpty).
ReportedWindowsAreTracked ==
  \A a \in Applications :
    reported[a] # {} => a \in applications /\ reported[a] \subseteq keys[a]

\* A Window object exists only for a window that is announced at the moment:
\* neither a lookup of an unknown id nor a focus change creates one, and none
\* outlives WindowDestroyed (its collectors would keep talking to a dead window).
WindowObjectsAreReported ==
  \A a \in Applications : live[a] \subseteq reported[a]

\* Reports, the application's map and its Window objects go together.
WindowsMatchTheReports == ReportedWindowsAreTracked /\ WindowObjectsAreReported

\* Whatever the query shows as the focused application is the focused
\* application: every path that changes m_focusedApplication, closing it
\* included, tells the open queries.
AppstackShowsFocusedApplication ==
  queryOpen => appstack = focusedApplication


=============================================================================
