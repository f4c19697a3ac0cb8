---------------------------- MODULE WindowMenus ----------------------------
(***************************************************************************)
(* What the queries of hud-service search: the menus of the windows        *)
(* (WindowImpl, WindowContextImpl and their collectors), the window tokens *)
(* that index them (WindowTokenImpl), and the QueryImpl objects that hold  *)
(* the tokens.                                                             *)
(*                                                                         *)
(* A window token indexes the menus once, when it is made.  It lives while *)
(* a query holds it; windows and collectors keep weak pointers only.  A    *)
(* menu that changes tells the one collector token its collector made      *)
(* last, that tells its window token, which starts a timer of 0 ms, on     *)
(* which the queries connected to the token refresh: they ask the focused  *)
(* window for a token and search it.                                       *)
(*                                                                         *)
(* GMenu collectors make a new QMenu, and so a new collector token, each   *)
(* time they are activated; DBusMenu collectors reuse their token while it *)
(* lives and never report changes of their content.                        *)
(***************************************************************************)
EXTENDS Naturals, FiniteSets

CONSTANTS
  Applications,  \* the applications
  WindowIds,     \* their windows
  AppOf,         \* the application of each window
  Properties,    \* the properties of each window that are not empty
  AddressWindows,\* the windows the window stack knows a DBusMenu of
  Contexts,      \* context names
  Default,       \* the name a context starts with, ""
  Queries,       \* the queries there can be
  AppMenu,       \* a window's DBusMenu from the registrar, m_collector
  ActionMenu,    \* its DBusMenu from the window stack, m_am_collector
  None,          \* no window
  MaxMenus       \* bound on the menus the applications register

ASSUME WindowsAssumption ==
  /\ Properties \in [WindowIds -> SUBSET
       {"bus", "appMenu", "menubar", "application", "window", "unity"}]
  /\ AddressWindows \subseteq WindowIds
  /\ AppOf \in [WindowIds -> Applications]
  /\ None \notin WindowIds /\ WindowIds \cap Applications = {}
  /\ Default \in Contexts
  /\ IsFiniteSet(Queries)
  /\ MaxMenus \in Nat

\* The window contexts: one per window, and for each application the one its
\* windows share, which clients address as window id 0.
Scopes == WindowIds \cup Applications

\* The constructor of GMenuWindowCollector makes collectors: the window has a
\* name on the bus, a menu, and actions for it.  They are activated together
\* and stand here as one.
HasGMenus(w) ==
  /\ "bus" \in Properties[w]
  /\ Properties[w] \cap {"appMenu", "menubar", "unity"} # {}
  /\ Properties[w] \cap {"application", "window", "unity"} # {}

\* GMenu collectors, by number: those AddSources made, 0 is a null pointer.
Registered == 1..MaxMenus
\* A window's own GMenu collectors are named like the window.
Menus == Registered \cup {w \in WindowIds : HasGMenus(w)}
DBusMenus == {AppMenu, ActionMenu}

ASSUME MenusAssumption == Menus \cap DBusMenus = {} /\ 0 \notin WindowIds

\* Names for the window tokens; 0 is a null pointer.
Tokens == 1..(Cardinality(Queries) + 1)
Dead == [window |-> None, holds |-> {}, outdated |-> {}]

VARIABLES
  context,     \* m_context of each WindowContextImpl
  collectors,  \* its m_collectors
  active,      \* its m_activeCollector
  count,       \* how many menus have been registered
  appMenus,    \* windows whose DBusMenu the registrar has announced
  focus,       \* the focused window
  open,        \* the QueryImpl objects
  tokenOf,     \* their m_windowToken
  connected,   \* the tokens whose changed() each query is connected to
  tokens,      \* the window tokens: window, sources, sources changed since
  latest,      \* m_windowToken of each window (weak)
  hears,       \* the window token with the collector token a menu made last (weak)
  timers,      \* the tokens whose m_timer runs
  todo         \* the queries the signal being emitted has yet to refresh

contextVars == <<context, collectors, active, count, appMenus>>
tokenVars == <<tokenOf, connected, tokens, latest, hears, timers>>
vars == <<contextVars, focus, open, tokenVars, todo>>

\* The constructor of DBusMenuWindowCollector asks the registrar, which may
\* know the window's menu already.
ConstructDBusMenus == appMenus \in SUBSET WindowIds

Init ==
  /\ context = [s \in Scopes |-> Default]
  /\ collectors = [s \in Scopes |-> [c \in Contexts |-> 0]]
  /\ active = [s \in Scopes |-> 0]
  /\ count = 0
  /\ ConstructDBusMenus
  /\ focus = None
  /\ open = {}
  /\ tokenOf = [q \in Queries |-> 0]
  /\ connected = [q \in Queries |-> {}]
  /\ tokens = [t \in Tokens |-> Dead]
  /\ latest = [w \in WindowIds |-> 0]
  /\ hears = [m \in Menus |-> 0]
  /\ timers = {}
  /\ todo = {}

\* Between two events of the event loop: no signal is being emitted.
Idle == todo = {}

-----------------------------------------------------------------------------
(* Tokens.                                                                 *)

\* activate of the window's DBusMenuWindowCollector, and of its
\* GMenuWindowCollector.
DBusSources(w) ==
  {m \in DBusMenus : w \in IF m = AppMenu THEN appMenus ELSE AddressWindows}
GMenuSources(w) == {w} \cap Menus

ActiveCollectors(w) == {active[w], active[AppOf[w]]} \ {0}

\* What WindowImpl::activate activates: the collectors that are there.
Sources(w) == DBusSources(w) \cup GMenuSources(w) \cup ActiveCollectors(w)

\* Activating the sources yields the tokens the window's token has already,
\* which no GMenu collector ever does.
Reusable(w) ==
  /\ latest[w] # 0
  /\ Sources(w) \subseteq DBusMenus
  /\ tokens[latest[w]].holds = Sources(w)

\* The constructor of WindowTokenImpl: the menus are indexed as they are now.
Token(w) == [window |-> w, holds |-> Sources(w), outdated |-> {}]

\* The tokens are toks, the weak pointers lat and hrs, after queries came to
\* hold tokens as in of: what nobody holds is deleted with its connections and
\* its timer, and weak pointers to it are null.
HoldTokens(of, conn, toks, lat, hrs) ==
  LET held == {of[q] : q \in Queries} \ {0} IN
  /\ tokenOf' = of
  /\ connected' = [q \in Queries |-> conn[q] \cap held]
  /\ tokens' = [t \in Tokens |-> IF t \in held THEN toks[t] ELSE Dead]
  /\ latest' = [w \in WindowIds |-> IF lat[w] \in held THEN lat[w] ELSE 0]
  /\ hears' = [m \in Menus |-> IF hrs[m] \in held THEN hrs[m] ELSE 0]
  /\ timers' = timers \cap held

\* updateToken: the query takes and connects to the token t.
UpdateToken(q, t, toks, lat, hrs) ==
  HoldTokens([tokenOf EXCEPT ![q] = t], [connected EXCEPT ![q] = @ \cup {t}],
             toks, lat, hrs)

SameToken(q, w) ==
  /\ Reusable(w)
  /\ UpdateToken(q, latest[w], tokens, latest, hears)

\* Mutation of NewToken: the collectors do not remember the tokens they make.
ForgottenToken(q, w) ==
  LET t == CHOOSE n \in Tokens : \A r \in Queries : tokenOf[r] # n IN
  /\ ~Reusable(w)
  /\ UpdateToken(q, t, [tokens EXCEPT ![t] = Token(w)],
                 [latest EXCEPT ![w] = t], hears)

NewToken(q, w) ==
  LET t == CHOOSE n \in Tokens : \A r \in Queries : tokenOf[r] # n IN
  /\ ~Reusable(w)
  /\ UpdateToken(q, t, [tokens EXCEPT ![t] = Token(w)], [latest EXCEPT ![w] = t],
       [m \in Menus |-> IF m \in Sources(w) THEN t ELSE hears[m]])

\* Mutation of Refresh: a query that holds a token keeps it.
RefreshOnce(q) ==
  /\ q \in todo
  /\ todo' = todo \ {q}
  /\ IF focus = None \/ tokenOf[q] # 0
     THEN UNCHANGED tokenVars
     ELSE SameToken(q, focus) \/ NewToken(q, focus)
  /\ UNCHANGED <<contextVars, focus, open>>

\* QueryImpl::refresh of one of the queries a signal reaches.  They refresh one
\* after the other, in the order they connected, which is left open here.
Refresh(q) ==
  /\ q \in todo
  /\ todo' = todo \ {q}
  /\ IF focus = None THEN UNCHANGED tokenVars
                     ELSE SameToken(q, focus) \/ NewToken(q, focus)
  /\ UNCHANGED <<contextVars, focus, open>>

-----------------------------------------------------------------------------
(* The queries.                                                            *)

OpenQuery(q) ==
  /\ Idle
  /\ q \notin open
  /\ open' = open \cup {q}
  /\ todo' = {q}
  /\ UNCHANGED <<contextVars, focus, tokenVars>>

\* UpdateQuery with a new text, or VoiceQuery.
UpdateQuery(q) ==
  /\ Idle
  /\ q \in open
  /\ todo' = {q}
  /\ UNCHANGED <<contextVars, focus, open, tokenVars>>

CloseQuery(q) ==
  /\ Idle
  /\ q \in open
  /\ open' = open \ {q}
  /\ HoldTokens([tokenOf EXCEPT ![q] = 0], [connected EXCEPT ![q] = {}],
                tokens, latest, hears)
  /\ UNCHANGED <<contextVars, focus, todo>>

\* setFocusedWindow of the application list: every query refreshes.
SetFocusedWindow(w) ==
  /\ Idle
  /\ focus' = w
  /\ todo' = open
  /\ UNCHANGED <<contextVars, open, tokenVars>>

-----------------------------------------------------------------------------
(* The menus.                                                              *)

\* childChanged of the window tokens in T: their timers start again.
ChildChanged(T) ==
  /\ timers' = timers \cup T
  /\ UNCHANGED <<tokenOf, connected, latest, hears>>

\* Mutation of Listening: tokens do not listen to the context of all windows.
ListeningToWindow(s) == {t \in Tokens : tokens[t] # Dead /\ tokens[t].window = s}

\* contextChanged of a window's context and of its application's reach its tokens.
Listening(s) ==
  {t \in Tokens : tokens[t] # Dead /\ s \in {tokens[t].window, AppOf[tokens[t].window]}}

\* SetWindowContext on a window the application has.
SetWindowContext(s, c) ==
  /\ Idle
  /\ context[s] # c
  /\ context' = [context EXCEPT ![s] = c]
  /\ active' = [active EXCEPT ![s] = collectors[s][c]]
  /\ ChildChanged(Listening(s))
  /\ UNCHANGED <<collectors, count, appMenus, focus, open, tokens, todo>>

\* The collector m takes its place under its context; the active one stays.
AddMenu(s, c, m) == collectors' = [collectors EXCEPT ![s][c] = m]

\* AddSources, for one window and context: a new collector, or one that is not
\* valid, for the lack of a menu path, and is passed over like a null one.
AddSources(s, c) ==
  /\ Idle
  /\ count < MaxMenus
  /\ count' = count + 1
  /\ \E m \in {0, count'} : AddMenu(s, c, m)
  /\ UNCHANGED <<context, active, appMenus, focus, open, tokenVars, todo>>

\* The registrar announces the menu of a window that had none.
WindowRegistered(w) ==
  /\ Idle
  /\ w \notin appMenus
  /\ appMenus' = appMenus \cup {w}
  /\ UNCHANGED <<context, collectors, active, count, focus, open, tokenVars, todo>>

\* The collectors there are: a context keeps those registered and the active one.
Collectors ==
  (Menus \cap WindowIds) \cup {active[s] : s \in Scopes}
    \cup {collectors[s][c] : s \in Scopes, c \in Contexts}

\* Mutation of MenuItemsChanged: the weak pointer is used without a check.
ChangedWithoutCheck(m) ==
  /\ Idle
  /\ m \in Collectors
  /\ ChildChanged({hears[m]})
  /\ UNCHANGED <<contextVars, focus, open, tokens, todo>>

\* The items of a GMenu change.
MenuItemsChanged(m) ==
  /\ Idle
  /\ m \in Collectors
  /\ tokens' = [t \in Tokens |->
                  IF m \in tokens[t].holds
                  THEN [tokens[t] EXCEPT !.outdated = @ \cup {m}] ELSE tokens[t]]
  /\ ChildChanged(IF hears[m] = 0 THEN {} ELSE {hears[m]})
  /\ UNCHANGED <<contextVars, focus, open, todo>>

\* A window token's timer: changed() refreshes the queries connected to it; when the
\* last that holds it lets it go, it is deleted, and the others are left out.
Timeout(t) ==
  /\ Idle
  /\ t \in timers
  /\ timers' = timers \ {t}
  /\ \E told \in SUBSET {q \in open : t \in connected[q]} :
       {q \in open : tokenOf[q] = t} \subseteq told /\ todo' = told
  /\ UNCHANGED <<contextVars, focus, open, tokenOf, connected, tokens, latest, hears>>

-----------------------------------------------------------------------------
QueryStep ==
  \E q \in Queries : OpenQuery(q) \/ UpdateQuery(q) \/ CloseQuery(q) \/ Refresh(q)

MenuStep ==
  \/ \E s \in Scopes, c \in Contexts : SetWindowContext(s, c) \/ AddSources(s, c)
  \/ \E w \in WindowIds : WindowRegistered(w)
  \/ \E m \in Menus : MenuItemsChanged(m)
  \/ \E t \in Tokens : Timeout(t)

Next ==
  \/ QueryStep
  \/ MenuStep
  \/ \E w \in WindowIds \cup {None} : SetFocusedWindow(w)

Spec == Init /\ [][Next]_vars

\* A signal reaches all its receivers, and the event loop serves every timer
\* that has expired, however many messages it handles in between.
Fairness ==
  /\ WF_vars(\E q \in Queries : Refresh(q))
  /\ \A t \in Tokens : SF_vars(Timeout(t))

FairSpec == Spec /\ Fairness

-----------------------------------------------------------------------------
WindowTokens ==
  [window : WindowIds \cup {None}, holds : SUBSET (Menus \cup DBusMenus), outdated : SUBSET Menus]

TypeOK ==
  /\ context \in [Scopes -> Contexts]
  /\ collectors \in [Scopes -> [Contexts -> {0} \cup Registered]]
  /\ active \in [Scopes -> {0} \cup Registered]
  /\ count \in 0..MaxMenus
  /\ appMenus \subseteq WindowIds
  /\ focus \in WindowIds \cup {None}
  /\ open \subseteq Queries
  /\ tokenOf \in [Queries -> {0} \cup Tokens]
  /\ connected \in [Queries -> SUBSET Tokens]
  /\ tokens \in [Tokens -> WindowTokens]
  /\ \A t \in Tokens : tokens[t].outdated \subseteq tokens[t].holds
  /\ latest \in [WindowIds -> {0} \cup Tokens]
  /\ hears \in [Menus -> {0} \cup Tokens]
  /\ timers \subseteq Tokens
  /\ todo \subseteq open

\* Between two events every open query holds a token of the focused window, if
\* one has the focus: its results, its toolbar items and its ExecuteCommand are
\* never those of a window the user has left.
QueriesActOnTheFocusedWindow ==
  Idle /\ focus # None =>
    \A q \in open : tokenOf[q] # 0 /\ tokens[tokenOf[q]].window = focus

\* When nothing is under way, the focused window's last token, if a query holds
\* it, indexes the contents the GMenus have now and the contexts that are active
\* now, and is the one that hears of their next change; the QMenus its items
\* point into are the ones the collectors keep (Item::m_root is a raw pointer).
QuietLatestTokenIsCurrent ==
  focus # None /\ latest[focus] \notin timers \cup {0} /\ Idle =>
    LET t == latest[focus] IN
    /\ tokens[t].outdated = {}
    /\ tokens[t].holds \ DBusMenus = Sources(focus) \ DBusMenus
    /\ \A m \in tokens[t].holds \ DBusMenus : hears[m] = t

\* "If the source changes, it resubmits the search" (docs/devel/hud-overview):
\* a query whose token indexed an older state of a menu gets another token.
ChangedMenusGetSearched ==
  \A q \in Queries :
    (focus # None /\ tokenOf[q] # 0 /\ tokens[tokenOf[q]].outdated # {})
      ~> (focus = None \/ tokenOf[q] = 0 \/ tokens[tokenOf[q]].outdated = {})
=============================================================================
