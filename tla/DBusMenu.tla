------------------------------ MODULE DBusMenu ------------------------------
(***************************************************************************)
(* DBusMenuCollector of hud-service: a DBusMenu is filled in by the        *)
(* application as it is shown, so the collector shows all of it before it  *)
(* makes the token it is indexed by, and hides it again when that token    *)
(* goes.  Both are recursions over the menus; a safety valve, shared by    *)
(* all levels, ends one that meets too many menus with an exception that   *)
(* only the log hears of.                                                  *)
(*                                                                         *)
(* A recursion is modelled by its calls: each step is a call or a return.  *)
(* The application changes its menus between the walks, and the menu that  *)
(* is about to be shown during one: the importer is a synchronous one.     *)
(* The order of the actions in a menu is left open.                        *)
(***************************************************************************)
EXTENDS Integers, FiniteSets

CONSTANTS
  Valve,     \* the safety valve, 50 in the code
  MaxDBus    \* bound on the menus of a tree

ASSUME DBusMenuAssumption == Valve \in Nat \ {0} /\ MaxDBus \in Nat \ {0}

\* A submenu has a greater number than the menu it is in.
Menu == 1..MaxDBus
Root == 1
Caller == 0   \* in place of a menu: activate or deactivate, which call for the root

VARIABLES
  parent,    \* the menu each menu is in; the same in all of a behaviour
  listed,    \* the menus there are now
  enabled,   \* those whose action is enabled, and the root
  shown,     \* the menus the application has been told to show, and not to hide
  token,     \* whether the collector's token is alive
  walk,      \* "open" while openMenu runs, "hide" while hideMenu does, or "none"
  menu,      \* the menu of the innermost call
  calls,     \* the menus of all calls that have not returned
  returned,  \* the menus of the calls that have
  limit      \* what is, or was at last, left of the valve

application == <<listed, enabled, shown>>
stack == <<menu, calls, returned>>
collectorVars == <<parent, application, token, walk, stack, limit>>

Parents ==
  {p \in [Menu -> 0..MaxDBus] : \A m \in Menu : p[m] < m /\ (m # Root => p[m] # Caller)}

Layouts == {s \in SUBSET Menu : Root \in s /\ \A m \in s \ {Root} : parent[m] \in s}

Enabled(s) == {e \in SUBSET s : Root \in e}

CollectorInit ==
  /\ parent \in Parents /\ listed \in Layouts /\ enabled \in Enabled(listed)
  /\ shown = {} /\ token = FALSE
  /\ walk = "none" /\ menu = Caller /\ calls = {} /\ returned = {} /\ limit = Valve

-----------------------------------------------------------------------------
\* The menus of the actions openMenu or hideMenu loops over, and those whose turn
\* is still to come.
Submenus == {m \in listed : parent[m] = menu}
\* Mutation of ToOpen: the loop ends at a disabled action instead of going on.
ToOpenUntilDisabled == IF Submenus \subseteq enabled THEN Submenus \ returned ELSE {}
ToOpen == (Submenus \cap enabled) \ returned
\* Mutation of ToHide: like openMenu it passes disabled actions over.
ToHideEnabled == (Submenus \cap enabled) \ returned
ToHide == Submenus \ returned

\* Mutation of Begin: the valve keeps what the walk before has left of it.
BeginWithTheLimitLeft(kind) ==
  /\ walk = "none" /\ walk' = kind
  /\ limit' = IF limit = 0 THEN Valve ELSE limit
  /\ UNCHANGED <<parent, application, stack>>

Begin(kind) ==
  /\ walk = "none" /\ walk' = kind
  /\ limit' = Valve
  /\ UNCHANGED <<parent, application, stack>>

End(kind) ==
  /\ walk = kind /\ walk' = "none"
  /\ menu' = Caller /\ calls' = {} /\ returned' = {}
  /\ UNCHANGED <<parent, listed, enabled, shown>>

Call(m) ==
  /\ menu' = m
  /\ calls' = calls \cup {m}
  /\ UNCHANGED <<parent, token, walk, returned>>

Return ==
  /\ menu # Caller /\ menu' = parent[menu]
  /\ calls' = calls \ {menu}
  /\ returned' = returned \cup {menu}
  /\ UNCHANGED <<parent, listed, enabled, token, walk, limit>>

\* aboutToShow: the application may fill the menu in, which leaves the menus
\* as they are that are not below it.
AboutToShow(m) ==
  \E s \in Layouts : \E e \in Enabled(s) :
    /\ \A k \in Menu \ {Root} : parent[k] \in (listed \cap s) \ {m} =>
         (k \in s <=> k \in listed) /\ (k \in e <=> k \in enabled)
    /\ listed' = s /\ enabled' = e
    /\ shown' = (shown \cap s) \cup {m}

-----------------------------------------------------------------------------
\* activate: with the token alive there is nothing to do.
Activate == ~token /\ Begin("open") /\ UNCHANGED token

\* Once openMenu has returned, or its exception has been caught, the token is made.
MakeToken == End("open") /\ token' = TRUE

\* Mutation of OpenMenu: without the valve.
OpenMenuWithoutValve(m) ==
  /\ walk = "open" /\ m \in ToOpen
  /\ limit' = limit - 1
  /\ AboutToShow(m) /\ Call(m)

OpenMenu(m) ==
  /\ walk = "open" /\ m \in ToOpen
  /\ limit' = limit - 1
  /\ \/ limit' = 0 /\ MakeToken
     \/ limit' # 0 /\ AboutToShow(m) /\ Call(m)

OpenMenuReturns ==
  /\ walk = "open" /\ ToOpen = {}
  /\ Return
  /\ UNCHANGED shown

Activated == menu = Caller /\ Root \in returned /\ MakeToken /\ UNCHANGED limit

\* The token's destructor calls deactivate.
Deactivate == token /\ Begin("hide") /\ token' = FALSE

\* Mutation of HideMenu: it tells the application before it turns to the submenus.
HideMenuFirst(m) ==
  /\ walk = "hide" /\ m \in ToHide
  /\ limit' = limit - 1
  /\ \/ limit' = 0 /\ End("hide") /\ UNCHANGED token
     \/ limit' # 0 /\ Call(m) /\ shown' = shown \ {m} /\ UNCHANGED <<listed, enabled>>

HideMenu(m) ==
  /\ walk = "hide" /\ m \in ToHide
  /\ limit' = limit - 1
  /\ \/ limit' = 0 /\ End("hide") /\ UNCHANGED token
     \/ limit' # 0 /\ Call(m) /\ UNCHANGED application

\* aboutToHide comes after all submenus.
HideMenuReturns ==
  /\ walk = "hide" /\ ToHide = {}
  /\ Return
  /\ shown' = shown \ {menu}

Deactivated ==
  menu = Caller /\ Root \in returned /\ End("hide") /\ UNCHANGED <<token, limit>>

\* Between the walks the application changes its menus as it likes; a menu that
\* is removed is not shown any more.
ChangeMenus ==
  /\ walk = "none"
  /\ listed' \in Layouts /\ enabled' \in Enabled(listed')
  /\ shown' = shown \cap listed'
  /\ UNCHANGED <<parent, token, walk, stack, limit>>

CollectorNext ==
  \/ Activate \/ OpenMenuReturns \/ Activated
  \/ Deactivate \/ HideMenuReturns \/ Deactivated
  \/ \E m \in Menu : OpenMenu(m) \/ HideMenu(m)
  \/ ChangeMenus

CollectorSpec == CollectorInit /\ [][CollectorNext]_collectorVars

-----------------------------------------------------------------------------
CollectorTypeOK ==
  /\ parent \in Parents /\ listed \in Layouts /\ enabled \in Enabled(listed)
  /\ shown \subseteq listed /\ token \in BOOLEAN
  /\ walk \in {"none", "open", "hide"}
  /\ menu \in Menu \cup {Caller} /\ calls \subseteq listed /\ returned \subseteq listed
  /\ limit \in 0..Valve /\ (walk # "none" => limit # 0)

\* The application is never asked to show a submenu of a menu that is not shown,
\* or to hide a menu before its submenus, even by walks that the valve stops.
OpenMenusNest == \A m \in shown \ {Root} : parent[m] \in shown

\* Once the token has gone all menus that were shown are hidden again, whatever
\* the application has enabled, disabled, added or removed since, unless the
\* valve has stopped hideMenu; until then those that are shown hang together.
OpenedMenusGetHidden ==
  /\ walk = "none" /\ ~token /\ limit # 0 => shown = {}
  /\ OpenMenusNest

\* When openMenu returns from the root, the root is shown, and so is every enabled
\* submenu, as the application has filled it in, of a menu that was walked through.
MenusOpenInFull ==
  walk = "open" /\ Root \in returned =>
    \A m \in listed \cap enabled : parent[m] \in returned \cup {Caller} => m \in returned \cap shown

\* The valve stops no walk over fewer menus than it allows: it starts anew with
\* every walk, and no menu counts twice.
ValveStopsOnlyLargeMenus ==
  [][limit # 0 /\ limit' = 0 => Cardinality(listed) >= Valve]_collectorVars
=============================================================================
