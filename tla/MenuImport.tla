------------------------------ MODULE MenuImport ------------------------------
(***************************************************************************)
(* How hud-service mirrors the menu an application publishes: libqtgmenu's *)
(* QtGMenuImporter, with its QtGMenuModel of one level of the menu and its *)
(* QtGActionGroup, over GLib's proxies of the menu and of the actions.     *)
(*                                                                         *)
(* A QtGMenuModel copies at most Max items into a QMenu, and keeps in      *)
(* m_size the number it thinks it has.  A proxy is shared: an importer     *)
(* that is made while another has the menu finds it loaded.                *)
(***************************************************************************)
EXTENDS ActionPublisher

CONSTANT
  Max   \* MAX_NUM_CHILDREN

ASSUME MaxAssumption == Max \in Nat

VARIABLES
  importer,  \* "none", "made", "invalid" after MenuInvalid, "left" by the application
             \* on the quiet, "gone" with it
  proxy,     \* the items of the GDBusMenuModel
  size,      \* m_size
  menu,      \* the actions of m_menu: the items they were made from, whether enabled
  children,  \* the positions of m_children
  group,     \* the GDBusActionGroup: a state for each action it has
  cut,       \* history: the limit has kept an item out of the menu
  untold     \* history: actions whose state the menu was not told

importVars == <<importer, size, menu, children, cut>>
allVars == <<vars, importVars, proxy, group, untold>>

States == {"missing", "enabled", "disabled"}

ImportInit ==
  /\ Init
  /\ importer = "none" /\ proxy = <<>>
  /\ size = 0 /\ menu = <<>> /\ children = {}
  /\ group = [n \in Names |-> "missing"]
  /\ cut = FALSE /\ untold = {}

Lower(m, n) == IF m < n THEN m ELSE n

NameOfItem(item) == NameOf[item.id]

\* The items of the menu's actions.
Shown == [i \in DOMAIN menu |-> menu[i].item]

Entries(items) == [i \in DOMAIN items |-> [item |-> items[i], enabled |-> TRUE]]

\* EmitStates, heard by the actions of the menu m.
WithStates(m) ==
  [i \in DOMAIN m |->
     LET state == group[NameOfItem(m[i].item)] IN
     IF state = "missing" THEN m[i] ELSE [m[i] EXCEPT !.enabled = (state = "enabled")]]

\* ActionEnabled(name, on), heard by the menu's actions of that name.
WithState(name, on) ==
  [i \in DOMAIN menu |->
     IF NameOfItem(menu[i].item) = name THEN [menu[i] EXCEPT !.enabled = on] ELSE menu[i]]

-----------------------------------------------------------------------------
(* QtGMenuModel.                                                           *)

\* Mutation of Admitted: the limit is on one change.
AdmittedAlone(n, added) == IF added > Max THEN Max ELSE added

\* The limit on what a change adds, if n items are there without it.
Admitted(n, added) == IF n + added > Max THEN Max - n ELSE added

\* Where the children end up when the items from index on change.
Shift(index, removed, added) ==
  {i \in children : i <= index}
    \cup {i - removed + added : i \in {j \in children : j > index + removed}}

\* Mutation of ChangeMenuItems: children are shifted by what was added alone.
ChildrenKeepTheirRemoved(index, removed, items) ==
  LET added == Admitted(size - removed, Len(items))
      at == Lower(index, Len(menu)) + 1
      rest == Splice(menu, at, Lower(removed, Len(menu) + 1 - at), <<>>)
      new == Entries(Part(items, 1, added))
  IN
  /\ size' = size - removed + added
  /\ menu' = WithStates(Splice(rest, at, 0, new))
  /\ children' = Shift(index, 0, added)
                   \cup {index + i : i \in {j \in 1..added : items[j].link}}
  /\ cut' = (cut \/ added < Len(items))

\* Mutation of ChangeMenuItems: the groups do not hear of the change.
StatesNotEmitted(index, removed, items) ==
  LET added == Admitted(size - removed, Len(items))
      at == Lower(index, Len(menu)) + 1
      rest == Splice(menu, at, Lower(removed, Len(menu) + 1 - at), <<>>)
      new == Entries(Part(items, 1, added))
  IN
  /\ size' = size - removed + added
  /\ menu' = Splice(rest, at, 0, new)
  /\ children' = Shift(index, removed, added)
                   \cup {index + i : i \in {j \in 1..added : items[j].link}}
  /\ cut' = (cut \/ added < Len(items))

\* ChangeMenuItems, and EmitStates when it tells of the change.  What the menu is
\* too short for is added at its end, and nothing is removed from there.
ChangeMenuItems(index, removed, items) ==
  LET added == Admitted(size - removed, Len(items))
      at == Lower(index, Len(menu)) + 1
      rest == Splice(menu, at, Lower(removed, Len(menu) + 1 - at), <<>>)
      new == Entries(Part(items, 1, added))
  IN
  /\ size' = size - removed + added
  /\ menu' = WithStates(Splice(rest, at, 0, new))
  /\ children' = Shift(index, removed, added)
                   \cup {index + i : i \in {j \in 1..added : items[j].link}}
  /\ cut' = (cut \/ added < Len(items))

\* The constructor counts the first items of the menu as if they were there
\* already, and then adds them.  No group hears of that.
Construct(items) ==
  LET n == Lower(Max, Len(items))
      added == Admitted(n, n)
  IN
  /\ size' = n + added
  /\ menu' = Entries(Part(items, 1, added))
  /\ children' = {i \in 1..added : items[i].link}
  /\ cut' = (added < Len(items))

Clear == size' = 0 /\ menu' = <<>> /\ children' = {} /\ UNCHANGED cut

-----------------------------------------------------------------------------
(* The importer.                                                           *)

\* The constructor of QtGActionGroup tells of all actions, before any menu is
\* connected to it.
NewGroups == untold' = Names

\* QtGMenuImporterPrivate's constructor: the first to import the menu finds it
\* empty.  Importing it again replaces one importer by another.
Import ==
  /\ importer \in {"none", "made"}
  /\ importer' = "made"
  /\ Construct(proxy)
  /\ NewGroups
  /\ UNCHANGED <<vars, proxy, group>>

Changed == Head(signals)

\* There is a model of the menu, and it hears the proxy.
Following == importer \in {"made", "left"}

\* The signal of a change gets to the proxy, and from there to the model.
HandleItemsChanged ==
  /\ Following /\ signals # <<>>
  /\ signals' = Tail(signals)
  /\ proxy' = Splice(proxy, Changed.at, Changed.removed, Changed.added)
  /\ Changed.removed + Len(Changed.added) # 0
  /\ Changed.at - 1 + Changed.removed <= size
  /\ ChangeMenuItems(Changed.at - 1, Changed.removed, Changed.added)
  /\ untold' = {}
  /\ UNCHANGED <<publisherVars, subscribed, group, importer>>

\* ReportRecoverableError, then MenuInvalid: the importer drops its menu.  Of an
\* application that has left the bus the pid cannot be read: then there is no report
\* and no MenuInvalid, and the change is lost on the menu.
HandleIllegalChange ==
  /\ Following /\ signals # <<>>
  /\ signals' = Tail(signals)
  /\ proxy' = Splice(proxy, Changed.at, Changed.removed, Changed.added)
  /\ Changed.at - 1 + Changed.removed > size
  /\ \/ importer = "made" /\ importer' = "invalid" /\ Clear
     \/ importer' = "left" /\ UNCHANGED <<size, menu, children, cut>>
  /\ UNCHANGED <<publisherVars, subscribed, group, untold>>

\* An empty menu, or signals when no one has a model of the menu any more.
HandleNothing ==
  /\ signals # <<>>
  /\ \/ ~Following
     \/ Changed.removed + Len(Changed.added) = 0
  /\ signals' = Tail(signals)
  /\ UNCHANGED <<publisherVars, subscribed, importVars, proxy, group, untold>>

\* ServiceUnregistered: the application has left the bus.  ServiceRegistered never
\* follows: hud-service imports from unique bus names alone, which the bus gives to
\* no one else (ApplicationImpl's messageSender, _GTK_UNIQUE_BUS_NAME).
ServiceUnregistered ==
  /\ Following
  /\ importer' = "gone"
  /\ Clear
  /\ UNCHANGED <<vars, proxy, group, untold>>

\* The application's menu is exported until it has gone.
Application ==
  /\ importer \notin {"left", "gone"}
  /\ \/ Publish
     \/ importer = "made" /\ Subscribe
  /\ UNCHANGED <<importVars, proxy, group, untold>>

-----------------------------------------------------------------------------
(* QtGActionGroup.                                                         *)

ToldOf(name, on) ==
  /\ menu' = IF Following THEN WithState(name, on) ELSE menu
  /\ untold' = untold \ {name}

\* ActionAddedCallback tells of actions that are not enabled.
ActionAdded(name, state) ==
  /\ group[name] = "missing"
  /\ group' = [group EXCEPT ![name] = state]
  /\ IF state = "disabled" THEN ToldOf(name, FALSE)
     ELSE untold' = untold \cup {name} /\ UNCHANGED menu
  /\ UNCHANGED <<vars, importer, size, children, cut, proxy>>

\* ActionRemovedCallback tells no menu.
ActionRemoved(name) ==
  /\ group[name] # "missing"
  /\ group' = [group EXCEPT ![name] = "missing"]
  /\ UNCHANGED <<vars, importVars, proxy, untold>>

ActionEnabled(name, state) ==
  /\ group[name] \notin {"missing", state}
  /\ group' = [group EXCEPT ![name] = state]
  /\ ToldOf(name, state = "enabled")
  /\ UNCHANGED <<vars, importer, size, children, cut, proxy>>

ActionGroup ==
  /\ importer # "gone"
  /\ \E n \in Names, s \in States \ {"missing"} :
       ActionAdded(n, s) \/ ActionRemoved(n) \/ ActionEnabled(n, s)

ImportNext ==
  \/ Application
  \/ Import \/ HandleItemsChanged \/ HandleIllegalChange \/ HandleNothing
  \/ ServiceUnregistered
  \/ ActionGroup

ImportSpec == ImportInit /\ [][ImportNext]_allVars

-----------------------------------------------------------------------------
Item_ == [id : Ids, link : BOOLEAN]

Signals_ == [at : Nat \ {0}, removed : Nat, added : Seq(Item_)]

TypeOK ==
  /\ descriptions \in Seq(Descriptions)
  /\ connected \subseteq Descriptions /\ linked \subseteq Descriptions
  /\ subscribed \in BOOLEAN /\ signals \in Seq(Signals_)
  /\ importer \in {"none", "made", "left", "invalid", "gone"}
  /\ proxy \in Seq(Item_)
  /\ size \in 0..Max /\ menu \in Seq([item : Item_, enabled : BOOLEAN])
  /\ children \subseteq Nat \ {0}
  /\ group \in [Names -> States]
  /\ cut \in BOOLEAN /\ untold \subseteq Names

\* As long as the limit has kept nothing out, whatever changes the publisher makes,
\* one after another, the menu has the items of the proxy, with the children where
\* the submenus are, and those of the publisher when nothing is on its way.
MirrorsThePublishedMenu ==
  Following /\ ~cut =>
    /\ Shown = proxy
    /\ children = {i \in DOMAIN proxy : proxy[i].link}
    /\ subscribed /\ signals = <<>> => proxy = Items

\* An action of the menu is enabled as the group's action is, whether the item or
\* the action came first, if the menu was told of the action at all.
ActionsHaveTheirStates ==
  \A i \in DOMAIN menu :
    LET name == NameOfItem(menu[i].item) IN
    group[name] # "missing" /\ name \notin untold =>
      menu[i].enabled = (group[name] = "enabled")

-----------------------------------------------------------------------------
\* The menus that changes on their way make of the first, one after the other.
MenusAfter(first, changes) ==
  LET after[i \in 0..Len(changes)] ==
        IF i = 0 THEN first
        ELSE Splice(after[i - 1], changes[i].at, changes[i].removed, changes[i].added)
  IN [i \in 1..Len(changes) |-> after[i]]

Mirror == INSTANCE MirroredMenu WITH
  Contents <- Item_,
  published <- Items,
  stage <- IF importer \in {"invalid", "gone"} THEN "dropped"
           ELSE IF subscribed THEN "followed" ELSE "unheard",
  coming <- IF Following THEN MenusAfter(proxy, signals) ELSE <<>>,
  mirror <- proxy

\* The menu the service's proxy has goes through the menus the application publishes
\* in order, whatever changes are on their way at the same time: the position of each
\* is one in the menu that all changes before it have made.
FollowsThePublisher == Mirror!MirrorSpec
===============================================================================
