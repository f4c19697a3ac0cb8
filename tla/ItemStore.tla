------------------------------- MODULE ItemStore -------------------------------
(***************************************************************************)
(* The commands hud-service finds and runs for a query: the ItemStore of   *)
(* the query's window token.                                               *)
(*                                                                         *)
(* An ItemStore numbers the enabled actions of a menu once, when the token *)
(* is made, and keeps for each number a position in the QMenu, not the     *)
(* action: what the position holds is looked up when a command is shown    *)
(* and again when it is run.  The matching of words is an external         *)
(* library's (Columbus), and the order of suggestions the usage tracker's: *)
(* any of the actions may be found.                                        *)
(*                                                                         *)
(* The query is one that shows suggestions, and some window has the focus. *)
(***************************************************************************)
EXTENDS Naturals, Sequences, FiniteSets, FiniteSetsExt

CONSTANTS
  Actions,     \* the actions of menus
  Disabled,    \* those that are not enabled
  Menus,       \* the menus a window may have
  NoAction,    \* a null QAction
  MaxResults   \* the results shown at most (20)

ASSUME StoreAssumption ==
  /\ Disabled \subseteq Actions /\ NoAction \notin Actions
  /\ Menus \subseteq Seq(Actions) /\ Menus # {}
  /\ MaxResults \in Nat

VARIABLES
  menu,     \* the actions of the focused window's QMenu now
  source,   \* where it is from, a GMenu or a DBusMenu
  items,    \* m_items of the query's token: a position for each id, 0 for a null Item
  text,     \* m_query
  results,  \* what the query publishes: an id and an action for each
  moved,    \* the menu has changed since the last search
  crashed   \* hud-service has dereferenced a null Item

storeVars == <<menu, source, items, text, results, moved, crashed>>

Sources == {"GMenu", "DBusMenu"}
Texts == {"", "words"}

Enabled(m) == {i \in DOMAIN m : m[i] \notin Disabled}

\* indexMenu: the ids 0, 1, ... of the enabled actions.
Indexed(m) ==
  [id \in 0..(Cardinality(Enabled(m)) - 1) |->
     CHOOSE i \in Enabled(m) : Cardinality({j \in Enabled(m) : j < i}) = id]

\* Item::action.
ActionAt(m, position) == IF position \in DOMAIN m THEN m[position] ELSE NoAction

\* The ids of the store with items its whose action is there.
Live(its, m) == {id \in DOMAIN its : ActionAt(m, its[id]) # NoAction}

\* The ids a search may find: for no text at all as many as there are.  (A text of one
\* letter may get one row more than the limit, the mnemonic's, or that row twice.)
Found(its, m, t) ==
  LET most == Min({Cardinality(Live(its, m)), MaxResults}) IN
  {ids \in SUBSET Live(its, m) :
     IF t = "" THEN Cardinality(ids) = most ELSE Cardinality(ids) <= most}

\* The row a query publishes for the id.
Row(its, m, id) == [id |-> id, action |-> ActionAt(m, its[id])]

\* Mutation of Search: the results of the last search are not cleared first.
SearchAddsResults(its, m, t) ==
  /\ items' = its /\ menu' = m /\ text' = t
  /\ moved' = FALSE
  /\ IF t = "" /\ \E id \in DOMAIN its : its[id] = 0
     THEN crashed' = TRUE /\ results' = {}
     ELSE /\ UNCHANGED crashed
          /\ \E ids \in Found(its, m, t) :
               results' = results \cup {Row(its, m, id) : id \in ids}

\* search on a store with items its for the menu m, and QueryImpl's new results.
\* Without a text it walks over all items, null ones too.
Search(its, m, t) ==
  /\ items' = its /\ menu' = m /\ text' = t
  /\ moved' = FALSE
  /\ IF t = "" /\ \E id \in DOMAIN its : its[id] = 0
     THEN crashed' = TRUE /\ results' = {}
     ELSE /\ UNCHANGED crashed
          /\ \E ids \in Found(its, m, t) :
               results' = {Row(its, m, id) : id \in ids}

\* QueryImpl::refresh: a DBusMenu's token is used again.
Refresh(t) ==
  /\ Search(IF source = "DBusMenu" THEN items ELSE Indexed(menu), menu, t)
  /\ UNCHANGED source

UpdateQuery(t) ==
  /\ ~crashed
  /\ t # text
  /\ Refresh(t)

\* A window with another menu gets the focus, and the query a token of it.
FocusWindow(m, s) ==
  /\ ~crashed
  /\ Search(Indexed(m), m, text)
  /\ source' = s

\* The application changes its menu.
MenuChanges(m) ==
  /\ ~crashed
  /\ m # menu
  /\ menu' = m
  /\ moved' = TRUE
  /\ UNCHANGED <<source, items, text, results, crashed>>

\* The timer of the token, that a change of a GMenu has started.
Timeout ==
  /\ ~crashed
  /\ moved /\ source = "GMenu"
  /\ Refresh(text)

\* Mutation of ActionOf: an id is taken for a position.
ActionByPosition(id) == IF id \in DOMAIN items THEN ActionAt(menu, id + 1) ELSE NoAction

\* What an id stands for.
ActionOf(id) == IF id \in DOMAIN items THEN ActionAt(menu, items[id]) ELSE NoAction

\* execute and executeParameterized: reading m_items puts a null Item in the place
\* of an id the store does not have.
Execute(id) ==
  /\ ~crashed
  /\ items' = [i \in DOMAIN items \cup {id} |-> IF i \in DOMAIN items THEN items[i] ELSE 0]
  /\ UNCHANGED <<menu, source, text, results, moved, crashed>>

StoreInit ==
  /\ menu \in Menus /\ source \in Sources
  /\ items = Indexed(menu) /\ text = "" /\ moved = FALSE /\ crashed = FALSE
  /\ \E ids \in Found(items, menu, "") :
       results = {Row(items, menu, id) : id \in ids}

StoreNext ==
  \/ \E t \in Texts : UpdateQuery(t)
  \/ \E m \in Menus : MenuChanges(m) \/ \E s \in Sources : FocusWindow(m, s)
  \/ Timeout

-----------------------------------------------------------------------------
\* A query that has searched the menu as it is publishes only ids by which its
\* token finds the very actions they were published for.
ResultsAreTheTokens == ~moved => \A r \in results : ActionOf(r.id) = r.action
================================================================================
