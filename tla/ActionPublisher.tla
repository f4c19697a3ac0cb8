---------------------------- MODULE ActionPublisher ----------------------------
(***************************************************************************)
(* libhud's HudActionPublisher: the descriptions of the actions that an    *)
(* application puts into the HUD, sorted by identifier, and the changes    *)
(* the publisher announces of the menu model it exports them as.           *)
(*                                                                         *)
(* The application may describe one action by several objects, one after   *)
(* another, and change an object whether or not it is published.  Who has  *)
(* subscribed to the exported menu hears the changes in order.             *)
(***************************************************************************)
EXTENDS Naturals, Sequences, FiniteSets

CONSTANTS
  Descriptions,  \* HudActionDescription objects
  Ids,           \* what identifies them: an action name and a target
  Parametric,    \* those the application may give a submenu of parameters
  IdOf,          \* the identifier of each description
  Rank,          \* the order of the identifiers, by strcmp
  Names,         \* action names
  NameOf,        \* the action name in an identifier
  RangeOf,       \* the identifiers from a name up to that name and "~"
  MaxSignals     \* bound on the changes on their way

ASSUME PublisherAssumption ==
  /\ Parametric \subseteq Descriptions
  /\ IdOf \in [Descriptions -> Ids]
  /\ Rank \in [Ids -> Nat] /\ \A i, j \in Ids : Rank[i] = Rank[j] => i = j
  /\ NameOf \in [Ids -> Names]
  /\ RangeOf \in [Names -> SUBSET Ids]
  /\ \A i \in Ids : i \in RangeOf[NameOf[i]]
  /\ \A n \in Names : \A i, j \in RangeOf[n] : \A k \in Ids :
       Rank[i] <= Rank[k] /\ Rank[k] <= Rank[j] => k \in RangeOf[n]
  /\ MaxSignals \in Nat

VARIABLES
  descriptions,  \* the sorted sequence
  connected,     \* those whose "changed" the publisher handles
  linked,        \* the descriptions with a submenu of parameters
  subscribed,    \* someone has subscribed to the menu
  signals        \* the changes on their way: position, items removed, items added

publisherVars == <<descriptions, connected, linked>>
vars == <<publisherVars, subscribed, signals>>

Init ==
  /\ descriptions = <<>> /\ connected = {} /\ linked = {}
  /\ subscribed = FALSE /\ signals = <<>>

\* A menu with the removed items at a position replaced by others.
Splice(s, at, removed, added) ==
  SubSeq(s, 1, at - 1) \o added \o SubSeq(s, at + removed, Len(s))

\* Those from position m to n.
Part(s, m, n) == SubSeq(s, m, n)

\* hud_aux_get_item_attributes and hud_aux_get_item_links.
Item(d, links) == [id |-> IdOf[d], link |-> d \in links]
Items == [i \in DOMAIN descriptions |-> Item(descriptions[i], linked)]

Room == Len(signals) < MaxSignals

\* g_menu_model_items_changed, after the change.
ItemsChanged(at, removed, added) ==
  signals' = IF subscribed
             THEN Append(signals, [at |-> at, removed |-> removed,
                                   added |-> [i \in 1..added |-> Items'[at + i - 1]]])
             ELSE signals

\* Where the identifier is, or would be.
Before(id) == {i \in DOMAIN descriptions : Rank[IdOf[descriptions[i]]] < Rank[id]}
Position(id) == Cardinality(Before(id)) + 1
Has(id) == \E i \in DOMAIN descriptions : IdOf[descriptions[i]] = id

-----------------------------------------------------------------------------
\* Mutation of AddDescription: the description that is replaced stays connected.
AddKeepsHandler(d) ==
  LET at == Position(IdOf[d])
      old == IF Has(IdOf[d]) THEN 1 ELSE 0
  IN
  /\ Room
  /\ descriptions' = Splice(descriptions, at, old, <<d>>)
  /\ connected' = connected \cup {d}
  /\ UNCHANGED <<linked, subscribed>>
  /\ ItemsChanged(at, old, 1)

\* hud_action_publisher_add_description: in its place, or for the one that has the
\* same identifier.
AddDescription(d) ==
  LET at == Position(IdOf[d])
      old == IF Has(IdOf[d]) THEN 1 ELSE 0
  IN
  /\ Room
  /\ descriptions' = Splice(descriptions, at, old, <<d>>)
  /\ connected' = (connected \ {descriptions[i] : i \in at..(at + old - 1)}) \cup {d}
  /\ UNCHANGED <<linked, subscribed>>
  /\ ItemsChanged(at, old, 1)

\* Mutation of RemoveDescription: the place before the item is announced.
RemoveAnnouncesBefore(id) ==
  LET at == Position(id) IN
  /\ Room
  /\ Has(id)
  /\ descriptions' = Splice(descriptions, at, 1, <<>>)
  /\ connected' = connected \ {descriptions[at]}
  /\ UNCHANGED <<linked, subscribed>>
  /\ ItemsChanged(at - 1, 1, 0)

\* hud_action_publisher_remove_description.
RemoveDescription(id) ==
  LET at == Position(id) IN
  /\ Room
  /\ Has(id)
  /\ descriptions' = Splice(descriptions, at, 1, <<>>)
  /\ connected' = connected \ {descriptions[at]}
  /\ UNCHANGED <<linked, subscribed>>
  /\ ItemsChanged(at, 1, 0)

\* Mutation of RemoveDescriptions: one item is announced, however many go.
RemoveAnnouncesOne(name) ==
  LET out == {i \in DOMAIN descriptions : IdOf[descriptions[i]] \in RangeOf[name]}
      start == CHOOSE i \in out : \A j \in out : i <= j
  IN
  /\ Room
  /\ out # {}
  /\ descriptions' = Splice(descriptions, start, Cardinality(out), <<>>)
  /\ connected' = connected \ {descriptions[i] : i \in out}
  /\ UNCHANGED <<linked, subscribed>>
  /\ ItemsChanged(start, 1, 0)

\* hud_action_publisher_remove_descriptions: all identifiers in the name's range,
\* those of longer names that start with it among them.
RemoveDescriptions(name) ==
  LET out == {i \in DOMAIN descriptions : IdOf[descriptions[i]] \in RangeOf[name]}
      start == CHOOSE i \in out : \A j \in out : i <= j
  IN
  /\ Room
  /\ out # {}
  /\ descriptions' = Splice(descriptions, start, Cardinality(out), <<>>)
  /\ connected' = connected \ {descriptions[i] : i \in out}
  /\ UNCHANGED <<linked, subscribed>>
  /\ ItemsChanged(start, Cardinality(out), 0)

\* description_changed, if the publisher is connected.
DescriptionChanged(d) ==
  IF d \in connected THEN ItemsChanged(Position(IdOf[d]), 1, 1) ELSE UNCHANGED signals

\* hud_action_description_set_attribute_value, or set_parameterized when links is not
\* what it was.
ChangeDescription(d, links) ==
  /\ Room
  /\ linked' = links
  /\ UNCHANGED <<descriptions, connected, subscribed>>
  /\ DescriptionChanged(d)

\* hud_action_description_set_parameterized, with a submenu or NULL.
SetParameterized(d) ==
  ChangeDescription(d, linked \cup {d}) \/ ChangeDescription(d, linked \ {d})

\* The exporter takes a subscription, and answers with the items there are.
Subscribe ==
  /\ ~subscribed
  /\ subscribed' = TRUE
  /\ signals' = <<[at |-> 1, removed |-> 0, added |-> Items]>>
  /\ UNCHANGED publisherVars

Publish ==
  \/ \E d \in Descriptions : AddDescription(d) \/ ChangeDescription(d, linked)
  \/ \E d \in Parametric : SetParameterized(d)
  \/ \E id \in Ids : RemoveDescription(id)
  \/ \E n \in Names : RemoveDescriptions(n)

-----------------------------------------------------------------------------
\* description_changed asserts that the sequence has, at the place of the changed
\* description's identifier, that very description (action-publisher.c:377): the
\* publisher hears those it publishes and no others, each at its one place.
ChangedDescriptionsAreFound ==
  /\ connected = {descriptions[i] : i \in DOMAIN descriptions}
  /\ \A i, j \in DOMAIN descriptions :
       i < j => Rank[IdOf[descriptions[i]]] < Rank[IdOf[descriptions[j]]]
================================================================================
