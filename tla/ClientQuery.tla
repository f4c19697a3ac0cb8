---------------------------- MODULE ClientQuery ----------------------------
(***************************************************************************)
(* libhud-client's HudClientQuery with its HudClientConnection, in one or  *)
(* more client processes, against a service that stops and starts.         *)
(*                                                                         *)
(* A process learns of the service's owner changes, and of the answers to  *)
(* its asynchronous calls, from its inbox, in the order the bus sent them. *)
(* UpdateQuery and CloseQuery are synchronous: the process waits, and the  *)
(* service handles what the process sent before.  A GDBusProxy addresses   *)
(* the owner it knows, and a proxy is bound to the owner there is when it  *)
(* is made; paths count up from the start of each life of the service.     *)
(*                                                                         *)
(* A call of CreateQuery in flight holds a reference to the query object,  *)
(* a call of VoiceQuery does not.                                          *)
(***************************************************************************)
EXTENDS Naturals, Sequences, FiniteSets

CONSTANTS
  Clients,   \* client processes, each with one query object
  Texts,     \* query strings, those heard included
  Empty,     \* the empty string
  NoProxy,   \* a NULL proxy
  MaxLives,  \* bound on how often the service starts
  MaxAsks    \* bound on what the applications ask of their objects

ASSUME BoundsAreNat == MaxLives \in Nat /\ MaxAsks \in Nat
ASSUME EmptyIsText == Empty \in Texts

VARIABLES
  life,      \* how often the service has started
  up,        \* the service is on the bus
  queries,   \* the queries this life has made: [client, text, open], by id
  calls,     \* asynchronous calls on their way to the service
  inbox,     \* inbox[c]: what is on its way to process c
  known,     \* known[c]: the owner its connection knows, 0 for none
  made,      \* processes whose query object has been constructed
  held,      \* those whose application holds a reference to it
  text,      \* text[c]: the object's query string
  proxy,     \* proxy[c]: the object's proxy, by its owner and its path
  creating,  \* creating[c]: CreateQuery calls in flight, each with a reference
  leaked,    \* leaked[c]: references no one will give back
  asks,      \* how much has been asked of the objects
  failed,    \* processes that ended in a failed assertion or a NULL error
  unsent,    \* history: the text was replaced when the service could not hear
  strayed    \* history: the query was written or closed through another's proxy

serviceVars == <<life, up, queries>>
objectVars == <<made, held, text, proxy, creating, leaked>>
histories == <<unsent, strayed>>
vars == <<serviceVars, calls, inbox, known, objectVars, asks, failed, histories>>

Owner(n) == [kind |-> "Owner", life |-> n]
Created(q) == [kind |-> "Created", query |-> q]
NotCreated == [kind |-> "NotCreated"]
Heard(p, t) == [kind |-> "Heard", by |-> p, text |-> t]
NotHeard(p) == [kind |-> "NotHeard", by |-> p]

CreateCall(c) == [method |-> "CreateQuery", client |-> c, text |-> text[c]]
VoiceCall(c) == [method |-> "VoiceQuery", client |-> c, by |-> proxy[c]]

Init ==
  /\ life = 0 /\ up = FALSE /\ queries = <<>> /\ calls = <<>>
  /\ inbox = [c \in Clients |-> <<>>]
  /\ known = [c \in Clients |-> 0]
  /\ made = {} /\ held = {} /\ failed = {}
  /\ unsent = {} /\ strayed = {}
  /\ text = [c \in Clients |-> Empty]
  /\ proxy = [c \in Clients |-> NoProxy]
  /\ creating = [c \in Clients |-> 0]
  /\ leaked = [c \in Clients |-> 0]
  /\ asks = 0

\* The object has not been finalized.
Alive(c) == c \in made /\ (c \in held \/ creating[c] + leaked[c] > 0)

\* The owner of the service's name.
NameOwner == IF up THEN life ELSE 0

\* The open query that proxy p reaches, or 0.
Reached(p) ==
  IF p # NoProxy /\ p.life = NameOwner /\ p.query \in DOMAIN queries
     /\ queries[p.query].open
  THEN p.query ELSE 0

\* The process whose query c reaches through p, if it is not c's.
Victim(c, p) ==
  IF Reached(p) = 0 THEN {} ELSE {queries[p.query].client} \ {c}

\* The calls of process c.
CallsOf(c) == {i \in DOMAIN calls : calls[i].client = c}

\* What c sent has been handled: a synchronous call of c is handled next.
Served(c) == CallsOf(c) = {}

\* The elements of s at the positions in S, in their order.
ElementsAt(s, S) ==
  LET Place(i) == Cardinality({j \in S : j <= i}) IN
  [k \in 1..Cardinality(S) |-> s[CHOOSE i \in S : Place(i) = k]]

-----------------------------------------------------------------------------
(* The service.                                                            *)

\* The bus tells the connections there are of a new owner.
Announce(box, n) ==
  [c \in Clients |-> IF Alive(c) THEN Append(box[c], Owner(n)) ELSE box[c]]

Starts ==
  /\ ~up /\ life < MaxLives
  /\ up' = TRUE
  /\ life' = life + 1
  /\ queries' = <<>>

Start ==
  /\ Starts
  /\ inbox' = Announce(inbox, life + 1)
  /\ UNCHANGED <<calls, known, objectVars, asks, failed, histories>>

NoAnswer(m) == IF m.method = "CreateQuery" THEN NotCreated ELSE NotHeard(m.by)

\* The service leaves the bus, which answers the calls it has not handled.
Stop ==
  LET Lost(c) == ElementsAt(calls, CallsOf(c))
      Errors(c) == [i \in DOMAIN Lost(c) |-> NoAnswer(Lost(c)[i])]
  IN
  /\ up
  /\ up' = FALSE
  /\ queries' = <<>>
  /\ calls' = <<>>
  /\ inbox' = [c \in Clients |-> Announce(inbox, 0)[c] \o Errors(c)]
  /\ UNCHANGED <<life, known, objectVars, asks, failed, histories>>

Answer(c, m) == inbox' = [inbox EXCEPT ![c] = Append(@, m)]

HandleCreateQuery(c, t) ==
  /\ queries' = Append(queries, [client |-> c, text |-> t, open |-> TRUE])
  /\ Answer(c, Created(Len(queries')))
  /\ UNCHANGED histories

\* QueryImpl::VoiceQuery: what is heard becomes the query.  When no window has
\* the focus, the answer is an empty text and the query stays as it is.
HandleVoiceQuery(c, p) ==
  \/ /\ Reached(p) # 0
     /\ \E t \in Texts :
          /\ queries' = [queries EXCEPT ![p.query].text = t]
          /\ Answer(c, Heard(p, t))
     /\ strayed' = strayed \cup Victim(c, p)
     /\ UNCHANGED unsent
  \/ /\ Reached(p) # 0
     /\ Answer(c, Heard(p, Empty))
     /\ unsent' = unsent \cup {c}
     /\ UNCHANGED <<queries, strayed>>
  \/ /\ Reached(p) = 0
     /\ Answer(c, NotHeard(p))
     /\ UNCHANGED <<queries, histories>>

Serve ==
  /\ up /\ calls # <<>>
  /\ calls' = Tail(calls)
  /\ LET m == Head(calls) IN
     \/ m.method = "CreateQuery" /\ HandleCreateQuery(m.client, m.text)
     \/ m.method = "VoiceQuery" /\ HandleVoiceQuery(m.client, m.by)
  /\ UNCHANGED <<life, up, known, objectVars, asks, failed>>

-----------------------------------------------------------------------------
(* The connection and the construction of the object.                      *)

\* hud_client_connection_new_query: a call of CreateQuery to the owner n, with a
\* reference to the object.  The bus answers for an owner that has gone.
NewQuery(c, n, box) ==
  /\ creating' = [creating EXCEPT ![c] = @ + 1]
  /\ unsent' = unsent \ {c}
  /\ strayed' = strayed \ {c}
  /\ IF n = NameOwner'
     THEN calls' = Append(calls, CreateCall(c)) /\ inbox' = box
     ELSE inbox' = [box EXCEPT ![c] = Append(@, NotCreated)] /\ UNCHANGED calls

\* Mutation of ConnectionStatus: the old proxy stays until there is another.
StatusKeepsProxy(c, n, box) ==
  /\ known' = [known EXCEPT ![c] = n]
  /\ UNCHANGED proxy
  /\ IF n = 0 THEN inbox' = box /\ UNCHANGED <<calls, creating, histories>>
     ELSE NewQuery(c, n, box)

\* connection_status: the old proxy goes, and an owner is asked for a query.
ConnectionStatus(c, n, box) ==
  /\ known' = [known EXCEPT ![c] = n]
  /\ proxy' = [proxy EXCEPT ![c] = NoProxy]
  /\ IF n = 0 THEN inbox' = box /\ UNCHANGED <<calls, creating, histories>>
     ELSE NewQuery(c, n, box)

\* hud_client_query_constructed, with an empty text as HudClient does.  Making the
\* connection's proxy starts the service if it can be started.
New(c) ==
  /\ c \notin made \cup failed
  /\ made' = made \cup {c}
  /\ held' = held \cup {c}
  /\ \/ UNCHANGED serviceVars /\ ConnectionStatus(c, NameOwner, inbox)
     \/ Starts /\ ConnectionStatus(c, life + 1, Announce(inbox, life + 1))
  /\ UNCHANGED <<text, leaked, asks, failed>>

\* The next message to c is of one of these kinds; popped is what then waits.
Receives(c, kinds) == inbox[c] # <<>> /\ Head(inbox[c]).kind \in kinds
Popped(c) == [inbox EXCEPT ![c] = Tail(@)]

\* Mutation of HandleOwner: the change is looked for after the assignment.
ChangeAfterAssignment(c) ==
  /\ Receives(c, {"Owner"})
  /\ inbox' = Popped(c)
  /\ known' = [known EXCEPT ![c] = Head(inbox[c]).life]
  /\ UNCHANGED <<serviceVars, calls, objectVars, asks, failed, histories>>

\* name_owner_changed: connection-status is emitted when there is an owner and
\* was none, or the other way round.
HandleOwner(c) ==
  LET n == Head(inbox[c]).life IN
  /\ Receives(c, {"Owner"})
  /\ UNCHANGED <<serviceVars, made, held, text, leaked, asks, failed>>
  /\ IF Alive(c) /\ (n = 0) # (known[c] = 0)
     THEN ConnectionStatus(c, n, Popped(c))
     ELSE /\ inbox' = Popped(c)
          /\ known' = [known EXCEPT ![c] = IF Alive(c) THEN n ELSE 0]
          /\ UNCHANGED <<calls, proxy, creating, histories>>

\* hud_client_connection_dispose, with the object's reference to it.
Disconnect(c) == known' = [known EXCEPT ![c] = 0]

\* The queries after CloseQuery through proxy p.
Without(p) ==
  IF Reached(p) = 0 THEN queries ELSE [queries EXCEPT ![p.query].open = FALSE]

\* Mutation of Dispose: the proxy is cleared before it is used.
DisposeClearsFirst(c, p) ==
  /\ Served(c)
  /\ UNCHANGED <<queries, strayed>>
  /\ proxy' = [proxy EXCEPT ![c] = NoProxy]
  /\ Disconnect(c)

\* hud_client_query_dispose, with the last reference, through proxy p.
Dispose(c, p) ==
  /\ Served(c)
  /\ queries' = Without(p)
  /\ strayed' = strayed \cup Victim(c, p)
  /\ proxy' = [proxy EXCEPT ![c] = NoProxy]
  /\ Disconnect(c)

\* new_query_cb: a proxy for the path and the owner there is now, which making
\* it starts if it can be started; then the call's reference is given back.
HandleCreated(c) ==
  LET q == Head(inbox[c]).query
      last == c \notin held /\ creating[c] + leaked[c] = 1
      To(n) == [life |-> n, query |-> q]
      Take(p) == proxy' = [proxy EXCEPT ![c] = p] /\ UNCHANGED known
  IN
  /\ Receives(c, {"Created"})
  /\ creating' = [creating EXCEPT ![c] = @ - 1]
  /\ \/ /\ up /\ inbox' = Popped(c)
        /\ IF last THEN Dispose(c, To(life)) ELSE Take(To(life)) /\ UNCHANGED <<queries, strayed>>
        /\ UNCHANGED <<life, up>>
     \/ /\ Starts /\ inbox' = Announce(Popped(c), life + 1)
        /\ Take(IF last THEN NoProxy ELSE To(life + 1))
        /\ UNCHANGED strayed
     \/ /\ ~up /\ inbox' = Popped(c)
        /\ Take(NoProxy)
        /\ UNCHANGED <<serviceVars, strayed>>
  /\ UNCHANGED <<calls, made, held, text, leaked, asks, failed, unsent>>

\* Mutation of HandleNotCreated: new_query_cb and new_query_complete both give a
\* reference back.
UnrefTwice(c) ==
  /\ Receives(c, {"NotCreated"})
  /\ inbox' = Popped(c)
  /\ creating' = [creating EXCEPT ![c] = @ - 2]
  /\ UNCHANGED <<serviceVars, calls, known, made, held, text, proxy, leaked, asks, failed,
                 histories>>

\* new_query_complete returns on an error without calling new_query_cb, which
\* was to give the reference back.
HandleNotCreated(c) ==
  /\ Receives(c, {"NotCreated"})
  /\ inbox' = Popped(c)
  /\ creating' = [creating EXCEPT ![c] = @ - 1]
  /\ leaked' = [leaked EXCEPT ![c] = @ + 1]
  /\ UNCHANGED <<serviceVars, calls, known, made, held, text, proxy, asks, failed, histories>>

-----------------------------------------------------------------------------
(* What the application asks.                                              *)

Ask(c) ==
  /\ c \in held
  /\ asks < MaxAsks
  /\ asks' = asks + 1

\* An answer to VoiceQuery is on its way to c.
Listening(c) == \E i \in DOMAIN inbox[c] : inbox[c][i].kind \in {"Heard", "NotHeard"}

\* Mutation of SetQuery: without a proxy, it asks for a query with the new text.
SetQueryCreates(c, t) ==
  /\ Ask(c)
  /\ text' = [text EXCEPT ![c] = t]
  /\ IF proxy[c] # NoProxy
     THEN /\ Served(c)
          /\ queries' = IF Reached(proxy[c]) = 0 THEN queries
                        ELSE [queries EXCEPT ![proxy[c].query].text = t]
          /\ UNCHANGED <<calls, creating>>
     ELSE /\ known[c] # 0 /\ known[c] = NameOwner
          /\ calls' = Append(calls, CreateCall(c))
          /\ creating' = [creating EXCEPT ![c] = @ + 1]
          /\ UNCHANGED queries
  /\ UNCHANGED <<life, up, inbox, known, made, held, proxy, leaked, failed, histories>>

\* Mutation of SetQuery: the text is sent before it is stored.
SetQuerySendsOld(c, t) ==
  /\ Ask(c)
  /\ text' = [text EXCEPT ![c] = t]
  /\ IF proxy[c] # NoProxy
     THEN /\ Served(c)
          /\ queries' = IF Reached(proxy[c]) = 0 THEN queries
                        ELSE [queries EXCEPT ![proxy[c].query].text = text[c]]
     ELSE UNCHANGED queries
  /\ UNCHANGED <<life, up, calls, inbox, known, made, held, proxy, creating, leaked, failed,
                 histories>>

\* hud_client_query_set_query.
SetQuery(c, t) ==
  /\ Ask(c)
  /\ text' = [text EXCEPT ![c] = t]
  /\ IF proxy[c] # NoProxy
     THEN /\ Served(c)
          /\ queries' = IF Reached(proxy[c]) = 0 THEN queries
                        ELSE [queries EXCEPT ![proxy[c].query].text = t]
          /\ unsent' = IF Listening(c) THEN unsent \cup {c} ELSE unsent \ {c}
          /\ strayed' = strayed \cup Victim(c, proxy[c])
     ELSE /\ unsent' = IF creating[c] > 0 THEN unsent \cup {c} ELSE unsent
          /\ UNCHANGED <<queries, strayed>>
  /\ UNCHANGED <<life, up, calls, inbox, known, made, held, proxy, creating, leaked, failed>>

\* hud_client_query_voice_query.
VoiceQuery(c) ==
  /\ Ask(c)
  /\ proxy[c] # NoProxy
  /\ IF proxy[c].life = NameOwner
     THEN calls' = Append(calls, VoiceCall(c)) /\ UNCHANGED inbox
     ELSE Answer(c, NotHeard(proxy[c])) /\ UNCHANGED calls
  /\ UNCHANGED <<serviceVars, known, objectVars, failed, histories>>

\* The process ends; the service's watchers close its queries (HudService).
Fail(c) ==
  /\ failed' = failed \cup {c}
  /\ made' = made \ {c}
  /\ held' = held \ {c}
  /\ proxy' = [proxy EXCEPT ![c] = NoProxy]
  /\ creating' = [creating EXCEPT ![c] = 0]
  /\ leaked' = [leaked EXCEPT ![c] = 0]
  /\ known' = [known EXCEPT ![c] = 0]
  /\ inbox' = [inbox EXCEPT ![c] = <<>>]
  /\ calls' = ElementsAt(calls, DOMAIN calls \ CallsOf(c))
  /\ queries' = [q \in DOMAIN queries |->
                   [queries[q] EXCEPT !.open = @ /\ queries[q].client # c]]

\* hud_client_query_execute_command: the error it reads the message of is NULL when
\* there is no proxy.  What a command does, and to what, is in ItemStore.
ExecuteCommand(c) ==
  /\ Ask(c)
  /\ IF proxy[c] = NoProxy THEN Fail(c)
     ELSE /\ Served(c)
          /\ UNCHANGED <<queries, calls, inbox, known, made, held, proxy, creating, leaked,
                         failed>>
  /\ UNCHANGED <<life, up, text, histories>>

\* hud_client_query_voice_query_callback asserts that the object is still one,
\* finishes the call on the proxy the object has now, and reads the message of
\* the error that finishing sets, or leaves NULL when there is no proxy.
HandleHeard(c) ==
  LET m == Head(inbox[c]) IN
  /\ Receives(c, {"Heard", "NotHeard"})
  /\ IF ~Alive(c) \/ proxy[c] = NoProxy THEN Fail(c) /\ UNCHANGED text
     ELSE /\ inbox' = Popped(c)
          /\ text' = IF m.kind = "Heard" THEN [text EXCEPT ![c] = m.text] ELSE text
          /\ UNCHANGED <<queries, calls, known, made, held, proxy, creating, leaked,
                         failed>>
  /\ UNCHANGED <<life, up, asks, histories>>

\* g_object_unref by the application.
Drop(c) ==
  /\ c \in held
  /\ held' = held \ {c}
  /\ IF creating[c] + leaked[c] = 0 THEN Dispose(c, proxy[c])
                                    ELSE UNCHANGED <<queries, proxy, known, strayed>>
  /\ UNCHANGED <<life, up, calls, inbox, made, text, creating, leaked, asks, failed, unsent>>

-----------------------------------------------------------------------------
Handle(c) == HandleOwner(c) \/ HandleCreated(c) \/ HandleNotCreated(c) \/ HandleHeard(c)

Application(c) == New(c) \/ (\E t \in Texts : SetQuery(c, t)) \/ VoiceQuery(c)
                    \/ ExecuteCommand(c) \/ Drop(c)

Next ==
  \/ Start \/ Stop \/ Serve
  \/ \E c \in Clients : Handle(c) \/ Application(c)

Spec == Init /\ [][Next]_vars

\* The service and the processes dispatch what waits for them.
Fairness == WF_vars(Serve) /\ \A c \in Clients : WF_vars(Handle(c))

FairSpec == Spec /\ Fairness

-----------------------------------------------------------------------------
Proxies == {NoProxy} \cup [life : 1..MaxLives, query : Nat \ {0}]

Messages ==
  [kind : {"Owner"}, life : 0..MaxLives]
    \cup [kind : {"Created"}, query : Nat \ {0}]
    \cup [kind : {"NotCreated"}]
    \cup [kind : {"Heard"}, by : Proxies, text : Texts]
    \cup [kind : {"NotHeard"}, by : Proxies]

Calls ==
  [method : {"CreateQuery"}, client : Clients, text : Texts]
    \cup [method : {"VoiceQuery"}, client : Clients, by : Proxies]

Queries == [client : Clients, text : Texts, open : BOOLEAN]

TypeOK ==
  /\ life \in 0..MaxLives /\ up \in BOOLEAN
  /\ queries \in Seq(Queries)
  /\ calls \in Seq(Calls)
  /\ inbox \in [Clients -> Seq(Messages)]
  /\ known \in [Clients -> 0..MaxLives]
  /\ made \subseteq Clients /\ held \subseteq made
  /\ failed \subseteq Clients \ made
  /\ unsent \subseteq Clients /\ strayed \subseteq Clients
  /\ text \in [Clients -> Texts]
  /\ proxy \in [Clients -> Proxies]
  /\ creating \in [Clients -> Nat] /\ leaked \in [Clients -> Nat]
  /\ asks \in 0..MaxAsks

Open(c) == {q \in DOMAIN queries : queries[q].open /\ queries[q].client = c}
Asked(c) == {i \in DOMAIN calls : calls[i].client = c /\ calls[i].method = "CreateQuery"}

\* However the service comes and goes, an object has one query in it at most,
\* those it has asked for included: the answer it still waits for is never that
\* of a second call the same life of the service will answer.
OneQueryPerObject == \A c \in Clients : Cardinality(Open(c)) + Cardinality(Asked(c)) <= 1

\* A proxy that reaches a query of another process (paths count from the start
\* again) has a change of owner on its way that will take it.
StrayProxiesAreShortLived ==
  \A c \in Clients :
    Reached(proxy[c]) # 0 /\ queries[proxy[c].query].client # c =>
      \E i \in DOMAIN inbox[c] : inbox[c][i].kind = "Owner"

\* When nothing is on its way, the service searches for the text the object has,
\* but for the texts that were replaced when the service could not hear.
QuietServiceHasTheText ==
  (up /\ calls = <<>>) =>
    \A c \in held \ (unsent \cup strayed) :
      inbox[c] = <<>> /\ Reached(proxy[c]) # 0 => queries[proxy[c].query].text = text[c]

\* An object held while the service stays on the bus gets its query, and keeps it
\* unless another process's stray proxy closes it.
HeldObjectsGetQueries ==
  \A c \in Clients :
    <>[](up /\ c \in held) => <>[](Reached(proxy[c]) # 0 \/ c \in strayed)

\* "Should be unref'd when a client is done using the query so that applications
\* can be told that the HUD is no longer open" (libhud-client/query.h:124): the
\* query of an object without references goes, unless a reference has leaked.
DroppedObjectsLeaveNoQuery ==
  \A c \in Clients :
    (c \in made \ held /\ leaked[c] = 0) ~> (Open(c) = {} \/ leaked[c] > 0)

\* A process has its query in the service as long as it holds its object.
QueriesFollowTheObjects == HeldObjectsGetQueries /\ DroppedObjectsLeaveNoQuery
=============================================================================
