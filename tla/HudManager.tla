------------------------------ MODULE HudManager ------------------------------
(***************************************************************************)
(* libhud's HudManager in an application process, and the ApplicationImpl  *)
(* object that stands for the application in a hud-service that stops and  *)
(* starts.                                                                 *)
(*                                                                         *)
(* The manager registers the application with each owner of the service's  *)
(* name, makes a proxy for the object of its application, and sends it the *)
(* action publishers and the window contexts that waited until then.  Its  *)
(* callbacks run in the order in which the bus sent what they answer.      *)
(* What the service does not do, or does with an error, is not repeated.   *)
(*                                                                         *)
(* A publisher stands for its context too: no two have the same window and *)
(* the same context.                                                       *)
(***************************************************************************)
EXTENDS Naturals, Sequences, FiniteSets

CONSTANTS
  Publishers,  \* the application's HudActionPublisher objects
  Windows,     \* its windows
  All,         \* HUD_ACTION_PUBLISHER_ALL_WINDOWS
  WindowOf,    \* the window of each publisher, or All
  None,        \* no context
  MaxLives,    \* bound on how often the service starts
  MaxAsks      \* bound on what the application asks of the manager

Scopes == Windows \cup {All}

ASSUME ManagerAssumption ==
  /\ All \notin Windows /\ None \notin Publishers
  /\ WindowOf \in [Publishers -> Scopes]
  /\ Publishers \cap Scopes = {}
  /\ MaxLives \in Nat /\ MaxAsks \in Nat

VARIABLES
  life,            \* how often the service has started
  up,              \* it is on the bus
  registered,      \* it has an object for the application
  keys,            \* the window ids in the object's m_windows
  live,            \* those with a Window object
  menus,           \* the publishers whose menus its window contexts have
  shown,           \* m_context of each window context
  active,          \* its m_activeCollector
  calls,           \* calls on their way to the service
  inbox,           \* what is on its way to the manager
  stage,           \* which of the callbacks that set it up have run, or "gone"
  known,           \* the name owner its proxies know, 0 for none
  connecting,      \* connection_cancel is not NULL
  proxied,         \* app_proxy is not NULL
  publishers,      \* publishers
  todo,            \* todo_add_acts and todo_add_desc
  todoContexts,    \* todo_active_contexts
  activeContexts,  \* active_contexts
  idle,            \* todo_idle is not 0
  asks,            \* how much the application has asked
  current,         \* history: the context it last asked for, by window
  unheard,         \* history: publishers and windows sent to no owner
  dropped          \* history: those the service dropped, or never found a place for

objectVars == <<registered, keys, live, menus, shown, active>>
serviceVars == <<life, up, objectVars>>
queueVars == <<publishers, todo, todoContexts, activeContexts>>
managerVars == <<stage, known, connecting, proxied, queueVars, idle>>
historyVars == <<current, unheard, dropped>>
vars == <<serviceVars, calls, inbox, managerVars, asks, historyVars>>

NoContexts == [w \in Scopes |-> None]

Owner(n) == [kind |-> "Owner", life |-> n]
Registered == [kind |-> "Registered"]
ProxyReady == [kind |-> "ProxyReady"]

Register == [method |-> "RegisterApplication"]
GetProxy == [method |-> "GetProxy"]
AddSources(ps) == [method |-> "AddSources", sources |-> ps]
SetContexts(f) == [method |-> "SetWindowContext", contexts |-> f]

NoObject ==
  /\ registered' = FALSE /\ keys' = {} /\ live' = {} /\ menus' = {}
  /\ shown' = NoContexts /\ active' = NoContexts

\* hud_manager_init: the bus has been asked for.
Init ==
  /\ life = 0 /\ up = FALSE
  /\ registered = FALSE /\ keys = {} /\ live = {} /\ menus = {}
  /\ shown = NoContexts /\ active = NoContexts
  /\ calls = <<>> /\ inbox = <<>>
  /\ stage = "bus" /\ known = 0 /\ connecting = TRUE /\ proxied = FALSE
  /\ publishers = {} /\ todo = {} /\ idle = FALSE
  /\ todoContexts = NoContexts /\ activeContexts = NoContexts
  /\ asks = 0
  /\ current = NoContexts /\ unheard = {} /\ dropped = {}

NameOwner == IF up THEN life ELSE 0

\* The contexts f, and those of g where f has none.
Over(f, g) == [w \in Scopes |-> IF f[w] # None THEN f[w] ELSE g[w]]
Waiting(f) == {w \in Scopes : f[w] # None}

-----------------------------------------------------------------------------
(* The service and the bus.                                                *)

\* A proxy that exists is told of the new owner.
Announce(n) == IF stage = "ready" THEN Append(inbox, Owner(n)) ELSE inbox

\* What the manager has asked for is answered, while there is a manager.
Answer(m) == IF stage = "gone" THEN inbox ELSE Append(inbox, m)

Start ==
  /\ ~up /\ life < MaxLives
  /\ up' = TRUE
  /\ life' = life + 1
  /\ inbox' = Announce(life + 1)
  /\ UNCHANGED <<objectVars, calls, managerVars, asks, historyVars>>

\* The bus answers what the service has not.  A proxy being made needs no owner.
\* The error of RegisterApplication changes nothing.
Stop ==
  LET waiting == {i \in DOMAIN calls : calls[i].method = "GetProxy"}
      proxies == [i \in 1..Cardinality(waiting) |-> ProxyReady]
  IN
  /\ up
  /\ up' = FALSE
  /\ NoObject
  /\ calls' = <<>>
  /\ inbox' = IF stage = "gone" THEN inbox ELSE Announce(0) \o proxies
  /\ UNCHANGED <<life, managerVars, asks, historyVars>>

\* The window contexts windowContext() finds; a window it does not find enters
\* m_windows with a null value, for good.
Found(ws) == ws \cap (live \cup {All})
Enter(ws) == keys' = IF registered THEN keys \cup (ws \ {All}) ELSE keys

\* ApplicationImpl::AddSources; without the object, an error.
HandleAddSources(ps) ==
  LET heard == {p \in ps : registered /\ WindowOf[p] \in Found(Scopes)} IN
  /\ menus' = menus \cup heard
  /\ Enter({WindowOf[p] : p \in ps})
  /\ dropped' = (dropped \ heard) \cup (ps \ heard)
  /\ UNCHANGED <<registered, live, shown, active, current, unheard>>

\* ApplicationImpl::SetWindowContext of each window, with the early return and the
\* look at m_collectors of WindowContextImpl::setContext.
HandleSetContexts(f) ==
  LET heard == IF registered THEN Found(Waiting(f)) ELSE {}
      new == {w \in heard : shown[w] # f[w]}
  IN
  /\ shown' = [w \in Scopes |-> IF w \in new THEN f[w] ELSE shown[w]]
  /\ active' = [w \in Scopes |-> IF w \notin new THEN active[w]
                                 ELSE IF f[w] \in menus THEN f[w] ELSE None]
  /\ Enter(Waiting(f))
  /\ dropped' = (dropped \ heard) \cup (Waiting(f) \ heard)
  /\ UNCHANGED <<registered, live, menus, current, unheard>>

Serve ==
  /\ up /\ calls # <<>>
  /\ calls' = Tail(calls)
  /\ LET m == Head(calls) IN
     \/ /\ m.method = "RegisterApplication"
        /\ registered' = TRUE
        /\ inbox' = Answer(Registered)
        /\ UNCHANGED <<keys, live, menus, shown, active, historyVars>>
     \/ /\ m.method = "GetProxy"
        /\ inbox' = Answer(ProxyReady)
        /\ UNCHANGED <<objectVars, historyVars>>
     \/ m.method = "AddSources" /\ HandleAddSources(m.sources) /\ UNCHANGED inbox
     \/ m.method = "SetWindowContext" /\ HandleSetContexts(m.contexts) /\ UNCHANGED inbox
  /\ UNCHANGED <<life, up, managerVars, asks>>

\* ApplicationListImpl hears of a window: addWindow, in an object made if need be.
WindowCreated(w) ==
  /\ up /\ w \notin live
  /\ registered' = TRUE
  /\ live' = IF w \in keys THEN live ELSE live \cup {w}
  /\ keys' = keys \cup {w}
  /\ UNCHANGED <<life, up, menus, shown, active, calls, inbox, managerVars, asks, historyVars>>

\* removeWindow; the object goes with its last window, and all it was told.
WindowDestroyed(w) ==
  LET gone == IF keys = {w} THEN Scopes ELSE {w} IN
  /\ up /\ w \in keys
  /\ dropped' = dropped \cup {p \in menus : WindowOf[p] \in gone}
                        \cup {s \in gone : shown[s] # None}
  /\ IF keys = {w} THEN NoObject
     ELSE /\ keys' = keys \ {w} /\ live' = live \ {w}
          /\ menus' = {p \in menus : WindowOf[p] # w}
          /\ shown' = [shown EXCEPT ![w] = None]
          /\ active' = [active EXCEPT ![w] = None]
          /\ UNCHANGED registered
  /\ UNCHANGED <<life, up, calls, inbox, managerVars, asks, current, unheard>>

-----------------------------------------------------------------------------
(* The queues.                                                             *)

\* A call through app_proxy reaches the owner it knows, or the name's if none.
Reaches == NameOwner # 0 /\ known \in {0, NameOwner}

\* The messages ms are sent; what tells of the publishers and windows ls.
Send(ms, ls) ==
  IF Reaches THEN calls' = calls \o ms /\ unheard' = unheard \ ls
             ELSE unheard' = unheard \cup ls /\ UNCHANGED calls

\* process_todo_queues, with a proxy: one AddSources, then the contexts.
ProcessTodoQueues ==
  IF todo = {} /\ Waiting(todoContexts) = {}
  THEN UNCHANGED <<calls, queueVars, unheard>>
  ELSE /\ Send(IF Waiting(todoContexts) = {} THEN <<AddSources(todo)>>
               ELSE <<AddSources(todo), SetContexts(todoContexts)>>,
               todo \cup Waiting(todoContexts))
       /\ todo' = {}
       /\ todoContexts' = NoContexts
       /\ activeContexts' = Over(todoContexts, activeContexts)
       /\ UNCHANGED publishers

\* todo_handler.
TodoHandler ==
  /\ idle
  /\ idle' = FALSE
  /\ IF proxied THEN ProcessTodoQueues ELSE UNCHANGED <<calls, queueVars, unheard>>
  /\ UNCHANGED <<serviceVars, inbox, stage, known, connecting, proxied, asks, current, dropped>>

-----------------------------------------------------------------------------
(* The callbacks, each handling what box holds no longer.                  *)

\* Mutation of Lost: the publishers that were sent are not put on the list again.
LostKeepsQueues ==
  /\ proxied' = FALSE
  /\ connecting' = TRUE
  /\ todoContexts' = Over(activeContexts, todoContexts)
  /\ activeContexts' = NoContexts
  /\ UNCHANGED <<publishers, todo, unheard, dropped>>

\* notify_name_owner without an owner: everything has to be told again.
Lost ==
  /\ proxied' = FALSE
  /\ connecting' = TRUE
  /\ todo' = todo \cup publishers
  /\ todoContexts' = Over(activeContexts, todoContexts)
  /\ activeContexts' = NoContexts
  /\ unheard' = {} /\ dropped' = {}
  /\ UNCHANGED publishers

\* notify_name_owner.
NotifyNameOwner(n) ==
  /\ known' = n
  /\ IF n = 0 THEN Lost /\ UNCHANGED calls
     ELSE /\ calls' = IF n = NameOwner THEN Append(calls, Register) ELSE calls
          /\ UNCHANGED <<connecting, proxied, queueVars, unheard, dropped>>

\* bus_get_cb, then service_proxy_cb.
BusGet ==
  /\ stage = "bus"
  /\ stage' = "proxy"
  /\ UNCHANGED <<serviceVars, calls, inbox, known, connecting, proxied, queueVars, idle,
                 asks, historyVars>>

ServiceProxy ==
  /\ stage = "proxy"
  /\ stage' = "ready"
  /\ NotifyNameOwner(NameOwner)
  /\ UNCHANGED <<serviceVars, inbox, idle, asks, current>>

Receives(kind) ==
  /\ inbox # <<>> /\ Head(inbox).kind = kind

\* A proxy tells of an owner when it has its properties, and never does when the
\* owner has gone by then.
HandleOwner ==
  LET n == Head(inbox).life
      gone == \E i \in 2..Len(inbox) : inbox[i] = Owner(0)
  IN
  /\ Receives("Owner")
  /\ inbox' = Tail(inbox)
  /\ \/ NotifyNameOwner(n)
     \/ n # 0 /\ gone /\ UNCHANGED <<known, calls, connecting, proxied, queueVars, unheard, dropped>>
  /\ UNCHANGED <<serviceVars, stage, idle, asks, current>>

\* register_app_cb: a proxy for the object is made.
HandleRegistered ==
  /\ Receives("Registered")
  /\ IF up THEN calls' = Append(calls, GetProxy) /\ inbox' = Tail(inbox)
           ELSE inbox' = Append(Tail(inbox), ProxyReady) /\ UNCHANGED calls
  /\ UNCHANGED <<serviceVars, managerVars, asks, historyVars>>

\* application_proxy_cb.
HandleProxyReady ==
  /\ Receives("ProxyReady")
  /\ inbox' = Tail(inbox)
  /\ proxied' = TRUE
  /\ connecting' = FALSE
  /\ ProcessTodoQueues
  /\ UNCHANGED <<serviceVars, stage, known, idle, asks, current, dropped>>

-----------------------------------------------------------------------------
(* What the application asks.                                              *)

Ask ==
  /\ asks < MaxAsks
  /\ asks' = asks + 1

\* Mutation of AddActions: the publisher is not put on the list of publishers.
AddToQueueOnly(p) ==
  /\ Ask
  /\ todo' = todo \cup {p}
  /\ idle' = (idle \/ ~connecting)
  /\ UNCHANGED <<serviceVars, calls, inbox, stage, known, connecting, proxied, publishers,
                 todoContexts, activeContexts, historyVars>>

\* Mutation of AddActions: the idle handler is for a manager without connection.
AddWhileConnecting(p) ==
  /\ Ask
  /\ publishers' = publishers \cup {p}
  /\ todo' = todo \cup {p}
  /\ idle' = (idle \/ connecting)
  /\ UNCHANGED <<serviceVars, calls, inbox, stage, known, connecting, proxied, todoContexts,
                 activeContexts, historyVars>>

\* hud_manager_add_actions.
AddActions(p) ==
  /\ Ask
  /\ publishers' = publishers \cup {p}
  /\ todo' = todo \cup {p}
  /\ idle' = (idle \/ ~connecting)
  /\ UNCHANGED <<serviceVars, calls, inbox, stage, known, connecting, proxied, todoContexts,
                 activeContexts, historyVars>>

\* Mutation of SwitchWindowContext: a context that is sent is not remembered.
SwitchForgets(p) ==
  LET w == WindowOf[p] IN
  /\ Ask
  /\ current' = [current EXCEPT ![w] = p]
  /\ IF proxied
     THEN /\ Send(<<SetContexts([NoContexts EXCEPT ![w] = p])>>, {w})
          /\ UNCHANGED todoContexts
     ELSE /\ todoContexts' = [todoContexts EXCEPT ![w] = p]
          /\ UNCHANGED <<calls, unheard>>
  /\ UNCHANGED <<serviceVars, inbox, stage, known, connecting, proxied, publishers, todo,
                 activeContexts, idle, dropped>>

\* hud_manager_switch_window_context.
SwitchWindowContext(p) ==
  LET w == WindowOf[p] IN
  /\ Ask
  /\ current' = [current EXCEPT ![w] = p]
  /\ IF proxied
     THEN /\ activeContexts' = [activeContexts EXCEPT ![w] = p]
          /\ Send(<<SetContexts([NoContexts EXCEPT ![w] = p])>>, {w})
          /\ UNCHANGED todoContexts
     ELSE /\ todoContexts' = [todoContexts EXCEPT ![w] = p]
          /\ UNCHANGED <<calls, activeContexts, unheard>>
  /\ UNCHANGED <<serviceVars, inbox, stage, known, connecting, proxied, publishers, todo,
                 idle, dropped>>

\* hud_manager_remove_actions, which does nothing yet.
RemoveActions(p) ==
  /\ Ask
  /\ UNCHANGED <<serviceVars, calls, inbox, managerVars, historyVars>>

\* The application drops its reference: hud_manager_dispose, finalize.  The callbacks
\* under way end with an error, or with the application; the service keeps all.
Dispose ==
  /\ stage # "gone"
  /\ stage' = "gone"
  /\ inbox' = <<>>
  /\ connecting' = FALSE /\ proxied' = FALSE /\ idle' = FALSE
  /\ publishers' = {} /\ todo' = {}
  /\ todoContexts' = NoContexts /\ activeContexts' = NoContexts
  /\ known' = 0
  /\ asks' = MaxAsks   \* it is asked nothing more
  /\ UNCHANGED <<serviceVars, calls, historyVars>>

-----------------------------------------------------------------------------
SetUp == BusGet \/ ServiceProxy
Handle == HandleOwner \/ HandleRegistered \/ HandleProxyReady

Next ==
  \/ Start \/ Stop \/ Serve
  \/ \E w \in Windows : WindowCreated(w) \/ WindowDestroyed(w)
  \/ SetUp \/ Handle \/ TodoHandler
  \/ \E p \in Publishers : AddActions(p) \/ SwitchWindowContext(p) \/ RemoveActions(p)
  \/ Dispose

Spec == Init /\ [][Next]_vars

\* The service dispatches its calls, the application its main loop.
Fairness == WF_vars(Serve) /\ WF_vars(SetUp) /\ WF_vars(Handle) /\ WF_vars(TodoHandler)

FairSpec == Spec /\ Fairness

-----------------------------------------------------------------------------
Contexts == [Scopes -> Publishers \cup {None}]

Messages ==
  [kind : {"Owner"}, life : 0..MaxLives] \cup [kind : {"Registered", "ProxyReady"}]

Calls ==
  [method : {"RegisterApplication", "GetProxy"}]
    \cup [method : {"AddSources"}, sources : SUBSET Publishers]
    \cup [method : {"SetWindowContext"}, contexts : Contexts]

TypeOK ==
  /\ life \in 0..MaxLives /\ up \in BOOLEAN
  /\ registered \in BOOLEAN /\ live \subseteq keys /\ keys \subseteq Windows
  /\ menus \subseteq Publishers
  /\ shown \in Contexts /\ active \in Contexts
  /\ calls \in Seq(Calls) /\ inbox \in Seq(Messages)
  /\ stage \in {"bus", "proxy", "ready", "gone"} /\ known \in 0..MaxLives
  /\ connecting \in BOOLEAN /\ proxied \in BOOLEAN /\ idle \in BOOLEAN
  /\ publishers \subseteq Publishers /\ todo \subseteq publishers
  /\ todoContexts \in Contexts /\ activeContexts \in Contexts
  /\ asks \in 0..MaxAsks
  /\ current \in Contexts /\ unheard \cup dropped \subseteq Publishers \cup Scopes

\* Nothing is left behind: what waits while there is a proxy has an idle handler
\* coming, contexts wait only without one, and every context that was asked for
\* is kept for the next service, wherever it is kept.
NothingIsForgotten ==
  stage # "gone" =>
    /\ connecting = ~proxied
    /\ proxied => (todo = {} \/ idle) /\ Waiting(todoContexts) = {}
    /\ ~proxied => Waiting(activeContexts) = {}
    /\ Over(todoContexts, activeContexts) = current

\* No callback or message is under way, and the service stays.
Quiet ==
  up /\ stage = "ready" /\ known = life /\ inbox = <<>> /\ calls = <<>> /\ ~idle

\* The service that is on the bus has the menus of every publisher and the context
\* of every window, and searches no other context, but for what it has dropped with
\* a window, found no window for, or was sent when it could not hear.
QuietServiceHasTheSources ==
  Quiet =>
    /\ publishers \subseteq menus \cup dropped \cup unheard
    /\ \A w \in Scopes \ (dropped \cup unheard) :
         shown[w] = current[w] /\ active[w] \in {None, shown[w]}

\* When the service and the manager stay, what waits is sent and there is a proxy.
SourcesGetSent ==
  <>[](up /\ stage # "gone") => <>[](proxied /\ todo = {} /\ Waiting(todoContexts) = {})
===============================================================================
