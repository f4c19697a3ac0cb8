--------------------------- MODULE HudManagerProofs ---------------------------
(***************************************************************************)
(* What holds of libhud's manager however often the service comes and      *)
(* goes, and whatever the application asks: its state is well-formed, no   *)
(* context it was asked for is ever out of its queues, and a service to    *)
(* which nothing more is on its way has what the application asked for.    *)
(***************************************************************************)
EXTENDS HudManager, FiniteSetTheorems, SequenceTheorems, TLAPS

-----------------------------------------------------------------------------
(* Contexts by window.                                                     *)

LEMMA NoContextsType == NoContexts \in Contexts /\ Waiting(NoContexts) = {}
BY DEF NoContexts, Contexts, Waiting

LEMMA OverType ==
  ASSUME NEW f \in Contexts, NEW g \in Contexts
  PROVE  Over(f, g) \in Contexts
BY DEF Over, Contexts

LEMMA NoneWaits ==
  ASSUME NEW f \in Contexts, Waiting(f) = {}
  PROVE  f = NoContexts
BY DEF Waiting, Contexts, NoContexts

\* Without contexts on one side, Over is the other side.
LEMMA OverNoContexts ==
  ASSUME NEW f \in Contexts
  PROVE  Over(f, NoContexts) = f /\ Over(NoContexts, f) = f
BY DEF Over, Contexts, NoContexts

\* A context that replaces one in a function replaces it in what is over another,
\* or under nothing.
LEMMA OverExcept ==
  ASSUME NEW f \in Contexts, NEW w \in Scopes, NEW p \in Publishers
  PROVE  /\ [f EXCEPT ![w] = p] \in Contexts
         /\ [NoContexts EXCEPT ![w] = p] \in Contexts
BY DEF Contexts, NoContexts

-----------------------------------------------------------------------------
(* The state is well-formed.                                               *)

LEMMA CallsType ==
  /\ Register \in Calls /\ GetProxy \in Calls
  /\ \A ps \in SUBSET Publishers : AddSources(ps) \in Calls
  /\ \A f \in Contexts : SetContexts(f) \in Calls
BY DEF Calls, Register, GetProxy, AddSources, SetContexts

LEMMA MessagesType ==
  /\ Registered \in Messages /\ ProxyReady \in Messages
  /\ \A n \in 0..MaxLives : Owner(n) \in Messages
BY DEF Messages, Registered, ProxyReady, Owner

LEMMA AnswerType ==
  ASSUME TypeOK, NEW m \in Messages
  PROVE  Answer(m) \in Seq(Messages)
BY DEF Answer, TypeOK

LEMMA AnnounceType ==
  ASSUME TypeOK, NEW n \in 0..MaxLives
  PROVE  Announce(n) \in Seq(Messages)
BY MessagesType DEF Announce, TypeOK

LEMMA NoObjectType ==
  ASSUME NoObject
  PROVE  /\ registered' \in BOOLEAN /\ live' \subseteq keys' /\ keys' \subseteq Windows
         /\ menus' \subseteq Publishers /\ shown' \in Contexts /\ active' \in Contexts
BY NoContextsType DEF NoObject

LEMMA InitTypeOK == Init => TypeOK
<1> SUFFICES ASSUME Init PROVE TypeOK
  OBVIOUS
<1>1. calls \in Seq(Calls) /\ inbox \in Seq(Messages)
  BY DEF Init
<1>2. life \in 0..MaxLives /\ known \in 0..MaxLives /\ asks \in 0..MaxAsks
  BY ManagerAssumption DEF Init
<1>3. /\ registered \in BOOLEAN /\ live \subseteq keys /\ keys \subseteq Windows
      /\ menus \subseteq Publishers /\ publishers \subseteq Publishers
      /\ todo \subseteq publishers /\ unheard \cup dropped \subseteq Publishers \cup Scopes
  BY DEF Init
<1> QED
  BY <1>1, <1>2, <1>3, NoContextsType DEF Init, TypeOK

\* What the queues are after process_todo_queues.
LEMMA ProcessType ==
  ASSUME TypeOK, ProcessTodoQueues
  PROVE  /\ calls' \in Seq(Calls)
         /\ publishers' = publishers /\ todo' \subseteq publishers
         /\ todoContexts' \in Contexts /\ activeContexts' \in Contexts
         /\ unheard' \subseteq Publishers \cup Scopes
<1>1. CASE todo = {} /\ Waiting(todoContexts) = {}
  BY <1>1 DEF ProcessTodoQueues, TypeOK, queueVars
<1>2. CASE ~(todo = {} /\ Waiting(todoContexts) = {})
  <2> DEFINE ms == IF Waiting(todoContexts) = {} THEN <<AddSources(todo)>>
                   ELSE <<AddSources(todo), SetContexts(todoContexts)>>
             ls == todo \cup Waiting(todoContexts)
  <2>1. /\ Send(ms, ls) /\ todo' = {} /\ todoContexts' = NoContexts
        /\ activeContexts' = Over(todoContexts, activeContexts)
        /\ publishers' = publishers
    BY <1>2 DEF ProcessTodoQueues
  <2>2. ms \in Seq(Calls)
    BY CallsType DEF TypeOK
  <2>3. ls \subseteq Publishers \cup Scopes
    BY DEF TypeOK, Waiting
  <2> HIDE DEF ms, ls
  <2>4. calls' \in Seq(Calls) /\ unheard' \subseteq Publishers \cup Scopes
    BY <2>1, <2>2, <2>3, ConcatProperties DEF Send, TypeOK
  <2> QED
    BY <2>1, <2>4, NoContextsType, OverType DEF TypeOK
<1> QED
  BY <1>1, <1>2

\* What notify_name_owner leaves.
LEMMA NotifyType ==
  ASSUME TypeOK, NEW n \in 0..MaxLives, NotifyNameOwner(n)
  PROVE  /\ known' \in 0..MaxLives /\ calls' \in Seq(Calls)
         /\ connecting' \in BOOLEAN /\ proxied' \in BOOLEAN
         /\ publishers' = publishers /\ todo' \subseteq publishers
         /\ todoContexts' \in Contexts /\ activeContexts' \in Contexts
         /\ unheard' \cup dropped' \subseteq Publishers \cup Scopes
<1>1. CASE n = 0
  BY <1>1, OverType, NoContextsType DEF NotifyNameOwner, Lost, TypeOK
<1>2. CASE n # 0
  <2>1. calls' = calls \/ calls' = Append(calls, Register)
    BY <1>2 DEF NotifyNameOwner
  <2>2. calls \in Seq(Calls) /\ Register \in Calls
    BY CallsType DEF TypeOK
  <2>3. calls' \in Seq(Calls)
    BY <2>1, <2>2, AppendProperties
  <2> QED
    BY <1>2, <2>3 DEF NotifyNameOwner, TypeOK, queueVars
<1> QED
  BY <1>1, <1>2

LEMMA StartTypeOK == ASSUME TypeOK, Start PROVE TypeOK'
<1>1. life + 1 \in 0..MaxLives
  BY ManagerAssumption DEF TypeOK, Start
<1> QED
  BY <1>1, AnnounceType DEF TypeOK, Start, objectVars, managerVars, queueVars, historyVars

LEMMA StopTypeOK == ASSUME TypeOK, Stop PROVE TypeOK'
<1> DEFINE waiting == {i \in DOMAIN calls : calls[i].method = "GetProxy"}
           proxies == [i \in 1..Cardinality(waiting) |-> ProxyReady]
<1>1. Cardinality(waiting) \in Nat
  <2>1. IsFiniteSet(DOMAIN calls)
    BY FS_Interval DEF TypeOK
  <2> QED
    BY <2>1, FS_Subset, FS_CardinalityType
<1>2. proxies \in Seq(Messages)
  <2> HIDE DEF waiting
  <2> QED
    BY <1>1, MessagesType
<1>3. inbox' \in Seq(Messages)
  <2>1. inbox' = inbox \/ inbox' = Announce(0) \o proxies
    BY DEF Stop
  <2>2. Announce(0) \in Seq(Messages)
    BY AnnounceType, ManagerAssumption
  <2> HIDE DEF proxies
  <2> QED
    BY <2>1, <2>2, <1>2, ConcatProperties DEF TypeOK
<1>4. /\ registered' \in BOOLEAN /\ live' \subseteq keys' /\ keys' \subseteq Windows
      /\ menus' \subseteq Publishers /\ shown' \in Contexts /\ active' \in Contexts
  BY NoObjectType DEF Stop
<1>5. calls' = <<>> /\ up' = FALSE
  BY DEF Stop
<1>6. UNCHANGED <<life, managerVars, asks, historyVars>>
  BY DEF Stop
<1> HIDE DEF waiting, proxies
<1> QED
  <2>1. calls' \in Seq(Calls)
    BY <1>5
  <2>2. up' \in BOOLEAN
    BY <1>5
  <2> QED
    BY <1>3, <1>4, <1>6, <2>1, <2>2 DEF TypeOK, managerVars, queueVars, historyVars

\* The calls the service handles leave the manager alone.
LEMMA ServeTypeOK == ASSUME TypeOK, Serve PROVE TypeOK'
<1> DEFINE m == Head(calls)
<1>1. m \in Calls /\ calls' \in Seq(Calls)
  BY DEF Serve, TypeOK
<1>2. CASE m.method = "RegisterApplication" /\ registered' = TRUE
           /\ inbox' = Answer(Registered)
           /\ UNCHANGED <<keys, live, menus, shown, active, historyVars>>
  BY <1>1, <1>2, AnswerType, MessagesType
     DEF TypeOK, Serve, managerVars, queueVars, historyVars
<1>3. CASE m.method = "GetProxy" /\ inbox' = Answer(ProxyReady)
           /\ UNCHANGED <<objectVars, historyVars>>
  BY <1>1, <1>3, AnswerType, MessagesType
     DEF TypeOK, Serve, managerVars, queueVars, historyVars, objectVars
<1>4. CASE m.method = "AddSources" /\ HandleAddSources(m.sources) /\ UNCHANGED inbox
  <2>1. m.sources \subseteq Publishers
    BY <1>1, <1>4 DEF Calls
  <2>2. menus' \subseteq Publishers /\ dropped' \subseteq Publishers \cup Scopes
    BY <2>1, <1>4 DEF HandleAddSources, TypeOK
  <2>3. live' \subseteq keys' /\ keys' \subseteq Windows
    BY <2>1, <1>4, ManagerAssumption DEF HandleAddSources, Enter, TypeOK, Scopes
  <2> QED
    BY <1>1, <1>4, <2>2, <2>3 DEF HandleAddSources, TypeOK, Serve, managerVars, queueVars
<1>5. CASE m.method = "SetWindowContext" /\ HandleSetContexts(m.contexts) /\ UNCHANGED inbox
  <2> DEFINE f == m.contexts
  <2>1. f \in Contexts
    BY <1>1, <1>5 DEF Calls
  <2> HIDE DEF f
  <2>2. HandleSetContexts(f)
    BY <1>5 DEF f
  <2>3. shown' \in Contexts /\ active' \in Contexts
    BY <2>1, <2>2 DEF HandleSetContexts, Contexts, TypeOK
  <2>4. dropped' \subseteq Publishers \cup Scopes
    BY <2>1, <2>2 DEF HandleSetContexts, Waiting, Found, TypeOK, Scopes
  <2>5. live' \subseteq keys' /\ keys' \subseteq Windows
    BY <2>1, <2>2 DEF HandleSetContexts, Enter, Waiting, Scopes, TypeOK
  <2> QED
    BY <1>1, <1>5, <2>2, <2>3, <2>4, <2>5
       DEF HandleSetContexts, TypeOK, Serve, managerVars, queueVars
<1> QED
  BY <1>2, <1>3, <1>4, <1>5 DEF Serve

LEMMA CallbackTypeOK == ASSUME TypeOK, SetUp \/ Handle PROVE TypeOK'
<1>1. CASE BusGet
  BY <1>1 DEF TypeOK, BusGet, serviceVars, objectVars, queueVars, historyVars
<1>2. CASE ServiceProxy
  <2>1. NameOwner \in 0..MaxLives
    BY ManagerAssumption DEF NameOwner, TypeOK
  <2> QED
    BY <1>2, <2>1, NotifyType DEF TypeOK, ServiceProxy, serviceVars, objectVars
<1>3. CASE HandleOwner
  <2>1. /\ Head(inbox) \in Messages /\ Head(inbox).kind = "Owner"
        /\ inbox' \in Seq(Messages)
    BY <1>3 DEF HandleOwner, Receives, TypeOK
  <2>2. Head(inbox).life \in 0..MaxLives
    BY <2>1 DEF Messages
  <2>3. CASE NotifyNameOwner(Head(inbox).life)
    BY <1>3, <2>1, <2>2, <2>3, NotifyType DEF TypeOK, HandleOwner, serviceVars, objectVars
  <2>4. CASE UNCHANGED <<known, calls, connecting, proxied, queueVars, unheard, dropped>>
    BY <1>3, <2>1, <2>4 DEF TypeOK, HandleOwner, serviceVars, objectVars, queueVars
  <2> QED
    BY <1>3, <2>3, <2>4 DEF HandleOwner
<1>4. CASE HandleRegistered
  <2>1. Tail(inbox) \in Seq(Messages)
    BY <1>4 DEF HandleRegistered, Receives, TypeOK
  <2>2. \/ calls' = Append(calls, GetProxy) /\ inbox' = Tail(inbox)
        \/ calls' = calls /\ inbox' = Append(Tail(inbox), ProxyReady)
    BY <1>4 DEF HandleRegistered
  <2>3. calls \in Seq(Calls) /\ GetProxy \in Calls /\ ProxyReady \in Messages
    BY CallsType, MessagesType DEF TypeOK
  <2>4. calls' \in Seq(Calls) /\ inbox' \in Seq(Messages)
    <3>1. Append(calls, GetProxy) \in Seq(Calls)
      BY <2>3, AppendProperties
    <3>2. Append(Tail(inbox), ProxyReady) \in Seq(Messages)
      BY <2>1, <2>3, AppendProperties
    <3> QED
      BY <2>1, <2>2, <2>3, <3>1, <3>2 DEF TypeOK
  <2> QED
    BY <1>4, <2>4 DEF TypeOK, HandleRegistered, serviceVars, objectVars, managerVars,
                      queueVars, historyVars
<1>5. CASE HandleProxyReady
  <2>1. inbox' \in Seq(Messages)
    BY <1>5 DEF HandleProxyReady, Receives, TypeOK
  <2> QED
    BY <1>5, <2>1, ProcessType DEF TypeOK, HandleProxyReady, serviceVars, objectVars
<1> QED
  BY <1>1, <1>2, <1>3, <1>4, <1>5 DEF SetUp, Handle

LEMMA TodoHandlerTypeOK == ASSUME TypeOK, TodoHandler PROVE TypeOK'
<1>1. CASE proxied
  BY <1>1, ProcessType DEF TypeOK, TodoHandler, serviceVars, objectVars
<1>2. CASE ~proxied
  BY <1>2 DEF TypeOK, TodoHandler, serviceVars, objectVars, queueVars
<1> QED
  BY <1>1, <1>2

LEMMA AskTypeOK ==
  ASSUME TypeOK, NEW p \in Publishers,
         AddActions(p) \/ SwitchWindowContext(p) \/ RemoveActions(p)
  PROVE  TypeOK'
<1>1. asks' \in 0..MaxAsks
  BY ManagerAssumption DEF TypeOK, AddActions, SwitchWindowContext, RemoveActions, Ask
<1>2. CASE AddActions(p)
  BY <1>1, <1>2 DEF TypeOK, AddActions, serviceVars, objectVars, historyVars
<1>3. CASE SwitchWindowContext(p)
  <2> DEFINE w == WindowOf[p]
             f == [NoContexts EXCEPT ![w] = p]
  <2>1. w \in Scopes
    BY ManagerAssumption
  <2>2. f \in Contexts /\ \A g \in Contexts : [g EXCEPT ![w] = p] \in Contexts
    BY <2>1, NoContextsType, OverExcept
  <2>3. calls' = calls \/ calls' = calls \o <<SetContexts(f)>>
    BY <1>3 DEF SwitchWindowContext, Send
  <2>4. <<SetContexts(f)>> \in Seq(Calls)
    BY <2>2, CallsType
  <2>5. calls' \in Seq(Calls)
    BY <2>3, <2>4, ConcatProperties DEF TypeOK
  <2>6. unheard' \subseteq Publishers \cup Scopes
    BY <1>3, <2>1 DEF TypeOK, SwitchWindowContext, Send
  <2>7. todoContexts' \in Contexts /\ activeContexts' \in Contexts /\ current' \in Contexts
    BY <1>3, <2>2 DEF TypeOK, SwitchWindowContext
  <2> QED
    BY <1>1, <1>3, <2>5, <2>6, <2>7 DEF TypeOK, SwitchWindowContext, serviceVars, objectVars
<1>4. CASE RemoveActions(p)
  BY <1>1, <1>4 DEF TypeOK, RemoveActions, serviceVars, objectVars, managerVars, queueVars,
                    historyVars
<1> QED
  BY <1>2, <1>3, <1>4

LEMMA DisposeTypeOK == ASSUME TypeOK, Dispose PROVE TypeOK'
<1>1. inbox' \in Seq(Messages)
  BY DEF Dispose
<1>2. asks' \in 0..MaxAsks /\ known' \in 0..MaxLives
  BY ManagerAssumption DEF Dispose
<1> QED
  BY <1>1, <1>2, NoContextsType DEF TypeOK, Dispose, serviceVars, objectVars, historyVars

LEMMA NextTypeOK == ASSUME TypeOK, [Next]_vars PROVE TypeOK'
<1>1. CASE Start \/ Stop \/ Serve
  BY <1>1, StartTypeOK, StopTypeOK, ServeTypeOK
<1>2. ASSUME NEW w \in Windows, WindowCreated(w) \/ WindowDestroyed(w) PROVE TypeOK'
  <2>1. CASE WindowCreated(w)
    BY <2>1 DEF TypeOK, WindowCreated, managerVars, queueVars, historyVars
  <2>2. CASE WindowDestroyed(w)
    <3>1. dropped' \subseteq Publishers \cup Scopes
      BY <2>2 DEF TypeOK, WindowDestroyed, Scopes
    <3>2. /\ registered' \in BOOLEAN /\ live' \subseteq keys' /\ keys' \subseteq Windows
          /\ menus' \subseteq Publishers /\ shown' \in Contexts /\ active' \in Contexts
      BY <2>2, NoObjectType DEF TypeOK, WindowDestroyed, Contexts
    <3> QED
      BY <2>2, <3>1, <3>2 DEF TypeOK, WindowDestroyed, managerVars, queueVars
  <2> QED
    BY <1>2, <2>1, <2>2
<1>3. CASE SetUp \/ Handle
  BY <1>3, CallbackTypeOK
<1>4. CASE TodoHandler
  BY <1>4, TodoHandlerTypeOK
<1>5. CASE Dispose
  BY <1>5, DisposeTypeOK
<1>6. CASE UNCHANGED vars
  BY <1>6 DEF TypeOK, vars, serviceVars, objectVars, managerVars, queueVars, historyVars
<1> QED
  BY <1>1, <1>2, <1>3, <1>4, <1>5, <1>6, AskTypeOK DEF Next

\* The manager's queues hold only publishers it was given, the service's object
\* only windows there are, whatever answers and restarts come in between.
THEOREM TypeCorrect == Spec => []TypeOK
BY InitTypeOK, NextTypeOK, PTL DEF Spec

-----------------------------------------------------------------------------
(* No context is forgotten.                                                *)

LEMMA InitNotForgotten == Init => NothingIsForgotten
BY NoContextsType, OverNoContexts DEF Init, NothingIsForgotten

\* Without a proxy nothing is active, so to lose it a second time moves nothing.
LEMMA LostNotForgotten ==
  ASSUME TypeOK, NothingIsForgotten, stage # "gone", Lost, UNCHANGED current
  PROVE  /\ connecting' /\ ~proxied'
         /\ Waiting(activeContexts)' = {}
         /\ Over(todoContexts, activeContexts)' = current'
<1>1. /\ connecting' /\ ~proxied' /\ activeContexts' = NoContexts
      /\ todoContexts' = Over(activeContexts, todoContexts)
  BY DEF Lost
<1>2. Over(activeContexts, todoContexts) \in Contexts
  BY OverType DEF TypeOK
<1>3. Over(activeContexts, todoContexts) = Over(todoContexts, activeContexts)
  <2>1. CASE proxied
    <3>1. todoContexts = NoContexts
      BY <2>1, NoneWaits DEF NothingIsForgotten, TypeOK
    <3> QED
      BY <3>1, OverNoContexts DEF TypeOK
  <2>2. CASE ~proxied
    <3>1. activeContexts = NoContexts
      BY <2>2, NoneWaits DEF NothingIsForgotten, TypeOK
    <3> QED
      BY <3>1, OverNoContexts DEF TypeOK
  <2> QED
    BY <2>1, <2>2
<1>4. Over(todoContexts, activeContexts)' = Over(activeContexts, todoContexts)
  BY <1>1, <1>2, OverNoContexts
<1>5. Waiting(activeContexts)' = {}
  BY <1>1, NoContextsType
<1> QED
  BY <1>1, <1>3, <1>4, <1>5 DEF NothingIsForgotten

\* With a proxy the queues are emptied, and what is active is what was asked for.
LEMMA ProcessNotForgotten ==
  ASSUME TypeOK, NothingIsForgotten, stage # "gone", ProcessTodoQueues, UNCHANGED current
  PROVE  /\ todo' = {} /\ Waiting(todoContexts)' = {}
         /\ Over(todoContexts, activeContexts)' = current'
<1>1. CASE todo = {} /\ Waiting(todoContexts) = {}
  BY <1>1 DEF ProcessTodoQueues, NothingIsForgotten, queueVars
<1>2. CASE ~(todo = {} /\ Waiting(todoContexts) = {})
  <2>1. /\ todo' = {} /\ todoContexts' = NoContexts
        /\ activeContexts' = Over(todoContexts, activeContexts)
    BY <1>2 DEF ProcessTodoQueues
  <2>2. activeContexts' = current'
    BY <2>1 DEF NothingIsForgotten
  <2>3. Over(todoContexts, activeContexts)' = activeContexts'
    BY <2>1, <2>2, OverNoContexts DEF TypeOK
  <2>4. Waiting(todoContexts)' = {}
    BY <2>1, NoContextsType
  <2> QED
    BY <2>1, <2>2, <2>3, <2>4
<1> QED
  BY <1>1, <1>2

\* A proxy, or an idle handler, empties the queues.
LEMMA EmptyNotForgotten ==
  ASSUME TypeOK, NothingIsForgotten, stage # "gone",
         HandleProxyReady \/ (TodoHandler /\ proxied)
  PROVE  NothingIsForgotten'
<1>1. ProcessTodoQueues /\ UNCHANGED current
  BY DEF HandleProxyReady, TodoHandler
<1>2. proxied' /\ connecting' = FALSE
  BY DEF HandleProxyReady, TodoHandler, NothingIsForgotten, TypeOK
<1> QED
  BY <1>1, <1>2, ProcessNotForgotten DEF NothingIsForgotten

\* Of the owners a proxy tells only that there is none changes the queues.
LEMMA NotifyNotForgotten ==
  ASSUME TypeOK, NothingIsForgotten, stage # "gone", NEW n, NotifyNameOwner(n),
         UNCHANGED <<current, idle>>
  PROVE  NothingIsForgotten'
<1>1. CASE n = 0
  <2>1. Lost
    BY <1>1 DEF NotifyNameOwner
  <2> QED
    BY <2>1, LostNotForgotten DEF NothingIsForgotten
<1>2. CASE n # 0
  BY <1>2 DEF NotifyNameOwner, NothingIsForgotten, Waiting, Over, queueVars
<1> QED
  BY <1>1, <1>2

\* A context asked for goes where it is kept while there is a proxy, or is not.
LEMMA SwitchNotForgotten ==
  ASSUME TypeOK, NothingIsForgotten, stage # "gone",
         NEW p \in Publishers, SwitchWindowContext(p)
  PROVE  NothingIsForgotten'
<1> DEFINE w == WindowOf[p]
<1>1. w \in Scopes /\ p # None
  BY ManagerAssumption
<1>2. current' = [current EXCEPT ![w] = p]
  BY DEF SwitchWindowContext
<1>3. CASE proxied
  <2>1. /\ activeContexts' = [activeContexts EXCEPT ![w] = p]
        /\ todoContexts' = todoContexts
        /\ UNCHANGED <<stage, connecting, proxied, todo, idle>>
    BY <1>3 DEF SwitchWindowContext
  <2>2. todoContexts = NoContexts
    BY <1>3, NoneWaits DEF NothingIsForgotten, TypeOK
  <2>3. Over(todoContexts, activeContexts)' = activeContexts'
    BY <2>1, <2>2, <1>1, OverNoContexts, OverExcept DEF TypeOK
  <2>4. activeContexts = current
    BY <1>3, <2>2, OverNoContexts DEF NothingIsForgotten, TypeOK
  <2> QED
    BY <1>2, <1>3, <2>1, <2>3, <2>4 DEF NothingIsForgotten, Waiting
<1>4. CASE ~proxied
  <2>1. /\ todoContexts' = [todoContexts EXCEPT ![w] = p]
        /\ UNCHANGED <<stage, connecting, proxied, todo, idle, activeContexts>>
    BY <1>4 DEF SwitchWindowContext
  <2>2. activeContexts = NoContexts
    BY <1>4, NoneWaits DEF NothingIsForgotten, TypeOK
  <2>3. Over(todoContexts, activeContexts)' = todoContexts'
    BY <2>1, <2>2, <1>1, OverNoContexts, OverExcept DEF TypeOK
  <2>4. todoContexts = current
    BY <1>4, <2>2, OverNoContexts DEF NothingIsForgotten, TypeOK
  <2> QED
    BY <1>2, <1>4, <2>1, <2>3, <2>4 DEF NothingIsForgotten, Waiting
<1> QED
  BY <1>3, <1>4

LEMMA NextNotForgotten ==
  ASSUME TypeOK, NothingIsForgotten, [Next]_vars
  PROVE  NothingIsForgotten'
<1> DEFINE kept == <<stage, connecting, proxied, todo, todoContexts, activeContexts, idle, current>>
<1>1. CASE stage = "gone"
  <2>1. stage' = "gone"
    BY <1>1 DEF Next, vars, Start, Stop, Serve, WindowCreated, WindowDestroyed, SetUp, BusGet,
       ServiceProxy, Handle, HandleOwner, HandleRegistered, HandleProxyReady, TodoHandler,
       AddActions, SwitchWindowContext, RemoveActions, Dispose, managerVars
  <2> QED
    BY <2>1 DEF NothingIsForgotten
<1>2. CASE stage # "gone"
  <2>1. ASSUME UNCHANGED kept PROVE NothingIsForgotten'
    BY <2>1 DEF NothingIsForgotten, Waiting, Over
  <2>2. CASE Start \/ Stop \/ Serve
    <3>1. CASE Start
      BY <3>1, <2>1 DEF Start, managerVars, queueVars, historyVars
    <3>2. CASE Stop
      BY <3>2, <2>1 DEF Stop, managerVars, queueVars, historyVars
    <3>3. CASE Serve
      BY <3>3, <2>1 DEF Serve, HandleAddSources, HandleSetContexts, managerVars, queueVars,
                        historyVars
    <3> QED
      BY <2>2, <3>1, <3>2, <3>3
  <2>3. CASE \E v \in Windows : WindowCreated(v) \/ WindowDestroyed(v)
    BY <2>3, <2>1 DEF WindowCreated, WindowDestroyed, managerVars, queueVars, historyVars
  <2>4. CASE BusGet
    BY <2>4, <1>2 DEF BusGet, NothingIsForgotten, Waiting, Over, queueVars, historyVars
  <2>5. CASE ServiceProxy
    BY <2>5, <1>2, NotifyNotForgotten DEF ServiceProxy
  <2>6. CASE HandleOwner
    <3>1. UNCHANGED <<current, idle, stage>>
      BY <2>6 DEF HandleOwner
    <3>2. CASE NotifyNameOwner(Head(inbox).life)
      BY <3>1, <3>2, <1>2, NotifyNotForgotten
    <3>3. CASE UNCHANGED <<known, calls, connecting, proxied, queueVars, unheard, dropped>>
      BY <3>1, <3>3, <2>1 DEF queueVars
    <3> QED
      BY <2>6, <3>2, <3>3 DEF HandleOwner
  <2>7. CASE HandleRegistered
    BY <2>7, <2>1 DEF HandleRegistered, managerVars, queueVars, historyVars
  <2>8. CASE HandleProxyReady \/ (TodoHandler /\ proxied)
    BY <2>8, <1>2, EmptyNotForgotten
  <2>9. CASE TodoHandler /\ ~proxied
    BY <2>9 DEF TodoHandler, NothingIsForgotten, Waiting, Over, queueVars
  <2>10. ASSUME NEW p \in Publishers, AddActions(p) PROVE NothingIsForgotten'
    BY <2>10 DEF AddActions, NothingIsForgotten, Waiting, Over, historyVars
  <2>11. ASSUME NEW p \in Publishers, SwitchWindowContext(p) PROVE NothingIsForgotten'
    BY <2>11, <1>2, SwitchNotForgotten
  <2>12. ASSUME NEW p \in Publishers, RemoveActions(p) PROVE NothingIsForgotten'
    BY <2>12, <2>1 DEF RemoveActions, managerVars, queueVars, historyVars
  <2>13. CASE Dispose
    BY <2>13 DEF Dispose, NothingIsForgotten
  <2>14. CASE UNCHANGED vars
    BY <2>14, <2>1 DEF vars, managerVars, queueVars, historyVars
  <2> QED
    BY <2>2, <2>3, <2>4, <2>5, <2>6, <2>7, <2>8, <2>9, <2>10, <2>11, <2>12, <2>13, <2>14
       DEF Next, SetUp, Handle
<1> QED
  BY <1>1, <1>2

\* Every context the application asked for is in a queue or kept as active, for as
\* long as there is a manager and whatever the service does, and nothing waits with
\* a proxy there and no handler under way.
THEOREM NothingForgotten == Spec => []NothingIsForgotten
BY InitTypeOK, InitNotForgotten, NextTypeOK, NextNotForgotten, PTL DEF Spec

-----------------------------------------------------------------------------
(* What is in a queue, and what a queue says last of a window.             *)

Elements(q) == {q[i] : i \in DOMAIN q}

\* A call that sets the context of the window w.
Carries(c, w) == c.method = "SetWindowContext" /\ c.contexts[w] # None
CarriedIn(q, w) == \E c \in Elements(q) : Carries(c, w)

\* The last of the calls q that sets the context of w sets it to p.
LastSays(q, w, p) ==
  \A i \in DOMAIN q :
    /\ Carries(q[i], w)
    /\ \A j \in DOMAIN q : Carries(q[j], w) => j <= i
    => q[i].contexts[w] = p

LEMMA AppendDomain ==
  ASSUME NEW S, NEW q \in Seq(S), NEW m \in S
  PROVE  /\ DOMAIN Append(q, m) = DOMAIN q \cup {Len(q) + 1}
         /\ Append(q, m)[Len(q) + 1] = m
         /\ \A i \in DOMAIN q : Append(q, m)[i] = q[i] /\ i \in Nat /\ i <= Len(q)
         /\ Len(q) \in Nat
OBVIOUS

LEMMA TailDomain ==
  ASSUME NEW S, NEW q \in Seq(S), q # <<>>
  PROVE  /\ 1 \in DOMAIN q /\ q[1] = Head(q)
         /\ \A i \in DOMAIN Tail(q) : i \in Nat /\ i + 1 \in DOMAIN q /\ Tail(q)[i] = q[i + 1]
         /\ \A i \in DOMAIN q : i \in Nat
              /\ (i = 1 \/ (i - 1 \in DOMAIN Tail(q) /\ Tail(q)[i - 1] = q[i]))
OBVIOUS

LEMMA AppendElements ==
  ASSUME NEW S, NEW q \in Seq(S), NEW m \in S
  PROVE  Elements(Append(q, m)) = Elements(q) \cup {m}
<1> DEFINE r == Append(q, m)
<1>1. /\ DOMAIN r = DOMAIN q \cup {Len(q) + 1} /\ r[Len(q) + 1] = m
      /\ \A i \in DOMAIN q : r[i] = q[i]
  BY AppendDomain
<1> HIDE DEF r
<1>2. Elements(r) = Elements(q) \cup {m}
  BY <1>1 DEF Elements
<1> QED
  BY <1>2 DEF r

LEMMA TailElements ==
  ASSUME NEW S, NEW q \in Seq(S), q # <<>>
  PROVE  Elements(q) = {Head(q)} \cup Elements(Tail(q))
<1> DEFINE r == Tail(q)
<1>1. /\ 1 \in DOMAIN q /\ q[1] = Head(q)
      /\ \A i \in DOMAIN r : i + 1 \in DOMAIN q /\ r[i] = q[i + 1]
      /\ \A i \in DOMAIN q : i = 1 \/ (i - 1 \in DOMAIN r /\ r[i - 1] = q[i])
  BY TailDomain
<1> HIDE DEF r
<1>2. Elements(q) = {Head(q)} \cup Elements(r)
  BY <1>1 DEF Elements
<1> QED
  BY <1>2 DEF r

LEMMA ConcatElements ==
  ASSUME NEW S, NEW q \in Seq(S), NEW r \in Seq(S)
  PROVE  Elements(q) \subseteq Elements(q \o r)
<1> DEFINE s == q \o r
<1>1. \A i \in DOMAIN q : i \in DOMAIN s /\ s[i] = q[i]
  OBVIOUS
<1> HIDE DEF s
<1>2. Elements(q) \subseteq Elements(s)
  BY <1>1 DEF Elements
<1> QED
  BY <1>2 DEF s

\* What a queue says last after a message more.
LEMMA AppendSays ==
  ASSUME NEW S, NEW q \in Seq(S), NEW m \in S, NEW w
  PROVE  /\ CarriedIn(Append(q, m), w) <=> CarriedIn(q, w) \/ Carries(m, w)
         /\ Carries(m, w) => LastSays(Append(q, m), w, m.contexts[w])
         /\ \A p : ~Carries(m, w) /\ LastSays(q, w, p) => LastSays(Append(q, m), w, p)
<1> DEFINE r == Append(q, m)
           n == Len(q) + 1
<1>1. /\ DOMAIN r = DOMAIN q \cup {n} /\ r[n] = m
      /\ \A i \in DOMAIN q : r[i] = q[i] /\ i \in Nat /\ i < n
      /\ n \in Nat
  BY AppendDomain
<1>2. CarriedIn(r, w) <=> CarriedIn(q, w) \/ Carries(m, w)
  BY AppendElements DEF CarriedIn
<1> HIDE DEF r, n
<1>3. ASSUME Carries(m, w) PROVE LastSays(r, w, m.contexts[w])
  <2> SUFFICES ASSUME NEW i \in DOMAIN r,
                      \A j \in DOMAIN r : Carries(r[j], w) => j <= i
               PROVE  r[i].contexts[w] = m.contexts[w]
    BY DEF LastSays
  <2>1. n <= i
    BY <1>1, <1>3
  <2>2. i = n
    BY <1>1, <2>1
  <2> QED
    BY <2>2, <1>1
<1>4. ASSUME NEW p, ~Carries(m, w), LastSays(q, w, p) PROVE LastSays(r, w, p)
  <2> SUFFICES ASSUME NEW i \in DOMAIN r, Carries(r[i], w),
                      \A j \in DOMAIN r : Carries(r[j], w) => j <= i
               PROVE  r[i].contexts[w] = p
    BY DEF LastSays
  <2>1. i \in DOMAIN q /\ r[i] = q[i]
    BY <1>1, <1>4
  <2>2. \A j \in DOMAIN q : Carries(q[j], w) => j <= i
    BY <1>1
  <2> QED
    BY <1>4, <2>1, <2>2 DEF LastSays
<1> QED
  BY <1>2, <1>3, <1>4 DEF r

\* And when its first message is handled.
LEMMA TailSays ==
  ASSUME NEW S, NEW q \in Seq(S), q # <<>>, NEW w
  PROVE  /\ CarriedIn(q, w) <=> Carries(Head(q), w) \/ CarriedIn(Tail(q), w)
         /\ \A p : LastSays(q, w, p) =>
              /\ LastSays(Tail(q), w, p)
              /\ Carries(Head(q), w) /\ ~CarriedIn(Tail(q), w) => Head(q).contexts[w] = p
<1> DEFINE r == Tail(q)
<1>1. /\ 1 \in DOMAIN q /\ q[1] = Head(q)
      /\ \A i \in DOMAIN r : i \in Nat /\ i + 1 \in DOMAIN q /\ r[i] = q[i + 1]
      /\ \A i \in DOMAIN q : i \in Nat
            /\ (i = 1 \/ (i - 1 \in DOMAIN r /\ r[i - 1] = q[i]))
  BY TailDomain
<1>2. CarriedIn(q, w) <=> Carries(Head(q), w) \/ CarriedIn(r, w)
  BY TailElements DEF CarriedIn
<1>3. r \in Seq(S)
  OBVIOUS
<1>4. \A i \in DOMAIN r : i >= 1
  BY <1>3
<1> HIDE DEF r
<1>5. ASSUME NEW p, LastSays(q, w, p) PROVE LastSays(r, w, p)
  <2> SUFFICES ASSUME NEW i \in DOMAIN r, Carries(r[i], w),
                      \A j \in DOMAIN r : Carries(r[j], w) => j <= i
               PROVE  r[i].contexts[w] = p
    BY DEF LastSays
  <2>1. i + 1 \in DOMAIN q /\ Carries(q[i + 1], w) /\ q[i + 1] = r[i]
    BY <1>1
  <2>2. ASSUME NEW j \in DOMAIN q, Carries(q[j], w) PROVE j <= i + 1
    <3>1. CASE j = 1
      BY <3>1, <1>1, <1>4
    <3>2. CASE j # 1
      <4>1. j - 1 \in DOMAIN r /\ Carries(r[j - 1], w)
        BY <3>2, <2>2, <1>1
      <4>2. j - 1 <= i
        BY <4>1
      <4> QED
        BY <4>2, <1>1
    <3> QED
      BY <3>1, <3>2
  <2> QED
    BY <1>5, <2>1, <2>2 DEF LastSays
<1>6. ASSUME NEW p, LastSays(q, w, p), Carries(Head(q), w), ~CarriedIn(r, w)
      PROVE  Head(q).contexts[w] = p
  <2>1. ASSUME NEW j \in DOMAIN q, Carries(q[j], w) PROVE j <= 1
    <3>1. j \in Nat /\ ~(j - 1 \in DOMAIN r /\ r[j - 1] = q[j])
      BY <2>1, <1>1, <1>6 DEF CarriedIn, Elements
    <3> QED
      BY <3>1, <1>1
  <2> QED
    BY <1>6, <1>1, <2>1 DEF LastSays
<1> QED
  BY <1>2, <1>5, <1>6 DEF r

LEMMA AppendTwice ==
  ASSUME NEW S, NEW q \in Seq(S), NEW a \in S, NEW b \in S
  PROVE  q \o <<a>> = Append(q, a) /\ q \o <<a, b>> = Append(Append(q, a), b)
OBVIOUS

-----------------------------------------------------------------------------
(* A manager that is set up in any order of its callbacks has a proxy, or  *)
(* one is on its way.                                                      *)

\* Until the proxy of the service is there nothing is sent or heard of.
NothingBeforeReady ==
  stage \in {"bus", "proxy"} =>
    ~proxied /\ inbox = <<>> /\ calls = <<>> /\ publishers \subseteq todo

\* No owner is known before it is there.
OwnersHaveBeen ==
  /\ known <= life /\ (up => life > 0)
  /\ \A m \in Elements(inbox) : m.kind = "Owner" => m.life <= life

HasKind(k) == \E m \in Elements(inbox) : m.kind = k
HasMethod(k) == \E c \in Elements(calls) : c.method = k

\* While the service stays, the chain of calls and answers that ends in a proxy is
\* nowhere broken.
ProxyIsComing ==
  stage = "ready" /\ up /\ known = life /\ ~proxied =>
    \/ HasMethod("RegisterApplication") \/ HasMethod("GetProxy")
    \/ HasKind("Registered") \/ HasKind("ProxyReady")

ComingInv == NothingBeforeReady /\ OwnersHaveBeen /\ ProxyIsComing

LEMMA InitComing == Init => ComingInv
BY ManagerAssumption
   DEF Init, ComingInv, NothingBeforeReady, OwnersHaveBeen, ProxyIsComing, Elements

\* What the messages are.
LEMMA KindsOfMessages ==
  /\ Registered.kind = "Registered" /\ ProxyReady.kind = "ProxyReady"
  /\ \A n : Owner(n).kind = "Owner" /\ Owner(n).life = n
  /\ Register.method = "RegisterApplication" /\ GetProxy.method = "GetProxy"
  /\ \A ps : AddSources(ps).method = "AddSources" /\ AddSources(ps).sources = ps
  /\ \A f : SetContexts(f).method = "SetWindowContext" /\ SetContexts(f).contexts = f
BY DEF Registered, ProxyReady, Owner, Register, GetProxy, AddSources, SetContexts

\* A message for the manager adds itself to what is in its inbox.
LEMMA AnswerElements ==
  ASSUME TypeOK, stage # "gone", NEW m \in Messages
  PROVE  Elements(Answer(m)) = Elements(inbox) \cup {m}
BY AppendElements DEF Answer, TypeOK

LEMMA AnnounceElements ==
  ASSUME TypeOK, NEW n \in 0..MaxLives
  PROVE  Elements(Announce(n)) = Elements(inbox) \cup (IF stage = "ready" THEN {Owner(n)} ELSE {})
<1>1. CASE stage = "ready"
  BY <1>1, AppendElements, MessagesType DEF Announce, TypeOK
<1>2. CASE stage # "ready"
  BY <1>2 DEF Announce
<1> QED
  BY <1>1, <1>2

LEMMA StartComing == ASSUME TypeOK, ComingInv, Start PROVE ComingInv'
<1>1. life' = life + 1 /\ inbox' = Announce(life + 1) /\ life \in Nat /\ known \in Nat
      /\ UNCHANGED <<calls, stage, known, proxied, publishers, todo>>
  BY DEF Start, TypeOK, managerVars, queueVars
<1>2. life + 1 \in 0..MaxLives
  BY ManagerAssumption DEF TypeOK, Start
<1>3. Elements(inbox') \subseteq Elements(inbox) \cup {Owner(life + 1)}
  BY <1>1, <1>2, AnnounceElements
<1>4. NothingBeforeReady'
  BY <1>1 DEF ComingInv, NothingBeforeReady, Announce
<1>5. ASSUME NEW m \in Elements(inbox'), m.kind = "Owner" PROVE m.life <= life + 1
  <2>1. CASE m = Owner(life + 1)
    BY <2>1, <1>1, KindsOfMessages
  <2>2. CASE m \in Elements(inbox)
    <3>1. m.life <= life
      BY <2>2, <1>5 DEF ComingInv, OwnersHaveBeen
    <3>2. \E i \in DOMAIN inbox : m = inbox[i]
      BY <2>2 DEF Elements
    <3>3. m \in Messages
      BY <3>2 DEF TypeOK
    <3>4. m.life \in Nat
      BY <3>3, <1>5 DEF Messages
    <3> QED
      BY ONLY <3>1, <3>4, <1>1
  <2> QED
    BY <2>1, <2>2, <1>3
<1>6. known <= life
  BY DEF ComingInv, OwnersHaveBeen
<1>7. known' <= life' /\ life' > 0 /\ known' # life'
  BY ONLY <1>6, <1>1
<1>8. OwnersHaveBeen'
  BY <1>1, <1>5, <1>7 DEF OwnersHaveBeen
<1>9. ProxyIsComing'
  BY <1>7 DEF ProxyIsComing
<1> QED
  BY <1>4, <1>8, <1>9 DEF ComingInv

LEMMA StopComing == ASSUME TypeOK, ComingInv, Stop PROVE ComingInv'
<1> DEFINE waiting == {i \in DOMAIN calls : calls[i].method = "GetProxy"}
           proxies == [i \in 1..Cardinality(waiting) |-> ProxyReady]
<1>1. Cardinality(waiting) \in Nat
  <2>1. IsFiniteSet(DOMAIN calls)
    BY FS_Interval DEF TypeOK
  <2> QED
    BY <2>1, FS_Subset, FS_CardinalityType
<1>2. UNCHANGED <<life, stage, known, proxied, publishers, todo>> /\ up' = FALSE /\ calls' = <<>>
      /\ inbox' = IF stage = "gone" THEN inbox ELSE Announce(0) \o proxies
  BY DEF Stop, managerVars, queueVars
<1>3. ASSUME NEW m \in Elements(inbox') PROVE m \in Elements(inbox) \/ m = Owner(0) \/ m = ProxyReady
  <2>1. CASE stage = "gone"
    BY <2>1, <1>2
  <2>2. CASE stage # "gone"
    <3> DEFINE a == Announce(0)
               n == Cardinality(waiting)
    <3>1. a \in Seq(Messages) /\ Elements(a) \subseteq Elements(inbox) \cup {Owner(0)}
      BY AnnounceType, AnnounceElements, ManagerAssumption
    <3>2. inbox' = a \o proxies /\ n \in Nat
      BY <2>2, <1>2, <1>1
    <3>3. PICK i \in DOMAIN inbox' : m = inbox'[i]
      BY <1>3 DEF Elements
    <3> HIDE DEF a, waiting, n
    <3>4. (i \in DOMAIN a /\ inbox'[i] = a[i]) \/ inbox'[i] = ProxyReady
      <4>1. proxies = [k \in 1..n |-> ProxyReady]
        BY DEF n
      <4> HIDE DEF proxies
      <4> QED
        BY <3>1, <3>2, <3>3, <4>1
    <3> QED
      BY <3>1, <3>3, <3>4 DEF Elements
  <2> QED
    BY <2>1, <2>2
<1>4. NothingBeforeReady'
  <2> SUFFICES ASSUME stage \in {"bus", "proxy"} PROVE NothingBeforeReady'
    BY <1>2 DEF NothingBeforeReady
  <2>1. ~proxied /\ inbox = <<>> /\ calls = <<>> /\ publishers \subseteq todo
    BY DEF ComingInv, NothingBeforeReady
  <2>2. waiting = {}
    BY <2>1
  <2>3. Cardinality(waiting) = 0
    BY <2>2, FS_EmptySet
  <2>4. Announce(0) = <<>>
    BY <2>1 DEF Announce
  <2>5. proxies = <<>>
    <3> HIDE DEF waiting
    <3> QED
      BY <2>3
  <2>6. inbox' = <<>> \o <<>>
    BY <1>2, <2>4, <2>5
  <2>7. inbox' = <<>>
    BY <2>6
  <2> QED
    BY <1>2, <2>1, <2>7 DEF NothingBeforeReady
<1>5. OwnersHaveBeen'
  <2>1. life \in Nat /\ 0 <= life
    BY DEF TypeOK
  <2>2. ASSUME NEW m \in Elements(inbox'), m.kind = "Owner" PROVE m.life <= life
    <3>1. m # ProxyReady
      BY <2>2, KindsOfMessages
    <3>2. CASE m = Owner(0)
      BY <3>2, <2>1, KindsOfMessages
    <3>3. CASE m \in Elements(inbox)
      BY <3>3, <2>2 DEF ComingInv, OwnersHaveBeen
    <3> QED
      BY <3>1, <3>2, <3>3, <1>3
  <2> QED
    BY <1>2, <2>2 DEF ComingInv, OwnersHaveBeen
<1>6. ProxyIsComing'
  BY <1>2 DEF ProxyIsComing
<1> QED
  BY <1>4, <1>5, <1>6 DEF ComingInv

\* What the service answers stands for the call.
LEMMA ServeComing == ASSUME TypeOK, ComingInv, Serve PROVE ComingInv'
<1> DEFINE m == Head(calls)
<1>1. /\ UNCHANGED <<life, up, stage, known, proxied, publishers, todo>>
      /\ calls # <<>> /\ calls' = Tail(calls)
  BY DEF Serve, managerVars, queueVars
<1>2. stage \notin {"bus", "proxy"}
  BY <1>1 DEF ComingInv, NothingBeforeReady
<1>3. Elements(calls) = {m} \cup Elements(calls')
  BY <1>1, TailElements DEF TypeOK
<1>4. \/ m.method = "RegisterApplication" /\ inbox' = Answer(Registered)
      \/ m.method = "GetProxy" /\ inbox' = Answer(ProxyReady)
      \/ m.method \in {"AddSources", "SetWindowContext"} /\ inbox' = inbox
  BY DEF Serve
<1> HIDE DEF m
<1>5. NothingBeforeReady'
  BY <1>1, <1>2 DEF NothingBeforeReady
<1>6. CASE stage = "gone"
  <2>1. inbox' = inbox
    BY <1>4, <1>6 DEF Answer
  <2> QED
    BY <2>1, <1>1, <1>5, <1>6 DEF ComingInv, OwnersHaveBeen, ProxyIsComing
<1>7. CASE stage # "gone"
  <2>1. Elements(Answer(Registered)) = Elements(inbox) \cup {Registered}
    BY <1>7, AnswerElements, MessagesType
  <2>2. Elements(Answer(ProxyReady)) = Elements(inbox) \cup {ProxyReady}
    BY <1>7, AnswerElements, MessagesType
  <2>3. /\ Elements(inbox) \subseteq Elements(inbox')
        /\ \A x \in Elements(inbox') : x \in Elements(inbox) \/ x = Registered \/ x = ProxyReady
        /\ m.method = "RegisterApplication" => Registered \in Elements(inbox')
        /\ m.method = "GetProxy" => ProxyReady \in Elements(inbox')
    BY <2>1, <2>2, <1>4
  <2>4. OwnersHaveBeen'
    BY <2>3, <1>1, KindsOfMessages DEF ComingInv, OwnersHaveBeen
  <2>5. ProxyIsComing'
    BY <2>3, <1>1, <1>3, KindsOfMessages DEF ComingInv, ProxyIsComing, HasKind, HasMethod
  <2> QED
    BY <1>5, <2>4, <2>5 DEF ComingInv
<1> QED
  BY <1>6, <1>7

\* An owner that is there is sent the application, one that is not is not known.
LEMMA NotifyComing ==
  ASSUME TypeOK, ComingInv, NEW n \in Nat, n <= life, NotifyNameOwner(n),
         UNCHANGED <<life, up>>, stage' = "ready",
         Elements(inbox') \subseteq Elements(inbox)
  PROVE  ComingInv'
<1>1. life \in Nat /\ known' = n
  BY DEF NotifyNameOwner, TypeOK
<1>2. NothingBeforeReady'
  BY DEF NothingBeforeReady
<1>3. OwnersHaveBeen'
  BY <1>1 DEF ComingInv, OwnersHaveBeen
<1>4. ProxyIsComing'
  <2> SUFFICES ASSUME up', known' = life', ~proxied'
               PROVE  HasMethod("RegisterApplication")'
    BY DEF ProxyIsComing
  <2>1. n # 0 /\ n = NameOwner
    BY <1>1 DEF ComingInv, OwnersHaveBeen, NameOwner
  <2>2. calls' = Append(calls, Register)
    BY <2>1 DEF NotifyNameOwner
  <2>3. Register \in Elements(calls')
    BY <2>2, AppendElements, CallsType DEF TypeOK
  <2> QED
    BY <2>3, KindsOfMessages DEF HasMethod
<1> QED
  BY <1>2, <1>3, <1>4 DEF ComingInv

\* What process_todo_queues sends is sent besides what is under way.
LEMMA ProcessElements ==
  ASSUME TypeOK, ProcessTodoQueues
  PROVE  Elements(calls) \subseteq Elements(calls') /\ publishers' = publishers
<1>1. CASE calls' = calls
  BY <1>1 DEF ProcessTodoQueues, queueVars
<1>2. CASE calls' # calls
  <2> DEFINE ms == IF Waiting(todoContexts) = {} THEN <<AddSources(todo)>>
                   ELSE <<AddSources(todo), SetContexts(todoContexts)>>
  <2>1. calls' = calls \o ms /\ publishers' = publishers
    BY <1>2 DEF ProcessTodoQueues, Send
  <2>2. ms \in Seq(Calls)
    BY CallsType DEF TypeOK
  <2> HIDE DEF ms
  <2> QED
    BY <2>1, <2>2, ConcatElements DEF TypeOK
<1> QED
  BY <1>1, <1>2

\* A message is handled, and the manager gets another.
LEMMA TailAppendElements ==
  ASSUME TypeOK, inbox # <<>>, NEW m \in Messages
  PROVE  Elements(Append(Tail(inbox), m)) = Elements(Tail(inbox)) \cup {m}
<1> DEFINE t == Tail(inbox)
<1>1. t \in Seq(Messages)
  BY DEF TypeOK
<1> HIDE DEF t
<1>2. Elements(Append(t, m)) = Elements(t) \cup {m}
  BY <1>1, AppendElements
<1> QED
  BY <1>2 DEF t

LEMMA CallbackComing == ASSUME TypeOK, ComingInv, SetUp \/ Handle PROVE ComingInv'
<1>1. CASE BusGet
  BY <1>1 DEF BusGet, ComingInv, NothingBeforeReady, OwnersHaveBeen, ProxyIsComing, serviceVars,
              queueVars
<1>2. CASE ServiceProxy
  <2>1. /\ NotifyNameOwner(NameOwner) /\ stage' = "ready"
        /\ UNCHANGED <<life, up, inbox>>
    BY <1>2 DEF ServiceProxy, serviceVars
  <2>2. NameOwner \in Nat /\ NameOwner <= life
    BY DEF NameOwner, TypeOK
  <2> QED
    BY <2>1, <2>2, NotifyComing
<1>3. ASSUME Handle PROVE ComingInv'
  <2>1. inbox # <<>> /\ UNCHANGED <<life, up, stage>>
    BY <1>3 DEF Handle, HandleOwner, HandleRegistered, HandleProxyReady, Receives, serviceVars,
                managerVars
  <2>2. stage \notin {"bus", "proxy"}
    BY <2>1 DEF ComingInv, NothingBeforeReady
  <2>3. Elements(inbox) = {Head(inbox)} \cup Elements(Tail(inbox))
    BY <2>1, TailElements DEF TypeOK
  <2>4. NothingBeforeReady'
    BY <2>1, <2>2 DEF NothingBeforeReady
  <2>5. CASE stage = "gone"
    <3>1. Elements(inbox') \subseteq Elements(inbox) \cup {ProxyReady}
      <4>1. CASE inbox' = Tail(inbox)
        BY <4>1, <2>3
      <4>2. CASE inbox' = Append(Tail(inbox), ProxyReady)
        <5>1. Elements(inbox') = Elements(Tail(inbox)) \cup {ProxyReady}
          BY <4>2, <2>1, TailAppendElements, MessagesType
        <5> QED
          BY <5>1, <2>3
      <4> QED
        BY <1>3, <4>1, <4>2 DEF Handle, HandleOwner, HandleRegistered, HandleProxyReady
    <3>2. known' <= life
      <4>1. CASE known' = known
        BY <4>1 DEF ComingInv, OwnersHaveBeen
      <4>2. CASE known' # known
        <5>1. HandleOwner /\ known' = Head(inbox).life
          BY <1>3, <4>2 DEF Handle, HandleOwner, HandleRegistered, HandleProxyReady,
             NotifyNameOwner, managerVars
        <5> QED
          BY <5>1, <2>3 DEF HandleOwner, Receives, ComingInv, OwnersHaveBeen
      <4> QED
        BY <4>1, <4>2
    <3>3. OwnersHaveBeen'
      BY <3>1, <3>2, <2>1, KindsOfMessages DEF ComingInv, OwnersHaveBeen
    <3> QED
      BY <2>1, <2>4, <2>5, <3>3 DEF ComingInv, ProxyIsComing
  <2>6. CASE stage = "ready"
    <3>1. CASE HandleOwner
      <4>1. /\ Head(inbox) \in Messages /\ Head(inbox).kind = "Owner" /\ inbox' = Tail(inbox)
        BY <3>1 DEF HandleOwner, Receives, TypeOK
      <4>2. Head(inbox).life \in Nat /\ Head(inbox).life <= life
        BY <4>1, <2>3 DEF Messages, ComingInv, OwnersHaveBeen
      <4>3. CASE NotifyNameOwner(Head(inbox).life)
        BY <4>1, <4>2, <4>3, <2>1, <2>3, <2>6, NotifyComing
      <4>4. CASE UNCHANGED <<known, calls, connecting, proxied, queueVars, unheard, dropped>>
        <5>1. OwnersHaveBeen'
          BY <4>1, <4>4, <2>1, <2>3 DEF ComingInv, OwnersHaveBeen
        <5>2. ProxyIsComing'
          BY <4>1, <4>4, <2>1, <2>3 DEF ComingInv, ProxyIsComing, HasKind, HasMethod
        <5> QED
          BY <2>4, <5>1, <5>2 DEF ComingInv
      <4> QED
        BY <3>1, <4>3, <4>4 DEF HandleOwner
    <3>2. CASE HandleRegistered
      <4>1. UNCHANGED <<life, up, stage, known, proxied>>
        BY <3>2 DEF HandleRegistered, serviceVars, managerVars
      <4>2. CASE up
        <5>1. calls' = Append(calls, GetProxy) /\ inbox' = Tail(inbox)
          BY <3>2, <4>2 DEF HandleRegistered
        <5>2. GetProxy \in Elements(calls')
          BY <5>1, AppendElements, CallsType DEF TypeOK
        <5>3. OwnersHaveBeen'
          BY <5>1, <4>1, <2>3 DEF ComingInv, OwnersHaveBeen
        <5>4. ProxyIsComing'
          BY <5>2, KindsOfMessages DEF ProxyIsComing, HasMethod
        <5> QED
          BY <2>4, <5>3, <5>4 DEF ComingInv
      <4>3. CASE ~up
        <5>1. inbox' = Append(Tail(inbox), ProxyReady)
          BY <3>2, <4>3 DEF HandleRegistered
        <5>2. Elements(inbox') = Elements(Tail(inbox)) \cup {ProxyReady}
          BY <5>1, <2>1, TailAppendElements, MessagesType
        <5>3. OwnersHaveBeen'
          BY <5>2, <4>1, <2>3, KindsOfMessages DEF ComingInv, OwnersHaveBeen
        <5>4. ProxyIsComing'
          BY <4>1, <4>3 DEF ProxyIsComing
        <5> QED
          BY <2>4, <5>3, <5>4 DEF ComingInv
      <4> QED
        BY <4>2, <4>3
    <3>3. CASE HandleProxyReady
      <4>1. inbox' = Tail(inbox) /\ proxied' = TRUE /\ UNCHANGED known
        BY <3>3 DEF HandleProxyReady
      <4>2. OwnersHaveBeen'
        BY <4>1, <2>1, <2>3 DEF ComingInv, OwnersHaveBeen
      <4>3. ProxyIsComing'
        BY <4>1 DEF ProxyIsComing
      <4> QED
        BY <2>4, <4>2, <4>3 DEF ComingInv
    <3> QED
      BY <1>3, <3>1, <3>2, <3>3 DEF Handle
  <2> QED
    BY <2>2, <2>5, <2>6 DEF TypeOK
<1> QED
  BY <1>1, <1>2, <1>3 DEF SetUp

LEMMA AskComing ==
  ASSUME TypeOK, ComingInv, NEW p \in Publishers,
         AddActions(p) \/ SwitchWindowContext(p) \/ RemoveActions(p)
  PROVE  ComingInv'
<1>1. UNCHANGED <<life, up, inbox, stage, known, proxied>>
  BY DEF AddActions, SwitchWindowContext, RemoveActions, serviceVars, managerVars
<1>2. Elements(calls) \subseteq Elements(calls')
  <2> DEFINE ms == <<SetContexts([NoContexts EXCEPT ![WindowOf[p]] = p])>>
  <2>1. calls' = calls \/ calls' = calls \o ms
    BY DEF AddActions, SwitchWindowContext, RemoveActions, Send
  <2>2. ms \in Seq(Calls)
    BY ManagerAssumption, OverExcept, NoContextsType, CallsType
  <2> HIDE DEF ms
  <2> QED
    BY <2>1, <2>2, ConcatElements DEF TypeOK
<1>3. proxied \/ (calls' = calls /\ (publishers \subseteq todo => publishers' \subseteq todo'))
  BY DEF AddActions, SwitchWindowContext, RemoveActions, managerVars, queueVars
<1>4. NothingBeforeReady'
  BY <1>1, <1>3 DEF ComingInv, NothingBeforeReady
<1>5. OwnersHaveBeen'
  BY <1>1 DEF ComingInv, OwnersHaveBeen
<1>6. ProxyIsComing'
  BY <1>1, <1>2 DEF ComingInv, ProxyIsComing, HasKind, HasMethod
<1> QED
  BY <1>4, <1>5, <1>6 DEF ComingInv

LEMMA NextComing == ASSUME TypeOK, ComingInv, [Next]_vars PROVE ComingInv'
<1> DEFINE kept == <<life, up, calls, inbox, stage, known, proxied, publishers, todo>>
<1>1. ASSUME UNCHANGED kept PROVE ComingInv'
  BY <1>1 DEF ComingInv, NothingBeforeReady, OwnersHaveBeen, ProxyIsComing, HasKind, HasMethod
<1>2. ASSUME NEW w \in Windows, WindowCreated(w) \/ WindowDestroyed(w) PROVE ComingInv'
  BY <1>1, <1>2 DEF WindowCreated, WindowDestroyed, managerVars, queueVars
<1>3. CASE TodoHandler /\ proxied
  <2>1. Elements(calls) \subseteq Elements(calls') /\ publishers' = publishers
    BY <1>3, ProcessElements DEF TodoHandler
  <2>2. UNCHANGED <<life, up, inbox, stage, known, proxied>>
    BY <1>3 DEF TodoHandler, serviceVars
  <2> QED
    BY <1>3, <2>2 DEF ComingInv, NothingBeforeReady, OwnersHaveBeen, ProxyIsComing
<1>4. CASE TodoHandler /\ ~proxied
  BY <1>1, <1>4 DEF TodoHandler, serviceVars, queueVars
<1>5. CASE Dispose
  <2>1. /\ stage' = "gone" /\ known' = 0 /\ inbox' = <<>> /\ life \in Nat
        /\ UNCHANGED <<life, up>>
    BY <1>5 DEF Dispose, serviceVars, TypeOK
  <2>2. Elements(inbox') = {}
    BY <2>1 DEF Elements
  <2> QED
    BY <2>1, <2>2 DEF ComingInv, NothingBeforeReady, OwnersHaveBeen, ProxyIsComing
<1>6. CASE UNCHANGED vars
  BY <1>1, <1>6 DEF vars, serviceVars, managerVars, queueVars
<1> HIDE DEF kept
<1> QED
  BY <1>2, <1>3, <1>4, <1>5, <1>6, StartComing, StopComing, ServeComing, CallbackComing,
     AskComing DEF Next

-----------------------------------------------------------------------------
(* Where the publishers and the contexts are.                              *)

\* The manager is to hear that the service has gone, and will send all again.
WillSendAgain == Owner(0) \in Elements(inbox)

Sends(p) == \E c \in Elements(calls) : c.method = "AddSources" /\ p \in c.sources

\* Every publisher is in a queue of the manager, in a call, or with the service; or
\* is one the service has lost or not heard.
PublishersAreFound ==
  stage # "gone" /\ ~WillSendAgain =>
    \A p \in publishers : p \in todo \cup unheard \cup dropped \cup menus \/ Sends(p)

\* Nothing is sent or shown for a window nothing was asked for.
ContextsWereAsked ==
  stage # "gone" =>
    \A w \in Scopes : shown[w] # None \/ CarriedIn(calls, w) => current[w] # None

\* Where a window has no context waiting, the last call under way that sets one sets
\* the active one, and the service shows it when none is under way.
ContextsAreFound ==
  stage # "gone" /\ ~WillSendAgain =>
    \A w \in Scopes \ (Waiting(todoContexts) \cup unheard) :
      /\ LastSays(calls, w, activeContexts[w])
      /\ ~CarriedIn(calls, w) /\ w \notin dropped => shown[w] = activeContexts[w]

SourcesInv == PublishersAreFound /\ ContextsWereAsked /\ ContextsAreFound

\* No other context than the shown one is searched.
OnlyTheShown == \A w \in Scopes : active[w] \in {None, shown[w]}

LEMMA InitSources == Init => SourcesInv /\ OnlyTheShown
BY DEF Init, SourcesInv, PublishersAreFound, ContextsWereAsked, ContextsAreFound, OnlyTheShown,
   NoContexts, CarriedIn, LastSays, Elements

LEMMA NoObjectShows ==
  ASSUME NoObject
  PROVE  \A w \in Scopes : shown'[w] = None /\ active'[w] = None
BY DEF NoObject, NoContexts

LEMMA NextOnlyTheShown == ASSUME TypeOK, OnlyTheShown, [Next]_vars PROVE OnlyTheShown'
<1>1. ASSUME UNCHANGED <<shown, active>> PROVE OnlyTheShown'
  BY <1>1 DEF OnlyTheShown
<1>2. CASE Stop
  BY <1>2, NoObjectShows DEF Stop, OnlyTheShown
<1>3. CASE Serve
  <2>1. ASSUME NEW f, HandleSetContexts(f) PROVE OnlyTheShown'
    BY <2>1 DEF HandleSetContexts, OnlyTheShown
  <2> QED
    BY <1>1, <1>3, <2>1 DEF Serve, HandleAddSources, objectVars
<1>4. ASSUME NEW v \in Windows, WindowDestroyed(v) PROVE OnlyTheShown'
  <2>1. CASE keys = {v}
    BY <1>4, <2>1, NoObjectShows DEF WindowDestroyed, OnlyTheShown
  <2>2. CASE keys # {v}
    BY <1>4, <2>2 DEF WindowDestroyed, OnlyTheShown, TypeOK, Contexts
  <2> QED
    BY <2>1, <2>2
<1>5. ASSUME NEW v \in Windows, WindowCreated(v) PROVE OnlyTheShown'
  BY <1>1, <1>5 DEF WindowCreated
<1>6. CASE Start \/ BusGet \/ ServiceProxy \/ Handle \/ TodoHandler \/ Dispose
  BY <1>1, <1>6 DEF Start, BusGet, ServiceProxy, Handle, HandleOwner, HandleRegistered,
     HandleProxyReady, TodoHandler, Dispose, serviceVars, objectVars
<1>7. ASSUME NEW p \in Publishers, AddActions(p) \/ SwitchWindowContext(p) \/ RemoveActions(p)
      PROVE  OnlyTheShown'
  BY <1>1, <1>7 DEF AddActions, SwitchWindowContext, RemoveActions, serviceVars, objectVars
<1>8. CASE UNCHANGED vars
  BY <1>1, <1>8 DEF vars, serviceVars, objectVars
<1> QED
  BY <1>2, <1>3, <1>4, <1>5, <1>6, <1>7, <1>8 DEF Next, SetUp

\* What neither takes a publisher or a context anywhere nor tells the service
\* anything of one leaves them found.
LEMMA KeptSources ==
  ASSUME SourcesInv, stage # "gone",
         UNCHANGED <<publishers, todo, todoContexts, activeContexts, current, unheard, dropped,
                     shown, menus, calls>>,
         WillSendAgain => WillSendAgain'
  PROVE  SourcesInv'
BY DEF SourcesInv, PublishersAreFound, ContextsWereAsked, ContextsAreFound, Sends, Waiting

\* So does a call that is about neither.
LEMMA CallKeptSources ==
  ASSUME TypeOK, SourcesInv, stage # "gone", NEW m \in {Register, GetProxy},
         UNCHANGED <<publishers, todo, todoContexts, activeContexts, current, unheard, dropped,
                     shown, menus>>,
         calls' = Append(calls, m),
         WillSendAgain => WillSendAgain'
  PROVE  SourcesInv'
<1>1. m \in Calls /\ calls \in Seq(Calls) /\ \A w \in Scopes : ~Carries(m, w)
  BY CallsType, KindsOfMessages DEF Carries, TypeOK
<1>2. /\ Elements(calls') = Elements(calls) \cup {m}
      /\ \A w \in Scopes : CarriedIn(calls', w) <=> CarriedIn(calls, w)
      /\ \A w \in Scopes : \A p : LastSays(calls, w, p) => LastSays(calls', w, p)
  BY <1>1, AppendElements, AppendSays
<1>3. PublishersAreFound'
  BY <1>2 DEF SourcesInv, PublishersAreFound, Sends
<1>4. ContextsWereAsked'
  BY <1>2 DEF SourcesInv, ContextsWereAsked
<1>5. ContextsAreFound'
  BY <1>2 DEF SourcesInv, ContextsAreFound, Waiting
<1> QED
  BY <1>3, <1>4, <1>5 DEF SourcesInv

\* With the service goes what it was told; the manager is to hear of it, or has sent
\* nothing yet.
LEMMA StopSources ==
  ASSUME TypeOK, NothingIsForgotten, ComingInv, SourcesInv, stage # "gone", Stop
  PROVE  SourcesInv'
<1> DEFINE waiting == {i \in DOMAIN calls : calls[i].method = "GetProxy"}
           proxies == [i \in 1..Cardinality(waiting) |-> ProxyReady]
<1>1. /\ UNCHANGED <<stage, publishers, todo, todoContexts, activeContexts, current, unheard, dropped>>
      /\ calls' = <<>> /\ inbox' = Announce(0) \o proxies
      /\ \A w \in Scopes : shown'[w] = None
  BY NoObjectShows DEF Stop, managerVars, queueVars, historyVars
<1>2. Elements(calls') = {} /\ \A w \in Scopes : ~CarriedIn(calls', w) /\ \A p : LastSays(calls', w, p)
  BY <1>1 DEF Elements, CarriedIn, LastSays
<1>3. ContextsWereAsked'
  BY <1>1, <1>2 DEF ContextsWereAsked
<1>4. CASE stage = "ready"
  <2>1. Cardinality(waiting) \in Nat
    <3>1. IsFiniteSet(DOMAIN calls)
      BY FS_Interval DEF TypeOK
    <3> QED
      BY <3>1, FS_Subset, FS_CardinalityType
  <2>2. proxies \in Seq(Messages)
    <3> HIDE DEF waiting
    <3> QED
      BY <2>1, MessagesType
  <2>3. Announce(0) \in Seq(Messages) /\ Owner(0) \in Elements(Announce(0))
    BY <1>4, AnnounceType, AnnounceElements, ManagerAssumption
  <2> HIDE DEF proxies
  <2>4. Owner(0) \in Elements(inbox')
    BY <1>1, <2>2, <2>3, ConcatElements
  <2> QED
    BY <2>4, <1>3 DEF SourcesInv, PublishersAreFound, ContextsAreFound, WillSendAgain
<1>5. CASE stage \in {"bus", "proxy"}
  <2>1. publishers \subseteq todo /\ ~proxied
    BY <1>5 DEF ComingInv, NothingBeforeReady
  <2>2. \A w \in Scopes : activeContexts[w] = None
    BY <2>1 DEF NothingIsForgotten, Waiting
  <2>3. PublishersAreFound'
    BY <2>1, <1>1 DEF PublishersAreFound
  <2>4. ContextsAreFound'
    BY <2>2, <1>1, <1>2 DEF ContextsAreFound
  <2> QED
    BY <1>3, <2>3, <2>4 DEF SourcesInv
<1> QED
  BY <1>4, <1>5 DEF TypeOK

\* The object that goes with its last window, and the window that goes, take along
\* what they were told.
LEMMA DestroyedSources ==
  ASSUME TypeOK, SourcesInv, stage # "gone", NEW v \in Windows, WindowDestroyed(v)
  PROVE  SourcesInv'
<1> DEFINE gone == IF keys = {v} THEN Scopes ELSE {v}
<1>1. /\ UNCHANGED <<stage, publishers, todo, todoContexts, activeContexts, current, unheard,
                     calls, inbox>>
      /\ dropped' = dropped \cup {p \in menus : WindowOf[p] \in gone}
                            \cup {s \in gone : shown[s] # None}
  BY DEF WindowDestroyed, managerVars, queueVars
<1>2. \A p \in menus : p \in menus' \/ p \in dropped'
  <2>1. CASE keys = {v}
    BY <1>1, <2>1, ManagerAssumption DEF TypeOK
  <2>2. CASE keys # {v}
    <3>1. menus' = {p \in menus : WindowOf[p] # v}
      BY <2>2 DEF WindowDestroyed
    <3> QED
      BY <1>1, <2>2, <3>1
  <2> QED
    BY <2>1, <2>2
<1>3. \A w \in Scopes : shown'[w] \in {None, shown[w]} /\ (w \in dropped' \/ shown'[w] = shown[w])
  <2>1. CASE keys = {v}
    <3>1. \A w \in Scopes : shown'[w] = None
      BY <2>1, NoObjectShows DEF WindowDestroyed
    <3> QED
      BY <1>1, <2>1, <3>1
  <2>2. CASE keys # {v}
    <3>1. shown' = [shown EXCEPT ![v] = None]
      BY <2>2 DEF WindowDestroyed
    <3>2. \A w \in Scopes : shown'[w] = IF w = v THEN None ELSE shown[w]
      BY <3>1 DEF TypeOK, Contexts
    <3> QED
      BY <1>1, <2>2, <3>2
  <2> QED
    BY <2>1, <2>2
<1>4. dropped \subseteq dropped'
  BY <1>1
<1> HIDE DEF gone
<1>5. PublishersAreFound'
  BY <1>1, <1>2, <1>4 DEF SourcesInv, PublishersAreFound, WillSendAgain, Sends
<1>6. ContextsWereAsked'
  BY <1>1, <1>3 DEF SourcesInv, ContextsWereAsked
<1>7. ContextsAreFound'
  BY <1>1, <1>3, <1>4 DEF SourcesInv, ContextsAreFound, WillSendAgain, Waiting
<1> QED
  BY <1>5, <1>6, <1>7 DEF SourcesInv

\* A call that is handled is no longer under way: the service has what it says, or
\* has dropped it.
LEMMA ServeSources ==
  ASSUME TypeOK, SourcesInv, stage # "gone", Serve
  PROVE  SourcesInv'
<1> DEFINE m == Head(calls)
<1>1. /\ UNCHANGED <<stage, publishers, todo, todoContexts, activeContexts>>
      /\ calls # <<>> /\ calls' = Tail(calls) /\ calls \in Seq(Calls) /\ m \in Calls
  BY DEF Serve, managerVars, queueVars, TypeOK
<1>2. Elements(calls) = {m} \cup Elements(calls')
  BY <1>1, TailElements
<1>3. \A w \in Scopes :
        /\ CarriedIn(calls, w) <=> Carries(m, w) \/ CarriedIn(calls', w)
        /\ \A p : LastSays(calls, w, p) =>
             /\ LastSays(calls', w, p)
             /\ Carries(m, w) /\ ~CarriedIn(calls', w) => m.contexts[w] = p
  BY <1>1, TailSays
<1>4. WillSendAgain => WillSendAgain'
  <2>1. Elements(Answer(Registered)) = Elements(inbox) \cup {Registered}
    BY AnswerElements, MessagesType
  <2>2. Elements(Answer(ProxyReady)) = Elements(inbox) \cup {ProxyReady}
    BY AnswerElements, MessagesType
  <2>3. inbox' \in {inbox, Answer(Registered), Answer(ProxyReady)}
    BY DEF Serve
  <2> QED
    BY <2>1, <2>2, <2>3 DEF WillSendAgain
<1>5. CASE /\ m.method \in {"RegisterApplication", "GetProxy"}
           /\ UNCHANGED <<menus, shown, historyVars>>
  <2>1. \A w \in Scopes : ~Carries(m, w)
    BY <1>5 DEF Carries
  <2>2. PublishersAreFound'
    BY <1>1, <1>2, <1>4, <1>5 DEF SourcesInv, PublishersAreFound, Sends, historyVars
  <2>3. ContextsWereAsked'
    BY <1>1, <1>3, <1>5 DEF SourcesInv, ContextsWereAsked, historyVars
  <2>4. ContextsAreFound'
    BY <1>1, <1>3, <1>4, <1>5, <2>1 DEF SourcesInv, ContextsAreFound, Waiting, historyVars
  <2> QED
    BY <2>2, <2>3, <2>4 DEF SourcesInv
<1>6. CASE m.method = "AddSources" /\ HandleAddSources(m.sources)
  <2> DEFINE ps == m.sources
             heard == {p \in ps : registered /\ WindowOf[p] \in Found(Scopes)}
  <2>1. /\ menus' = menus \cup heard /\ dropped' = (dropped \ heard) \cup (ps \ heard)
        /\ UNCHANGED <<shown, current, unheard>>
    BY <1>6 DEF HandleAddSources
  <2>2. heard \subseteq ps /\ ps \subseteq Publishers
    BY <1>1, <1>6 DEF Calls
  <2>3. \A p : Sends(p) => p \in ps \/ Sends(p)'
    BY <1>2 DEF Sends
  <2>4. \A w \in Scopes : ~Carries(m, w)
    BY <1>6 DEF Carries
  <2>5. \A w \in Scopes : w \in dropped => w \in dropped'
    BY <2>1, <2>2, ManagerAssumption
  <2> HIDE DEF ps, heard
  <2>6. PublishersAreFound'
    BY <1>1, <1>4, <2>1, <2>2, <2>3 DEF SourcesInv, PublishersAreFound
  <2>7. ContextsWereAsked'
    BY <1>1, <1>3, <2>1 DEF SourcesInv, ContextsWereAsked
  <2>8. ContextsAreFound'
    BY <1>1, <1>3, <1>4, <2>1, <2>4, <2>5 DEF SourcesInv, ContextsAreFound, Waiting
  <2> QED
    BY <2>6, <2>7, <2>8 DEF SourcesInv
<1>7. CASE m.method = "SetWindowContext" /\ HandleSetContexts(m.contexts)
  <2> DEFINE f == m.contexts
             heard == IF registered THEN Found(Waiting(f)) ELSE {}
  <2>1. /\ dropped' = (dropped \ heard) \cup (Waiting(f) \ heard)
        /\ UNCHANGED <<menus, current, unheard>>
        /\ \A w \in Scopes : shown'[w] = IF w \in heard THEN f[w] ELSE shown[w]
    BY <1>7 DEF HandleSetContexts
  <2>2. heard \subseteq Waiting(f) /\ Waiting(f) \subseteq Scopes
    BY DEF Found, Waiting
  <2>3. \A w \in Scopes : Carries(m, w) <=> w \in Waiting(f)
    BY <1>7 DEF Carries, Waiting
  <2>4. \A p : Sends(p) => Sends(p)'
    BY <1>2, <1>7 DEF Sends
  <2>5. \A p \in publishers : p \in dropped => p \in dropped'
    BY <2>1, <2>2, ManagerAssumption DEF TypeOK
  <2> HIDE DEF f, heard
  <2>6. PublishersAreFound'
    BY <1>1, <1>4, <2>1, <2>4, <2>5 DEF SourcesInv, PublishersAreFound
  <2>7. ContextsWereAsked'
    <3> SUFFICES ASSUME NEW w \in Scopes, shown'[w] # None \/ CarriedIn(calls', w), stage # "gone"
                 PROVE  current[w] # None
      BY <1>1, <2>1 DEF ContextsWereAsked
    <3>1. shown[w] # None \/ CarriedIn(calls, w)
      BY <1>3, <2>1, <2>2, <2>3
    <3> QED
      BY <3>1 DEF SourcesInv, ContextsWereAsked
  <2>8. ContextsAreFound'
    <3> SUFFICES ASSUME NEW w \in Scopes, w \notin Waiting(todoContexts) \cup unheard,
                        stage # "gone", ~WillSendAgain
                 PROVE  /\ LastSays(calls', w, activeContexts[w])
                        /\ ~CarriedIn(calls', w) /\ w \notin dropped'
                             => shown'[w] = activeContexts[w]
      BY <1>1, <1>4, <2>1 DEF ContextsAreFound, Waiting
    <3>1. /\ LastSays(calls, w, activeContexts[w])
          /\ ~CarriedIn(calls, w) /\ w \notin dropped => shown[w] = activeContexts[w]
      BY DEF SourcesInv, ContextsAreFound
    <3>2. LastSays(calls', w, activeContexts[w])
      BY <3>1, <1>3
    <3>3. ASSUME ~CarriedIn(calls', w), w \notin dropped' PROVE shown'[w] = activeContexts[w]
      <4>1. CASE w \in Waiting(f)
        <5>1. f[w] = activeContexts[w]
          BY <4>1, <3>1, <3>3, <1>3, <2>3 DEF f
        <5>2. w \in heard
          BY <4>1, <3>3, <2>1
        <5> QED
          BY <5>1, <5>2, <2>1
      <4>2. CASE w \notin Waiting(f)
        <5>1. ~CarriedIn(calls, w) /\ w \notin heard
          BY <4>2, <3>3, <1>3, <2>2, <2>3
        <5>2. w \notin dropped
          BY <5>1, <3>3, <2>1
        <5> QED
          BY <5>1, <5>2, <3>1, <2>1
      <4> QED
        BY <4>1, <4>2
    <3> QED
      BY <3>2, <3>3
  <2> QED
    BY <2>6, <2>7, <2>8 DEF SourcesInv
<1> QED
  BY <1>5, <1>6, <1>7 DEF Serve, objectVars

\* Without an owner every publisher waits again, and every context that was asked for.
LEMMA LostSources ==
  ASSUME TypeOK, NothingIsForgotten, SourcesInv, stage # "gone", Lost,
         UNCHANGED <<calls, current, shown>>
  PROVE  SourcesInv'
<1>1. /\ todo' = todo \cup publishers /\ publishers' = publishers
      /\ activeContexts' = NoContexts
      /\ todoContexts' = Over(activeContexts, todoContexts)
  BY DEF Lost
<1>2. PublishersAreFound'
  BY <1>1 DEF PublishersAreFound
<1>3. ContextsWereAsked'
  BY DEF SourcesInv, ContextsWereAsked
<1>4. ASSUME NEW w \in Scopes, todoContexts'[w] = None
      PROVE  ~CarriedIn(calls, w) /\ shown[w] = None /\ activeContexts'[w] = None
  <2>1. activeContexts[w] = None /\ todoContexts[w] = None
    BY <1>1, <1>4 DEF Over
  <2>2. Over(todoContexts, activeContexts)[w] = current[w]
    BY DEF NothingIsForgotten
  <2>3. current[w] = None
    BY <2>1, <2>2 DEF Over
  <2>4. activeContexts'[w] = None
    BY <1>1 DEF NoContexts
  <2> QED
    BY <2>3, <2>4 DEF SourcesInv, ContextsWereAsked
<1>5. ContextsAreFound'
  <2> SUFFICES ASSUME NEW w \in Scopes, w \notin Waiting(todoContexts')
               PROVE  /\ LastSays(calls, w, activeContexts'[w])
                      /\ shown[w] = activeContexts'[w]
    BY DEF ContextsAreFound, Waiting
  <2>1. todoContexts'[w] = None
    BY DEF Waiting
  <2>2. LastSays(calls, w, activeContexts'[w])
    BY <2>1, <1>4 DEF LastSays, CarriedIn, Elements
  <2> QED
    BY <2>1, <2>2, <1>4
<1> QED
  BY <1>2, <1>3, <1>5 DEF SourcesInv

LEMMA NotifySources ==
  ASSUME TypeOK, NothingIsForgotten, SourcesInv, stage # "gone", NEW n, NotifyNameOwner(n),
         UNCHANGED <<current, shown, menus>>,
         n # 0 /\ WillSendAgain => WillSendAgain'
  PROVE  SourcesInv'
<1>1. CASE n = 0
  BY <1>1, LostSources DEF NotifyNameOwner
<1>2. CASE n # 0 /\ n = NameOwner
  BY <1>2, CallKeptSources DEF NotifyNameOwner, queueVars
<1>3. CASE n # 0 /\ n # NameOwner
  BY <1>3, KeptSources DEF NotifyNameOwner, queueVars
<1> QED
  BY <1>1, <1>2, <1>3

\* What process_todo_queues sends says, of every window with a context waiting, that
\* context, and of the others nothing.
LEMMA ProcessSays ==
  ASSUME TypeOK, Reaches, ProcessTodoQueues, todo # {} \/ Waiting(todoContexts) # {}
  PROVE  /\ Elements(calls) \subseteq Elements(calls') /\ AddSources(todo) \in Elements(calls')
         /\ \A w \in Waiting(todoContexts) :
              CarriedIn(calls', w) /\ LastSays(calls', w, todoContexts[w])
         /\ \A w \in Scopes \ Waiting(todoContexts) :
              /\ CarriedIn(calls', w) <=> CarriedIn(calls, w)
              /\ \A p : LastSays(calls, w, p) => LastSays(calls', w, p)
<1> DEFINE a == AddSources(todo)
           b == SetContexts(todoContexts)
           r == Append(calls, a)
<1>1. a \in Calls /\ b \in Calls /\ calls \in Seq(Calls)
  BY CallsType DEF TypeOK
<1>2. calls' = IF Waiting(todoContexts) = {} THEN calls \o <<a>> ELSE calls \o <<a, b>>
  BY DEF ProcessTodoQueues, Send
<1>3. /\ a.method = "AddSources"
      /\ b.method = "SetWindowContext" /\ b.contexts = todoContexts
  BY KindsOfMessages
<1> HIDE DEF a, b
<1>4. calls' = IF Waiting(todoContexts) = {} THEN r ELSE Append(r, b)
  <2> DEFINE c == calls
  <2>1. c \in Seq(Calls)
    BY <1>1
  <2> HIDE DEF c
  <2>2. c \o <<a>> = Append(c, a) /\ c \o <<a, b>> = Append(Append(c, a), b)
    BY <2>1, <1>1, AppendTwice
  <2> QED
    BY <1>2, <2>2 DEF c
<1>5. r \in Seq(Calls)
  BY <1>1, AppendProperties
<1>6. Elements(r) = Elements(calls) \cup {a}
  BY <1>1, AppendElements
<1>7. \A w \in Scopes : ~Carries(a, w) /\ (Carries(b, w) <=> w \in Waiting(todoContexts))
  BY <1>3 DEF Carries, Waiting
<1>8. \A w \in Scopes :
        /\ CarriedIn(r, w) <=> CarriedIn(calls, w)
        /\ \A p : LastSays(calls, w, p) => LastSays(r, w, p)
  BY <1>1, <1>7, AppendSays
<1> HIDE DEF r
<1>9. CASE Waiting(todoContexts) = {}
  <2>1. calls' = r
    BY <1>4, <1>9
  <2> QED
    BY <1>6, <1>8, <1>9, <2>1 DEF a
<1>10. CASE Waiting(todoContexts) # {}
  <2>1. calls' = Append(r, b)
    BY <1>4, <1>10
  <2>2. Elements(calls') = Elements(r) \cup {b}
    BY <2>1, <1>1, <1>5, AppendElements
  <2>3. \A w :
          /\ CarriedIn(calls', w) <=> CarriedIn(r, w) \/ Carries(b, w)
          /\ Carries(b, w) => LastSays(calls', w, b.contexts[w])
          /\ \A p : ~Carries(b, w) /\ LastSays(r, w, p) => LastSays(calls', w, p)
    BY <2>1, <1>1, <1>5, AppendSays
  <2>4. Waiting(todoContexts) \subseteq Scopes
    BY DEF Waiting
  <2>5. \A w \in Waiting(todoContexts) :
           CarriedIn(calls', w) /\ LastSays(calls', w, todoContexts[w])
    BY <2>3, <2>4, <1>3, <1>7
  <2>6. \A w \in Scopes \ Waiting(todoContexts) :
          /\ CarriedIn(calls', w) <=> CarriedIn(calls, w)
          /\ \A p : LastSays(calls, w, p) => LastSays(calls', w, p)
    BY <2>3, <1>7, <1>8
  <2> QED
    BY <2>2, <2>5, <2>6, <1>6 DEF a
<1> QED
  BY <1>9, <1>10

\* What leaves the queues is under way, or told to no one.
LEMMA ProcessSources ==
  ASSUME TypeOK, NothingIsForgotten, SourcesInv, stage # "gone", ProcessTodoQueues,
         UNCHANGED <<current, dropped, shown, menus>>,
         WillSendAgain => WillSendAgain'
  PROVE  SourcesInv'
<1>1. CASE todo = {} /\ Waiting(todoContexts) = {}
  BY <1>1, KeptSources DEF ProcessTodoQueues, queueVars
<1>2. CASE ~(todo = {} /\ Waiting(todoContexts) = {})
  <2>1. /\ todo' = {} /\ todoContexts' = NoContexts /\ publishers' = publishers
        /\ activeContexts' = Over(todoContexts, activeContexts)
        /\ IF Reaches THEN unheard' = unheard \ (todo \cup Waiting(todoContexts))
           ELSE unheard' = unheard \cup todo \cup Waiting(todoContexts) /\ calls' = calls
    BY <1>2 DEF ProcessTodoQueues, Send
  <2>2. activeContexts' = current
    BY <2>1 DEF NothingIsForgotten
  <2>3. \A w \in Scopes :
          activeContexts'[w] = IF w \in Waiting(todoContexts) THEN todoContexts[w] ELSE activeContexts[w]
    BY <2>1 DEF Over, Waiting
  <2>4. \A w \in Waiting(todoContexts) : w \in Scopes /\ current[w] # None
    BY <2>2, <2>3 DEF Waiting
  <2>5. \A w \in Waiting(todoContexts) : w \notin publishers
    BY <2>4, ManagerAssumption DEF TypeOK
  <2>6. \A w \in Scopes : w \notin todo
    BY ManagerAssumption DEF TypeOK
  <2>7. CASE Reaches
    <3>1. /\ Elements(calls) \subseteq Elements(calls') /\ AddSources(todo) \in Elements(calls')
          /\ \A w \in Waiting(todoContexts) :
               CarriedIn(calls', w) /\ LastSays(calls', w, todoContexts[w])
          /\ \A w \in Scopes \ Waiting(todoContexts) :
               /\ CarriedIn(calls', w) <=> CarriedIn(calls, w)
               /\ \A p : LastSays(calls, w, p) => LastSays(calls', w, p)
      BY <1>2, <2>7, ProcessSays
    <3>2. \A p \in todo : Sends(p)'
      BY <3>1, KindsOfMessages DEF Sends
    <3>3. \A p : Sends(p) => Sends(p)'
      BY <3>1 DEF Sends
    <3>4. PublishersAreFound'
      BY <2>1, <2>5, <2>7, <3>2, <3>3 DEF SourcesInv, PublishersAreFound
    <3>5. ContextsWereAsked'
      BY <2>4, <3>1 DEF SourcesInv, ContextsWereAsked
    <3>6. ContextsAreFound'
      <4> SUFFICES ASSUME NEW w \in Scopes, w \notin unheard', stage # "gone", ~WillSendAgain
                   PROVE  /\ LastSays(calls', w, activeContexts'[w])
                          /\ ~CarriedIn(calls', w) /\ w \notin dropped
                               => shown[w] = activeContexts'[w]
        BY DEF ContextsAreFound
      <4>1. CASE w \in Waiting(todoContexts)
        BY <4>1, <3>1, <2>3
      <4>2. CASE w \notin Waiting(todoContexts)
        <5>1. w \notin unheard
          BY <4>2, <2>1, <2>6, <2>7
        <5> QED
          BY <4>2, <5>1, <3>1, <2>3 DEF SourcesInv, ContextsAreFound
      <4> QED
        BY <4>1, <4>2
    <3> QED
      BY <3>4, <3>5, <3>6 DEF SourcesInv
  <2>8. CASE ~Reaches
    <3>1. calls' = calls /\ unheard' = unheard \cup todo \cup Waiting(todoContexts)
      BY <2>1, <2>8
    <3>2. PublishersAreFound'
      BY <2>1, <3>1 DEF SourcesInv, PublishersAreFound, Sends
    <3>3. ContextsWereAsked'
      BY <3>1 DEF SourcesInv, ContextsWereAsked
    <3>4. ContextsAreFound'
      BY <2>3, <3>1 DEF SourcesInv, ContextsAreFound
    <3> QED
      BY <3>2, <3>3, <3>4 DEF SourcesInv
  <2> QED
    BY <2>7, <2>8
<1> QED
  BY <1>1, <1>2

\* A context that is asked for waits, is under way, or is told to no one.
LEMMA SwitchSources ==
  ASSUME TypeOK, SourcesInv, stage # "gone", NEW p \in Publishers, SwitchWindowContext(p)
  PROVE  SourcesInv'
<1> DEFINE v == WindowOf[p]
           f == [NoContexts EXCEPT ![v] = p]
           m == SetContexts(f)
<1>1. v \in Scopes /\ p # None
  BY ManagerAssumption
<1>2. /\ UNCHANGED <<stage, inbox, publishers, todo, dropped, shown, menus>>
      /\ current' = [current EXCEPT ![v] = p]
  BY DEF SwitchWindowContext, serviceVars, objectVars
<1>3. \A w \in Scopes : current'[w] = IF w = v THEN p ELSE current[w]
  BY <1>1, <1>2 DEF TypeOK, Contexts
<1>4. WillSendAgain' = WillSendAgain
  BY <1>2 DEF WillSendAgain
<1>5. CASE ~proxied
  <2>1. todoContexts' = [todoContexts EXCEPT ![v] = p] /\ UNCHANGED <<calls, activeContexts, unheard>>
    BY <1>5 DEF SwitchWindowContext
  <2>2. Waiting(todoContexts)' = Waiting(todoContexts) \cup {v}
    BY <2>1, <1>1 DEF Waiting, TypeOK, Contexts
  <2>3. PublishersAreFound'
    BY <1>2, <1>4, <2>1 DEF SourcesInv, PublishersAreFound, Sends
  <2>4. ContextsWereAsked'
    BY <1>1, <1>2, <1>3, <2>1 DEF SourcesInv, ContextsWereAsked
  <2>5. ContextsAreFound'
    BY <1>2, <1>4, <2>1, <2>2 DEF SourcesInv, ContextsAreFound
  <2> QED
    BY <2>3, <2>4, <2>5 DEF SourcesInv
<1>6. CASE proxied
  <2>1. /\ activeContexts' = [activeContexts EXCEPT ![v] = p] /\ todoContexts' = todoContexts
        /\ IF Reaches THEN calls' = calls \o <<m>> /\ unheard' = unheard \ {v}
           ELSE unheard' = unheard \cup {v} /\ calls' = calls
    BY <1>6 DEF SwitchWindowContext, Send
  <2>2. \A w \in Scopes : activeContexts'[w] = IF w = v THEN p ELSE activeContexts[w]
    BY <1>1, <2>1 DEF TypeOK, Contexts
  <2>3. f \in Contexts /\ m \in Calls /\ calls \in Seq(Calls)
    BY <1>1, NoContextsType, OverExcept, CallsType DEF TypeOK
  <2>4. \A w \in Scopes : f[w] = IF w = v THEN p ELSE None
    BY <1>1 DEF NoContexts
  <2>5. m.method = "SetWindowContext" /\ m.contexts = f
    BY KindsOfMessages
  <2> HIDE DEF f, m
  <2>6. \A w \in Scopes : Carries(m, w) <=> w = v
    BY <2>4, <2>5, <1>1 DEF Carries
  <2>7. v \notin publishers
    BY <1>1, ManagerAssumption DEF TypeOK
  <2>8. CASE Reaches
    <3>1. calls' = Append(calls, m) /\ unheard' = unheard \ {v}
      BY <2>1, <2>3, <2>8, AppendTwice
    <3>2. /\ Elements(calls') = Elements(calls) \cup {m}
          /\ \A w :
               /\ CarriedIn(calls', w) <=> CarriedIn(calls, w) \/ Carries(m, w)
               /\ Carries(m, w) => LastSays(calls', w, m.contexts[w])
               /\ \A x : ~Carries(m, w) /\ LastSays(calls, w, x) => LastSays(calls', w, x)
      BY <2>3, <3>1, AppendElements, AppendSays
    <3>3. PublishersAreFound'
      BY <1>2, <1>4, <2>7, <3>1, <3>2 DEF SourcesInv, PublishersAreFound, Sends
    <3>4. ContextsWereAsked'
      BY <1>1, <1>2, <1>3, <2>6, <3>2 DEF SourcesInv, ContextsWereAsked
    <3>5. ContextsAreFound'
      <4> SUFFICES ASSUME NEW w \in Scopes, w \notin Waiting(todoContexts) \cup unheard',
                          stage # "gone", ~WillSendAgain
                   PROVE  /\ LastSays(calls', w, activeContexts'[w])
                          /\ ~CarriedIn(calls', w) /\ w \notin dropped
                               => shown[w] = activeContexts'[w]
        BY <1>2, <1>4, <2>1 DEF ContextsAreFound, Waiting
      <4>1. CASE w = v
        BY <4>1, <2>2, <2>4, <2>5, <2>6, <3>2
      <4>2. CASE w # v
        BY <4>2, <2>2, <2>6, <3>1, <3>2 DEF SourcesInv, ContextsAreFound
      <4> QED
        BY <4>1, <4>2
    <3> QED
      BY <3>3, <3>4, <3>5 DEF SourcesInv
  <2>9. CASE ~Reaches
    <3>1. calls' = calls /\ unheard' = unheard \cup {v}
      BY <2>1, <2>9
    <3>2. PublishersAreFound'
      BY <1>2, <1>4, <3>1 DEF SourcesInv, PublishersAreFound, Sends
    <3>3. ContextsWereAsked'
      BY <1>1, <1>2, <1>3, <3>1 DEF SourcesInv, ContextsWereAsked
    <3>4. ContextsAreFound'
      BY <1>2, <1>4, <2>1, <2>2, <3>1 DEF SourcesInv, ContextsAreFound, Waiting
    <3> QED
      BY <3>2, <3>3, <3>4 DEF SourcesInv
  <2> QED
    BY <2>8, <2>9
<1> QED
  BY <1>5, <1>6

LEMMA HandleSources ==
  ASSUME TypeOK, NothingIsForgotten, SourcesInv, stage # "gone", Handle
  PROVE  SourcesInv'
<1>1. /\ inbox # <<>>
      /\ UNCHANGED <<current, shown, menus>>
  BY DEF Handle, HandleOwner, HandleRegistered, HandleProxyReady, Receives, serviceVars,
         objectVars, historyVars
<1>2. Elements(inbox) = {Head(inbox)} \cup Elements(Tail(inbox))
  BY <1>1, TailElements DEF TypeOK
<1>3. CASE HandleOwner
  <2>1. inbox' = Tail(inbox)
    BY <1>3 DEF HandleOwner
  <2>2. ASSUME Head(inbox).life # 0, WillSendAgain PROVE WillSendAgain'
    BY <1>2, <2>1, <2>2, KindsOfMessages DEF WillSendAgain
  <2>3. CASE NotifyNameOwner(Head(inbox).life)
    BY <1>1, <2>2, <2>3, NotifySources
  <2>4. CASE /\ Head(inbox).life # 0
             /\ UNCHANGED <<known, calls, connecting, proxied, queueVars, unheard, dropped>>
    BY <1>1, <2>2, <2>4, KeptSources DEF queueVars
  <2> QED
    BY <1>3, <2>3, <2>4 DEF HandleOwner
<1>4. ASSUME Head(inbox).kind # "Owner", WillSendAgain, Elements(Tail(inbox)) \subseteq Elements(inbox')
      PROVE  WillSendAgain'
  BY <1>2, <1>4, KindsOfMessages DEF WillSendAgain
<1>5. CASE HandleRegistered
  <2>1. UNCHANGED <<publishers, todo, todoContexts, activeContexts, current, unheard, dropped,
                    shown, menus>>
    BY <1>5 DEF HandleRegistered, serviceVars, objectVars, managerVars, queueVars, historyVars
  <2>2. Head(inbox).kind # "Owner"
    BY <1>5 DEF HandleRegistered, Receives
  <2>3. CASE up
    <3>1. calls' = Append(calls, GetProxy) /\ inbox' = Tail(inbox)
      BY <1>5, <2>3 DEF HandleRegistered
    <3>2. WillSendAgain => WillSendAgain'
      BY <1>4, <2>2, <3>1
    <3> QED
      BY <2>1, <3>1, <3>2, CallKeptSources
  <2>4. CASE ~up
    <3>1. calls' = calls /\ inbox' = Append(Tail(inbox), ProxyReady)
      BY <1>5, <2>4 DEF HandleRegistered
    <3>2. Elements(inbox') = Elements(Tail(inbox)) \cup {ProxyReady}
      BY <1>1, <3>1, TailAppendElements, MessagesType
    <3>3. WillSendAgain => WillSendAgain'
      BY <1>4, <2>2, <3>2
    <3> QED
      BY <2>1, <3>1, <3>3, KeptSources
  <2> QED
    BY <2>3, <2>4
<1>6. CASE HandleProxyReady
  <2>1. ProcessTodoQueues /\ inbox' = Tail(inbox) /\ Head(inbox).kind # "Owner"
        /\ UNCHANGED dropped
    BY <1>6 DEF HandleProxyReady, Receives
  <2>2. WillSendAgain => WillSendAgain'
    BY <1>4, <2>1
  <2> QED
    BY <1>1, <2>1, <2>2, ProcessSources
<1> QED
  BY <1>3, <1>5, <1>6 DEF Handle

LEMMA NextSources ==
  ASSUME TypeOK, NothingIsForgotten, ComingInv, SourcesInv, [Next]_vars
  PROVE  SourcesInv'
<1>1. ASSUME stage' = "gone" PROVE SourcesInv'
  BY <1>1 DEF SourcesInv, PublishersAreFound, ContextsWereAsked, ContextsAreFound
<1>2. CASE stage = "gone"
  <2>1. stage' = "gone"
    BY <1>2 DEF Next, vars, Start, Stop, Serve, WindowCreated, WindowDestroyed, SetUp, BusGet,
       ServiceProxy, Handle, HandleOwner, HandleRegistered, HandleProxyReady, TodoHandler,
       AddActions, SwitchWindowContext, RemoveActions, Dispose, managerVars
  <2> QED
    BY <1>1, <2>1
<1>3. CASE stage # "gone"
  <2> DEFINE kept == <<publishers, todo, todoContexts, activeContexts, current, unheard, dropped,
                       shown, menus, calls>>
  <2>1. ASSUME UNCHANGED kept, inbox' = inbox PROVE SourcesInv'
    BY <1>3, <2>1, KeptSources DEF WillSendAgain
  <2>2. CASE Start
    <3>1. inbox' = Announce(life + 1) /\ life + 1 \in 0..MaxLives /\ UNCHANGED kept
      BY <2>2, ManagerAssumption
         DEF Start, TypeOK, objectVars, managerVars, queueVars, historyVars
    <3>2. WillSendAgain => WillSendAgain'
      BY <3>1, AnnounceElements DEF WillSendAgain
    <3> QED
      BY <1>3, <3>1, <3>2, KeptSources
  <2>3. CASE Stop
    BY <1>3, <2>3, StopSources
  <2>4. CASE Serve
    BY <1>3, <2>4, ServeSources
  <2>5. ASSUME NEW v \in Windows, WindowCreated(v) PROVE SourcesInv'
    BY <2>1, <2>5 DEF WindowCreated, managerVars, queueVars, historyVars
  <2>6. ASSUME NEW v \in Windows, WindowDestroyed(v) PROVE SourcesInv'
    BY <1>3, <2>6, DestroyedSources
  <2>7. CASE BusGet
    BY <2>1, <2>7 DEF BusGet, serviceVars, objectVars, queueVars, historyVars
  <2>8. CASE ServiceProxy
    <3>1. NotifyNameOwner(NameOwner) /\ UNCHANGED <<current, shown, menus, inbox>>
      BY <2>8 DEF ServiceProxy, serviceVars, objectVars
    <3> QED
      BY <1>3, <3>1, NotifySources DEF WillSendAgain
  <2>9. CASE Handle
    BY <1>3, <2>9, HandleSources
  <2>10. CASE TodoHandler /\ proxied
    <3>1. ProcessTodoQueues /\ UNCHANGED <<current, dropped, shown, menus, inbox>>
      BY <2>10 DEF TodoHandler, serviceVars, objectVars
    <3> QED
      BY <1>3, <3>1, ProcessSources DEF WillSendAgain
  <2>11. CASE TodoHandler /\ ~proxied
    BY <2>1, <2>11 DEF TodoHandler, serviceVars, objectVars, queueVars
  <2>12. ASSUME NEW p \in Publishers, AddActions(p) PROVE SourcesInv'
    <3>1. /\ publishers' = publishers \cup {p} /\ todo' = todo \cup {p}
          /\ UNCHANGED <<stage, inbox, calls, todoContexts, activeContexts, current, unheard,
                         dropped, shown, menus>>
      BY <2>12 DEF AddActions, serviceVars, objectVars, historyVars
    <3>2. PublishersAreFound'
      BY <3>1 DEF SourcesInv, PublishersAreFound, WillSendAgain, Sends
    <3>3. ContextsWereAsked'
      BY <3>1 DEF SourcesInv, ContextsWereAsked
    <3>4. ContextsAreFound'
      BY <3>1 DEF SourcesInv, ContextsAreFound, WillSendAgain, Waiting
    <3> QED
      BY <3>2, <3>3, <3>4 DEF SourcesInv
  <2>13. ASSUME NEW p \in Publishers, SwitchWindowContext(p) PROVE SourcesInv'
    BY <1>3, <2>13, SwitchSources
  <2>14. ASSUME NEW p \in Publishers, RemoveActions(p) PROVE SourcesInv'
    BY <2>1, <2>14 DEF RemoveActions, serviceVars, objectVars, managerVars, queueVars, historyVars
  <2>15. CASE Dispose
    BY <1>1, <2>15 DEF Dispose
  <2>16. CASE UNCHANGED vars
    BY <2>1, <2>16 DEF vars, serviceVars, objectVars, managerVars, queueVars, historyVars
  <2> HIDE DEF kept
  <2> QED
    BY <2>2, <2>3, <2>4, <2>5, <2>6, <2>7, <2>8, <2>9, <2>10, <2>11, <2>12, <2>13, <2>14, <2>15,
       <2>16 DEF Next, SetUp
<1> QED
  BY <1>2, <1>3

\* Where nothing is under way there is a proxy, so no queue holds anything.
LEMMA QuietHasTheSources ==
  ASSUME TypeOK, NothingIsForgotten, ComingInv, SourcesInv, OnlyTheShown
  PROVE  QuietServiceHasTheSources
<1> SUFFICES ASSUME Quiet
             PROVE  /\ publishers \subseteq menus \cup dropped \cup unheard
                    /\ \A w \in Scopes \ (dropped \cup unheard) :
                         shown[w] = current[w] /\ active[w] \in {None, shown[w]}
  BY DEF QuietServiceHasTheSources
<1>1. /\ up /\ stage = "ready" /\ known = life /\ ~idle
      /\ Elements(inbox) = {} /\ Elements(calls) = {}
  BY DEF Quiet, Elements
<1>2. proxied
  BY <1>1 DEF ComingInv, ProxyIsComing, HasKind, HasMethod
<1>3. todo = {} /\ Waiting(todoContexts) = {} /\ activeContexts = current
  <2>1. todo = {} /\ Waiting(todoContexts) = {}
    BY <1>1, <1>2 DEF NothingIsForgotten
  <2>2. todoContexts = NoContexts
    BY <2>1, NoneWaits DEF TypeOK
  <2>3. Over(todoContexts, activeContexts) = activeContexts
    BY <2>2, OverNoContexts DEF TypeOK
  <2> QED
    BY <1>1, <2>1, <2>3 DEF NothingIsForgotten
<1>4. ~WillSendAgain /\ (\A p : ~Sends(p)) /\ \A w : ~CarriedIn(calls, w)
  BY <1>1 DEF WillSendAgain, Sends, CarriedIn
<1>5. publishers \subseteq menus \cup dropped \cup unheard
  BY <1>1, <1>3, <1>4 DEF SourcesInv, PublishersAreFound
<1>6. ASSUME NEW w \in Scopes \ (dropped \cup unheard) PROVE shown[w] = current[w]
  BY <1>1, <1>3, <1>4 DEF SourcesInv, ContextsAreFound
<1> QED
  BY <1>5, <1>6 DEF OnlyTheShown

\* However the service and its windows come and go, when the calls and answers under
\* way are done the service that is there has the menus of every publisher and the
\* context of every window, but for what it lost with a window or did not hear.
THEOREM QuietServiceIsTold == Spec => []QuietServiceHasTheSources
<1> DEFINE IInv == TypeOK /\ NothingIsForgotten /\ ComingInv /\ SourcesInv /\ OnlyTheShown
<1>1. Init => IInv
  BY InitTypeOK, InitNotForgotten, InitComing, InitSources
<1>2. IInv /\ [Next]_vars => IInv'
  BY NextTypeOK, NextNotForgotten, NextComing, NextSources, NextOnlyTheShown
<1>3. IInv => QuietServiceHasTheSources
  BY QuietHasTheSources
<1> QED
  BY <1>1, <1>2, <1>3, PTL DEF Spec
=============================================================================
