----------------------------- MODULE HudService -----------------------------
(***************************************************************************)
(* The queries of hud-service: HudServiceImpl's map of open queries, its   *)
(* map of legacy queries with their timers, and the QueryImpl objects,     *)
(* each of which watches the bus for the death of the sender it was made   *)
(* for.                                                                    *)
(*                                                                         *)
(* The service is one thread: it handles one message of the session bus at *)
(* a time, in the order the bus sent them, and the timers in between.  A   *)
(* caller may be gone by the time its call is handled.  The bus announces  *)
(* the end of a name only to connections that have a match rule for it at  *)
(* that moment: a query's QDBusServiceWatcher asks for one when it is made *)
(* and does not wait for the bus to have it.                               *)
(***************************************************************************)
EXTENDS Naturals, Sequences, FiniteSets

CONSTANTS
  Senders,   \* unique bus names of the clients
  MaxCalls   \* bound on the number of calls the clients make

ASSUME MaxCallsIsNat == MaxCalls \in Nat

VARIABLES
  alive,     \* the senders that are still on the bus
  inbox,     \* the messages on their way to the service
  calls,     \* how many calls have been made
  rules,     \* the bus has the match rules of the queries up to this id
  queries,   \* m_queries, as the ids in the paths (OpenQueries)
  legacy,    \* m_legacyQueries: legacy[s] is the id of s's query, or 0
  timer,     \* timer[s]: the timer of s's legacy query runs, its "sender" set
  owner,     \* owner[q]: the sender query q was made for, per id given out
  closed,    \* history: queries closed on the query object, or by sender's death
  orphans    \* history: queries that missed the end of their sender

serviceVars == <<queries, legacy, timer, owner>>
histories == <<closed, orphans>>
vars == <<alive, inbox, calls, rules, serviceVars, histories>>

\* Query ids are handed out by Factory::newQuery counting m_queryCounter up.
Ids == 1..Len(owner)

\* The QueryImpl objects there are: either map holds a shared pointer to them.
Objects == queries \cup {legacy[s] : s \in {t \in Senders : legacy[t] # 0}}

Call(method, s) == [method |-> method, sender |-> s]
CloseObject(s, q) == [method |-> "Query.CloseQuery", sender |-> s, query |-> q]
NameLost(s) == [method |-> "NameOwnerChanged", sender |-> s]

Init ==
  /\ alive = Senders
  /\ inbox = <<>>
  /\ calls = 0
  /\ rules = 0
  /\ queries = {}
  /\ legacy = [s \in Senders |-> 0]
  /\ timer = [s \in Senders |-> FALSE]
  /\ owner = <<>>
  /\ closed = {}
  /\ orphans = {}

-----------------------------------------------------------------------------
(* The bus and the clients on it.                                          *)

Post(m) ==
  /\ calls < MaxCalls
  /\ calls' = calls + 1
  /\ inbox' = Append(inbox, m)
  /\ UNCHANGED <<alive, rules, serviceVars, histories>>

\* A client calls the service, or closes a query whose path it knows.
Send(s) ==
  /\ s \in alive
  /\ \/ \E method \in {"CreateQuery", "StartQuery", "ExecuteQuery", "CloseQuery"} :
          Post(Call(method, s))
     \/ \E q \in Ids : Post(CloseObject(s, q))

Die(s) ==
  LET Q == {q \in Objects : owner[q] = s} IN
  /\ s \in alive
  /\ alive' = alive \ {s}
  /\ IF \E q \in Q : q <= rules
     THEN inbox' = Append(inbox, NameLost(s)) /\ UNCHANGED orphans
     ELSE orphans' = orphans \cup Q /\ UNCHANGED inbox
  /\ UNCHANGED <<calls, rules, serviceVars, closed>>

\* The bus gets to the next request for a match rule.
AddMatch ==
  /\ rules < Len(owner)
  /\ rules' = rules + 1
  /\ UNCHANGED <<alive, inbox, calls, serviceVars, histories>>

-----------------------------------------------------------------------------
(* The handlers.                                                           *)

Receive(m) ==
  /\ inbox # <<>>
  /\ Head(inbox) = m
  /\ inbox' = Tail(inbox)
  /\ UNCHANGED <<alive, calls, rules>>

\* The end of s's name is yet to come, or to be handled.
WillHearOf(s) == s \in alive \/ \E i \in DOMAIN inbox : inbox[i] = NameLost(s)

\* Mutation of CreatesQuery: the query is entered under the id of the last one.
CreatesUnderLastId(s) ==
  /\ owner' = Append(owner, s)
  /\ queries' = queries \cup {Len(owner)}
  /\ orphans' = IF WillHearOf(s) THEN orphans ELSE orphans \cup {Len(owner')}

\* createQuery: a new QueryImpl, watching its sender, entered in m_queries.
CreatesQuery(s) ==
  /\ owner' = Append(owner, s)
  /\ queries' = queries \cup {Len(owner')}
  /\ orphans' = IF WillHearOf(s) THEN orphans ELSE orphans \cup {Len(owner')}

CreateQuery(s) ==
  /\ Receive(Call("CreateQuery", s))
  /\ CreatesQuery(s)
  /\ UNCHANGED <<legacy, timer, closed>>

\* StartQuery: the sender's query, made if it has none; the timer is stopped.
StartQuery(s) ==
  /\ Receive(Call("StartQuery", s))
  /\ IF legacy[s] = 0
     THEN CreatesQuery(s) /\ legacy' = [legacy EXCEPT ![s] = Len(owner')]
     ELSE UNCHANGED <<owner, queries, orphans, legacy>>
  /\ timer' = [timer EXCEPT ![s] = FALSE]
  /\ UNCHANGED closed

\* Mutation of TakeLegacy: the entry is read and left in m_legacyQueries.
ReadLegacy(s) ==
  /\ queries' = queries \ {legacy[s]}
  /\ timer' = [timer EXCEPT ![s] = FALSE]
  /\ UNCHANGED <<legacy, owner>>

\* Mutation of TakeLegacy: the entry is taken and its query stays open.
TakeAndForget(s) ==
  /\ legacy' = [legacy EXCEPT ![s] = 0]
  /\ timer' = [timer EXCEPT ![s] = FALSE]
  /\ UNCHANGED <<queries, owner>>

\* ExecuteQuery and legacyTimeout: the entry is taken out of m_legacyQueries,
\* the timer dies with it, and the query is closed.
TakeLegacy(s) ==
  /\ legacy' = [legacy EXCEPT ![s] = 0]
  /\ timer' = [timer EXCEPT ![s] = FALSE]
  /\ queries' = queries \ {legacy[s]}
  /\ UNCHANGED owner

ExecuteQuery(s) ==
  /\ Receive(Call("ExecuteQuery", s))
  /\ IF legacy[s] # 0 THEN TakeLegacy(s) ELSE UNCHANGED serviceVars
  /\ UNCHANGED histories

\* Mutation of CloseQuery: it starts a timer for a sender without a query.
CloseStartsTimer(s) ==
  /\ Receive(Call("CloseQuery", s))
  /\ timer' = [timer EXCEPT ![s] = TRUE]
  /\ UNCHANGED <<queries, legacy, owner, histories>>

\* CloseQuery of the legacy interface empties the query and starts the timer.
CloseQuery(s) ==
  /\ Receive(Call("CloseQuery", s))
  /\ timer' = [timer EXCEPT ![s] = legacy[s] # 0]
  /\ UNCHANGED <<queries, legacy, owner, histories>>

LegacyTimeout(s) ==
  /\ timer[s]
  /\ TakeLegacy(s)
  /\ UNCHANGED <<alive, inbox, calls, rules, histories>>

\* closeQuery: out of m_queries; m_legacyQueries is left alone.
ClosesQueries(Q) ==
  /\ queries' = queries \ Q
  /\ closed' = closed \cup Q
  /\ UNCHANGED <<legacy, timer, owner, orphans>>

\* CloseQuery of a query object; a path nobody serves is answered by an error.
QueryCloseQuery(s, q) ==
  /\ Receive(CloseObject(s, q))
  /\ ClosesQueries({q} \cap Objects)

\* Mutation of ServiceUnregistered: only the sender's legacy query is closed.
UnregisteredLegacyOnly(s) ==
  /\ Receive(NameLost(s))
  /\ ClosesQueries({legacy[s]} \cap Objects)

\* serviceUnregistered of every query that watches s.
ServiceUnregistered(s) ==
  /\ Receive(NameLost(s))
  /\ ClosesQueries({q \in Objects : owner[q] = s})

Clients == \E s \in Senders : Send(s) \/ Die(s)

Dispatch ==
  \E s \in Senders :
    \/ CreateQuery(s) \/ StartQuery(s) \/ ExecuteQuery(s) \/ CloseQuery(s)
    \/ \E q \in Ids : QueryCloseQuery(s, q)
    \/ ServiceUnregistered(s)

Timers == \E s \in Senders : LegacyTimeout(s)

Next == Clients \/ AddMatch \/ Dispatch \/ Timers

\* The event loop dispatches what waits, and a timer that runs expires.
Fairness == WF_vars(Dispatch) /\ \A s \in Senders : WF_vars(LegacyTimeout(s))

Spec == Init /\ [][Next]_vars

FairSpec == Spec /\ Fairness

-----------------------------------------------------------------------------
Messages ==
  [method : {"CreateQuery", "StartQuery", "ExecuteQuery", "CloseQuery", "NameOwnerChanged"},
   sender : Senders]
    \cup [method : {"Query.CloseQuery"}, sender : Senders, query : Nat]

TypeOK ==
  /\ alive \subseteq Senders
  /\ inbox \in Seq(Messages)
  /\ calls \in 0..MaxCalls
  /\ rules \in 0..Len(owner)
  /\ owner \in Seq(Senders)
  /\ queries \subseteq Ids
  /\ legacy \in [Senders -> {0} \cup Ids]
  /\ timer \in [Senders -> BOOLEAN]
  /\ closed \subseteq Ids
  /\ orphans \subseteq Ids

\* The two maps agree: a legacy query is its sender's own and is open, unless it
\* was closed behind m_legacyQueries' back, on its object or by its sender's
\* death; neither ExecuteQuery nor the timeout nor StartQuery parts them.
LegacyQueriesAreOpenOrClosedElsewhere ==
  \A s \in Senders : legacy[s] # 0 =>
    /\ owner[legacy[s]] = s
    /\ legacy[s] \in queries \cup closed

\* A timer runs only for a sender that has a legacy query: legacyTimeout always
\* finds what it is to close, whatever was started, executed and closed since.
RunningTimersHaveAQuery ==
  \A s \in Senders : timer[s] => legacy[s] # 0

\* With no message under way, a sender that has gone has no open query left,
\* but for those whose watcher came too late to be told.
QuietSendersGoneHaveNoQueries ==
  inbox = <<>> => \A q \in queries : owner[q] \in alive \/ q \in orphans

\* A closed legacy query goes away, unless its sender starts it again: the timer
\* is neither lost nor left without its "sender" (legacyTimeout would ignore it).
ClosedLegacyQueriesGoAway ==
  \A s \in Senders : \A q \in 1..MaxCalls :
    (timer[s] /\ legacy[s] = q)
      ~> (q \notin Objects \/ (legacy[s] = q /\ ~timer[s]))

\* The queries of a sender that dies are closed (serviceUnregistered).
QueriesOfTheDeadAreClosed ==
  \A s \in Senders : s \notin alive ~> (\A q \in queries : owner[q] # s)
=============================================================================
