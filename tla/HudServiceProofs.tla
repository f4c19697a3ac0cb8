-------------------------- MODULE HudServiceProofs --------------------------
(***************************************************************************)
(* Proofs about HudService, for any set of clients and any number of       *)
(* calls: the maps of open and of legacy queries and the timers agree.     *)
(*                                                                         *)
(* That a timer runs only for a sender with a legacy query and that the    *)
(* legacy queries are open or closed elsewhere are inductive together with *)
(* the types: a query's id is its place in owner, and owner only grows.    *)
(* That nobody's queries outlive him when all is quiet needs to know why   *)
(* one may while it is not: the bus's announcement is on its way.          *)
(***************************************************************************)
EXTENDS HudService, TLAPS

\* The sender of an open query is on the bus or the news of its end is under
\* way, unless the query's watcher came too late.
SendersGoneAreHeardOf ==
  \A q \in queries : WillHearOf(owner[q]) \/ q \in orphans

LegacyInv ==
  /\ LegacyQueriesAreOpenOrClosedElsewhere
  /\ RunningTimersHaveAQuery

\* No two senders share a query.
LegacyQueriesAreDistinct ==
  \A s, t \in Senders : legacy[s] # 0 /\ legacy[s] = legacy[t] => s = t

IInv == TypeOK /\ LegacyInv /\ SendersGoneAreHeardOf

USE MaxCallsIsNat

\* The owner of a query tells its sender, so two senders never share one.
LEMMA OwnersTellSenders == LegacyInv => LegacyQueriesAreDistinct
BY DEF LegacyInv, LegacyQueriesAreOpenOrClosedElsewhere, LegacyQueriesAreDistinct

\* The ids given out grow by one with each query and keep their owners.
LEMMA AppendOwner ==
  ASSUME owner \in Seq(Senders), NEW s \in Senders, owner' = Append(owner, s)
  PROVE  /\ owner' \in Seq(Senders)
         /\ Len(owner') = Len(owner) + 1
         /\ Ids' = Ids \cup {Len(owner')}
         /\ Len(owner') \notin Ids
         /\ Len(owner') \in Nat \ {0}
         /\ owner'[Len(owner')] = s
         /\ \A q \in Ids : owner'[q] = owner[q]
<1>1. owner' \in Seq(Senders) /\ Len(owner') = Len(owner) + 1 /\ Len(owner) \in Nat
  OBVIOUS
<1> QED
  BY <1>1 DEF Ids

\* What a handler's message was is not the news of a sender's end: that is still
\* under way when the message has been received.
LEMMA ReceiveLeavesNews ==
  ASSUME inbox \in Seq(Messages), NEW m, NEW s \in Senders,
         Receive(m), m # NameLost(s), WillHearOf(s)
  PROVE  WillHearOf(s)'
<1>1. CASE s \in alive
  BY <1>1 DEF WillHearOf, Receive
<1>2. CASE s \notin alive
  <2>1. PICK i \in DOMAIN inbox : inbox[i] = NameLost(s)
    BY <1>2 DEF WillHearOf
  <2>2. inbox # <<>> /\ inbox[1] = m /\ inbox' = Tail(inbox)
    BY DEF Receive
  <2>3. i # 1
    BY <2>1, <2>2
  <2>4. i - 1 \in DOMAIN inbox' /\ inbox'[i - 1] = inbox[i]
    BY <2>1, <2>2, <2>3
  <2> QED
    BY <2>1, <2>4 DEF WillHearOf, NameLost
<1> QED
  BY <1>1, <1>2

\* Neither does a message that is posted take the news away.
LEMMA AppendLeavesNews ==
  ASSUME inbox \in Seq(Messages), NEW m, NEW s \in Senders,
         inbox' = Append(inbox, m), alive' = alive, WillHearOf(s)
  PROVE  WillHearOf(s)'
<1>1. CASE s \in alive
  BY <1>1 DEF WillHearOf
<1>2. CASE s \notin alive
  <2>1. PICK i \in DOMAIN inbox : inbox[i] = NameLost(s)
    BY <1>2 DEF WillHearOf
  <2>2. i \in DOMAIN inbox' /\ inbox'[i] = inbox[i]
    BY <2>1
  <2> QED
    BY <2>1, <2>2 DEF WillHearOf, NameLost
<1> QED
  BY <1>1, <1>2

\* The messages the handlers of calls receive are no news of a sender's end.
LEMMA CallsAreNoNews ==
  ASSUME NEW s \in Senders, NEW t \in Senders, NEW q
  PROVE  /\ CloseObject(s, q) # NameLost(t)
         /\ \A method \in {"CreateQuery", "StartQuery", "ExecuteQuery", "CloseQuery"} :
              Call(method, s) # NameLost(t)
BY DEF CloseObject, NameLost, Call

-----------------------------------------------------------------------------
(* The bus and the clients.                                                *)

LEMMA SendKeepsIInv ==
  ASSUME IInv, NEW s \in Senders, Send(s)
  PROVE  IInv'
<1>1. PICK m \in Messages : Post(m)
  <2>1. CASE \E q \in Ids : Post(CloseObject(s, q))
    BY <2>1 DEF CloseObject, Messages, Ids
  <2>2. CASE \E method \in {"CreateQuery", "StartQuery", "ExecuteQuery", "CloseQuery"} :
               Post(Call(method, s))
    BY <2>2 DEF Call, Messages
  <2> QED
    BY <2>1, <2>2 DEF Send
<1>2. /\ calls < MaxCalls /\ calls' = calls + 1
      /\ inbox' = Append(inbox, m)
      /\ UNCHANGED <<alive, rules, queries, legacy, timer, owner, closed, orphans>>
  BY <1>1 DEF Post, serviceVars, histories
<1>3. TypeOK'
  BY <1>2 DEF IInv, TypeOK, Ids
<1>4. LegacyInv'
  BY <1>2 DEF IInv, LegacyInv, LegacyQueriesAreOpenOrClosedElsewhere, RunningTimersHaveAQuery
<1>5. SendersGoneAreHeardOf'
  <2>1. \A q \in queries : owner[q] \in Senders
    BY DEF IInv, TypeOK, Ids
  <2>2. \A t \in Senders : WillHearOf(t) => WillHearOf(t)'
    BY <1>2, AppendLeavesNews DEF IInv, TypeOK
  <2> QED
    BY <1>2, <2>1, <2>2 DEF IInv, SendersGoneAreHeardOf
<1> QED
  BY <1>3, <1>4, <1>5 DEF IInv

LEMMA DieKeepsIInv ==
  ASSUME IInv, NEW s \in Senders, Die(s)
  PROVE  IInv'
<1> DEFINE Q == {q \in Objects : owner[q] = s}
<1>1. /\ alive' = alive \ {s}
      /\ \/ inbox' = Append(inbox, NameLost(s)) /\ orphans' = orphans
         \/ inbox' = inbox /\ orphans' = orphans \cup Q
      /\ UNCHANGED <<calls, rules, queries, legacy, timer, owner, closed>>
  BY DEF Die, serviceVars
<1>2. NameLost(s) \in Messages
  BY DEF NameLost, Messages
<1>3. Objects \subseteq Ids
  BY DEF IInv, TypeOK, Objects, Ids
<1>4. TypeOK'
  <2>1. inbox' \in Seq(Messages)
    <3>1. inbox \in Seq(Messages)
      BY DEF IInv, TypeOK
    <3>2. inbox' = inbox \/ inbox' = Append(inbox, NameLost(s))
      BY <1>1
    <3> QED
      BY <1>2, <3>1, <3>2
  <2>2. alive' \subseteq Senders
    BY <1>1 DEF IInv, TypeOK
  <2>3. orphans' \subseteq Ids
    BY <1>1, <1>3 DEF IInv, TypeOK
  <2> QED
    BY <1>1, <2>1, <2>2, <2>3 DEF IInv, TypeOK, Ids
<1>5. LegacyInv'
  BY <1>1 DEF IInv, LegacyInv, LegacyQueriesAreOpenOrClosedElsewhere, RunningTimersHaveAQuery
<1>6. ASSUME NEW q \in queries PROVE WillHearOf(owner[q])' \/ q \in orphans'
  <2>1. q \in Objects /\ owner[q] \in Senders
    BY DEF Objects, IInv, TypeOK, Ids
  <2>2. CASE owner[q] = s /\ inbox' = inbox
    BY <1>1, <2>1, <2>2
  <2>3. CASE owner[q] = s /\ inbox' = Append(inbox, NameLost(s))
    <3>1. Len(inbox) + 1 \in DOMAIN inbox' /\ inbox'[Len(inbox) + 1] = NameLost(s)
      BY <2>3 DEF IInv, TypeOK
    <3> QED
      BY <1>1, <2>3, <3>1 DEF WillHearOf, NameLost
  <2>4. CASE owner[q] # s
    <3>1. WillHearOf(owner[q]) \/ q \in orphans
      BY DEF IInv, SendersGoneAreHeardOf
    <3>2. ASSUME NEW i \in DOMAIN inbox PROVE i \in DOMAIN inbox' /\ inbox'[i] = inbox[i]
      BY <1>1 DEF IInv, TypeOK
    <3> QED
      BY <1>1, <2>4, <3>1, <3>2 DEF WillHearOf, NameLost
  <2> QED
    BY <1>1, <2>2, <2>3, <2>4
<1> QED
  BY <1>1, <1>4, <1>5, <1>6 DEF IInv, SendersGoneAreHeardOf

LEMMA AddMatchKeepsIInv ==
  ASSUME IInv, AddMatch
  PROVE  IInv'
BY DEF IInv, TypeOK, Ids, LegacyInv, LegacyQueriesAreOpenOrClosedElsewhere,
       RunningTimersHaveAQuery, SendersGoneAreHeardOf, WillHearOf, NameLost,
       AddMatch, serviceVars, histories

-----------------------------------------------------------------------------
(* The handlers.                                                           *)

\* A message a handler has received leaves the queries of the others heard of.
LEMMA ReceiveCall ==
  ASSUME IInv, NEW s \in Senders, NEW m, Receive(m),
         \A t \in Senders : m # NameLost(t)
  PROVE  /\ inbox' \in Seq(Messages)
         /\ UNCHANGED <<alive, calls, rules>>
         /\ \A t \in Senders : WillHearOf(t) => WillHearOf(t)'
<1>1. inbox \in Seq(Messages) /\ inbox # <<>> /\ inbox' = Tail(inbox)
  BY DEF IInv, TypeOK, Receive
<1>2. \A t \in Senders : WillHearOf(t) => WillHearOf(t)'
  BY <1>1, ReceiveLeavesNews
<1> QED
  BY <1>1, <1>2 DEF Receive

\* A new query is open under an id nobody had, its sender heard of unless it is
\* an orphan; the other queries are as they were.
LEMMA CreatesQueryEffect ==
  ASSUME IInv, NEW s \in Senders, CreatesQuery(s),
         \A t \in Senders : WillHearOf(t) => WillHearOf(t)'
  PROVE  /\ owner' = Append(owner, s)
         /\ queries' = queries \cup {Len(owner')}
         /\ queries' \subseteq Ids'
         /\ orphans' \subseteq Ids'
         /\ SendersGoneAreHeardOf'
<1>1. /\ owner' = Append(owner, s)
      /\ queries' = queries \cup {Len(owner')}
      /\ orphans' = IF WillHearOf(s) THEN orphans ELSE orphans \cup {Len(owner')}
  BY DEF CreatesQuery
<1>2. queries \subseteq Ids /\ orphans \subseteq Ids /\ owner \in Seq(Senders)
  BY DEF IInv, TypeOK
<1>3. queries' \subseteq Ids' /\ orphans' \subseteq Ids'
  BY <1>1, <1>2, AppendOwner
<1>4. ASSUME NEW q \in queries' PROVE WillHearOf(owner[q])' \/ q \in orphans'
  <2>1. CASE q = Len(owner')
    BY <1>1, <1>2, <2>1, AppendOwner
  <2>2. CASE q \in queries
    <3>1. owner'[q] = owner[q] /\ owner[q] \in Senders
      BY <1>1, <1>2, <2>2, AppendOwner DEF Ids
    <3>2. CASE q \in orphans
      BY <1>1, <3>2
    <3>3. CASE q \notin orphans
      <4>1. PICK t \in Senders : t = owner[q]
        BY <3>1
      <4>2. WillHearOf(t)
        BY <2>2, <3>3, <4>1 DEF IInv, SendersGoneAreHeardOf
      <4>3. WillHearOf(t)'
        BY <4>2
      <4> QED
        BY <3>1, <4>1, <4>3 DEF WillHearOf, NameLost
    <3> QED
      BY <3>2, <3>3
  <2> QED
    BY <1>1, <2>1, <2>2
<1> QED
  BY <1>1, <1>3, <1>4 DEF SendersGoneAreHeardOf

LEMMA CreateQueryKeepsIInv ==
  ASSUME IInv, NEW s \in Senders, CreateQuery(s)
  PROVE  IInv'
<1>1. /\ Receive(Call("CreateQuery", s)) /\ CreatesQuery(s)
      /\ UNCHANGED <<legacy, timer, closed>>
  BY DEF CreateQuery
<1>2. \A t \in Senders : Call("CreateQuery", s) # NameLost(t)
  BY CallsAreNoNews
<1>3. /\ inbox' \in Seq(Messages)
      /\ UNCHANGED <<alive, calls, rules>>
      /\ \A t \in Senders : WillHearOf(t) => WillHearOf(t)'
  BY <1>1, <1>2, ReceiveCall
<1>4. /\ owner' = Append(owner, s)
      /\ queries' = queries \cup {Len(owner')}
      /\ queries' \subseteq Ids' /\ orphans' \subseteq Ids'
      /\ SendersGoneAreHeardOf'
  BY <1>1, <1>3, CreatesQueryEffect
<1>5. /\ owner' \in Seq(Senders) /\ Len(owner') = Len(owner) + 1
      /\ Ids \subseteq Ids' /\ \A q \in Ids : owner'[q] = owner[q]
  BY <1>4, AppendOwner DEF IInv, TypeOK
<1>6. TypeOK'
  BY <1>1, <1>3, <1>4, <1>5 DEF IInv, TypeOK
<1>7. LegacyInv'
  BY <1>1, <1>4, <1>5 DEF IInv, TypeOK, LegacyInv, LegacyQueriesAreOpenOrClosedElsewhere,
                          RunningTimersHaveAQuery
<1> QED
  BY <1>4, <1>6, <1>7 DEF IInv

LEMMA StartQueryKeepsIInv ==
  ASSUME IInv, NEW s \in Senders, StartQuery(s)
  PROVE  IInv'
<1>1. /\ Receive(Call("StartQuery", s))
      /\ timer' = [timer EXCEPT ![s] = FALSE]
      /\ closed' = closed
  BY DEF StartQuery
<1>2. \A t \in Senders : Call("StartQuery", s) # NameLost(t)
  BY CallsAreNoNews
<1>3. /\ inbox' \in Seq(Messages)
      /\ UNCHANGED <<alive, calls, rules>>
      /\ \A t \in Senders : WillHearOf(t) => WillHearOf(t)'
  BY <1>1, <1>2, ReceiveCall
<1>4. CASE legacy[s] = 0
  <2>1. CreatesQuery(s) /\ legacy' = [legacy EXCEPT ![s] = Len(owner')]
    BY <1>4 DEF StartQuery
  <2>2. /\ owner' = Append(owner, s)
        /\ queries' = queries \cup {Len(owner')}
        /\ queries' \subseteq Ids' /\ orphans' \subseteq Ids'
        /\ SendersGoneAreHeardOf'
    BY <2>1, <1>3, CreatesQueryEffect
  <2>3. /\ owner' \in Seq(Senders) /\ Len(owner') = Len(owner) + 1
        /\ owner'[Len(owner')] = s
        /\ Ids' = Ids \cup {Len(owner')} /\ \A q \in Ids : owner'[q] = owner[q]
    BY <2>2, AppendOwner DEF IInv, TypeOK
  <2>4. TypeOK'
    BY <1>1, <1>3, <2>1, <2>2, <2>3 DEF IInv, TypeOK
  <2>5. ASSUME NEW t \in Senders, legacy'[t] # 0
        PROVE  owner'[legacy'[t]] = t /\ legacy'[t] \in queries' \cup closed'
    BY <1>1, <2>1, <2>2, <2>3, <2>5 DEF IInv, TypeOK, LegacyInv,
       LegacyQueriesAreOpenOrClosedElsewhere
  <2>6. ASSUME NEW t \in Senders, timer'[t]
        PROVE  legacy'[t] # 0
    <3>1. t # s
      BY <1>1, <2>6 DEF IInv, TypeOK
    <3> QED
      BY <1>1, <2>1, <2>6, <3>1 DEF IInv, TypeOK, LegacyInv, RunningTimersHaveAQuery
  <2> QED
    BY <2>2, <2>4, <2>5, <2>6 DEF IInv, LegacyInv, LegacyQueriesAreOpenOrClosedElsewhere,
                                  RunningTimersHaveAQuery
<1>5. CASE legacy[s] # 0
  <2>1. UNCHANGED <<owner, queries, orphans, legacy>>
    BY <1>5 DEF StartQuery
  <2>2. TypeOK'
    BY <1>1, <1>3, <2>1 DEF IInv, TypeOK, Ids
  <2>3. LegacyInv'
    BY <1>1, <2>1 DEF IInv, TypeOK, LegacyInv, LegacyQueriesAreOpenOrClosedElsewhere,
                      RunningTimersHaveAQuery
  <2>4. SendersGoneAreHeardOf'
    BY <1>3, <2>1 DEF IInv, TypeOK, Ids, SendersGoneAreHeardOf
  <2> QED
    BY <2>2, <2>3, <2>4 DEF IInv
<1> QED
  BY <1>4, <1>5

\* Taking a legacy query closes no query of another sender's (OwnersTellSenders).
LEMMA TakeLegacyEffect ==
  ASSUME IInv, NEW s \in Senders, TakeLegacy(s), UNCHANGED <<closed, orphans>>
  PROVE  /\ owner' = owner /\ queries' \subseteq queries
         /\ legacy' \in [Senders -> {0} \cup Ids']
         /\ timer' \in [Senders -> BOOLEAN]
         /\ LegacyInv'
<1>1. /\ legacy' = [legacy EXCEPT ![s] = 0]
      /\ timer' = [timer EXCEPT ![s] = FALSE]
      /\ queries' = queries \ {legacy[s]}
      /\ owner' = owner
  BY DEF TakeLegacy
<1>2. legacy' \in [Senders -> {0} \cup Ids'] /\ timer' \in [Senders -> BOOLEAN]
  BY <1>1 DEF IInv, TypeOK, Ids
<1>3. LegacyQueriesAreDistinct
  BY OwnersTellSenders DEF IInv
<1>4. ASSUME NEW t \in Senders, legacy'[t] # 0
      PROVE  owner'[legacy'[t]] = t /\ legacy'[t] \in queries' \cup closed'
  <2>1. t # s /\ legacy'[t] = legacy[t]
    BY <1>1, <1>4 DEF IInv, TypeOK
  <2>2. legacy[t] # legacy[s]
    BY <1>3, <1>4, <2>1 DEF LegacyQueriesAreDistinct
  <2> QED
    BY <1>1, <1>4, <2>1, <2>2 DEF IInv, LegacyInv, LegacyQueriesAreOpenOrClosedElsewhere
<1>5. ASSUME NEW t \in Senders, timer'[t]
      PROVE  legacy'[t] # 0
  <2>1. t # s
    BY <1>1, <1>5 DEF IInv, TypeOK
  <2> QED
    BY <1>1, <1>5, <2>1 DEF IInv, TypeOK, LegacyInv, RunningTimersHaveAQuery
<1> QED
  BY <1>1, <1>2, <1>4, <1>5 DEF LegacyInv, LegacyQueriesAreOpenOrClosedElsewhere,
                                RunningTimersHaveAQuery

\* Queries that go away leave nobody unheard of.
LEMMA FewerQueriesAreHeardOf ==
  ASSUME IInv, queries' \subseteq queries, owner' = owner, orphans' = orphans,
         \A t \in Senders : WillHearOf(t) => WillHearOf(t)'
  PROVE  SendersGoneAreHeardOf'
<1>1. \A q \in queries' : q \in queries /\ owner[q] \in Senders
  BY DEF IInv, TypeOK, Ids
<1> QED
  BY <1>1 DEF IInv, SendersGoneAreHeardOf

LEMMA ExecuteQueryKeepsIInv ==
  ASSUME IInv, NEW s \in Senders, ExecuteQuery(s)
  PROVE  IInv'
<1>1. Receive(Call("ExecuteQuery", s)) /\ closed' = closed /\ orphans' = orphans
  BY DEF ExecuteQuery, histories
<1>2. \A t \in Senders : Call("ExecuteQuery", s) # NameLost(t)
  BY CallsAreNoNews
<1>3. /\ inbox' \in Seq(Messages)
      /\ UNCHANGED <<alive, calls, rules>>
      /\ \A t \in Senders : WillHearOf(t) => WillHearOf(t)'
  BY <1>1, <1>2, ReceiveCall
<1>4. /\ owner' = owner /\ queries' \subseteq queries
      /\ legacy' \in [Senders -> {0} \cup Ids']
      /\ timer' \in [Senders -> BOOLEAN]
      /\ LegacyInv'
  <2>1. CASE legacy[s] # 0
    BY <1>1, <2>1, TakeLegacyEffect DEF ExecuteQuery
  <2>2. CASE legacy[s] = 0
    BY <1>1, <2>2 DEF ExecuteQuery, serviceVars, IInv, TypeOK, Ids, LegacyInv,
       LegacyQueriesAreOpenOrClosedElsewhere, RunningTimersHaveAQuery
  <2> QED
    BY <2>1, <2>2
<1>5. TypeOK'
  BY <1>1, <1>3, <1>4 DEF IInv, TypeOK, Ids
<1>6. SendersGoneAreHeardOf'
  BY <1>1, <1>3, <1>4, FewerQueriesAreHeardOf
<1> QED
  BY <1>4, <1>5, <1>6 DEF IInv

LEMMA CloseQueryKeepsIInv ==
  ASSUME IInv, NEW s \in Senders, CloseQuery(s)
  PROVE  IInv'
<1>1. /\ Receive(Call("CloseQuery", s))
      /\ timer' = [timer EXCEPT ![s] = legacy[s] # 0]
      /\ UNCHANGED <<queries, legacy, owner, closed, orphans>>
  BY DEF CloseQuery, histories
<1>2. \A t \in Senders : Call("CloseQuery", s) # NameLost(t)
  BY CallsAreNoNews
<1>3. /\ inbox' \in Seq(Messages)
      /\ UNCHANGED <<alive, calls, rules>>
      /\ \A t \in Senders : WillHearOf(t) => WillHearOf(t)'
  BY <1>1, <1>2, ReceiveCall
<1>4. timer' \in [Senders -> BOOLEAN]
  BY <1>1 DEF IInv, TypeOK
<1>5. TypeOK'
  BY <1>1, <1>3, <1>4 DEF IInv, TypeOK, Ids
<1>6. ASSUME NEW t \in Senders, timer'[t]
      PROVE  legacy'[t] # 0
  <2>1. CASE t = s
    BY <1>1, <1>6, <2>1 DEF IInv, TypeOK
  <2>2. CASE t # s
    BY <1>1, <1>6, <2>2 DEF IInv, TypeOK, LegacyInv, RunningTimersHaveAQuery
  <2> QED
    BY <2>1, <2>2
<1>7. LegacyInv'
  BY <1>1, <1>6 DEF IInv, LegacyInv, LegacyQueriesAreOpenOrClosedElsewhere,
                    RunningTimersHaveAQuery
<1>8. SendersGoneAreHeardOf'
  BY <1>1, <1>3, FewerQueriesAreHeardOf
<1> QED
  BY <1>5, <1>7, <1>8 DEF IInv

LEMMA LegacyTimeoutKeepsIInv ==
  ASSUME IInv, NEW s \in Senders, LegacyTimeout(s)
  PROVE  IInv'
<1>1. TakeLegacy(s) /\ UNCHANGED <<alive, inbox, calls, rules, closed, orphans>>
  BY DEF LegacyTimeout, histories
<1>2. /\ owner' = owner /\ queries' \subseteq queries
      /\ legacy' \in [Senders -> {0} \cup Ids']
      /\ timer' \in [Senders -> BOOLEAN]
      /\ LegacyInv'
  BY <1>1, TakeLegacyEffect
<1>3. TypeOK'
  BY <1>1, <1>2 DEF IInv, TypeOK, Ids
<1>4. SendersGoneAreHeardOf'
  BY <1>1, <1>2 DEF IInv, SendersGoneAreHeardOf, WillHearOf, NameLost
<1> QED
  BY <1>2, <1>3, <1>4 DEF IInv

\* closeQuery keeps the types and only moves queries from open to closed.
LEMMA ClosesQueriesEffect ==
  ASSUME IInv, NEW Q \in SUBSET Objects, ClosesQueries(Q),
         inbox' \in Seq(Messages), UNCHANGED <<alive, calls, rules>>
  PROVE  /\ TypeOK' /\ LegacyInv'
         /\ owner' = owner /\ orphans' = orphans /\ queries' = queries \ Q
<1>1. /\ queries' = queries \ Q
      /\ closed' = closed \cup Q
      /\ UNCHANGED <<legacy, timer, owner, orphans>>
  BY DEF ClosesQueries
<1>2. Q \subseteq Ids
  BY DEF IInv, TypeOK, Objects, Ids
<1>3. TypeOK'
  BY <1>1, <1>2 DEF IInv, TypeOK, Ids
<1>4. LegacyInv'
  BY <1>1 DEF IInv, LegacyInv, LegacyQueriesAreOpenOrClosedElsewhere,
              RunningTimersHaveAQuery
<1> QED
  BY <1>1, <1>3, <1>4

LEMMA QueryCloseQueryKeepsIInv ==
  ASSUME IInv, NEW s \in Senders, NEW q \in Ids, QueryCloseQuery(s, q)
  PROVE  IInv'
<1>1. Receive(CloseObject(s, q)) /\ ClosesQueries({q} \cap Objects)
  BY DEF QueryCloseQuery
<1>2. \A t \in Senders : CloseObject(s, q) # NameLost(t)
  BY CallsAreNoNews
<1>3. /\ inbox' \in Seq(Messages)
      /\ UNCHANGED <<alive, calls, rules>>
      /\ \A t \in Senders : WillHearOf(t) => WillHearOf(t)'
  BY <1>1, <1>2, ReceiveCall
<1>4. TypeOK' /\ LegacyInv' /\ owner' = owner /\ orphans' = orphans
        /\ queries' \subseteq queries
  BY <1>1, <1>3, ClosesQueriesEffect
<1> QED
  BY <1>3, <1>4, FewerQueriesAreHeardOf DEF IInv

\* The news of a sender's end is used up by closing all of its queries.
LEMMA ServiceUnregisteredKeepsIInv ==
  ASSUME IInv, NEW s \in Senders, ServiceUnregistered(s)
  PROVE  IInv'
<1> DEFINE Q == {q \in Objects : owner[q] = s}
<1>1. Receive(NameLost(s)) /\ ClosesQueries(Q)
  BY DEF ServiceUnregistered
<1>2. /\ inbox' \in Seq(Messages)
      /\ UNCHANGED <<alive, calls, rules>>
  BY <1>1 DEF IInv, TypeOK, Receive
<1>3. TypeOK' /\ LegacyInv' /\ owner' = owner /\ orphans' = orphans
        /\ queries' = queries \ Q
  BY <1>1, <1>2, ClosesQueriesEffect
<1>4. ASSUME NEW q \in queries' PROVE WillHearOf(owner[q])' \/ q \in orphans'
  <2>1. PICK t \in Senders : t = owner[q]
    BY <1>3 DEF IInv, TypeOK, Ids
  <2>2. q \in queries /\ t # s
    BY <1>3, <2>1 DEF Objects
  <2>3. CASE q \in orphans
    BY <1>3, <2>3
  <2>4. CASE q \notin orphans
    <3>1. WillHearOf(t)
      BY <2>1, <2>2, <2>4 DEF IInv, SendersGoneAreHeardOf
    <3>2. NameLost(s) # NameLost(t)
      BY <2>2 DEF NameLost
    <3>3. WillHearOf(t)'
      BY <1>1, <3>1, <3>2, ReceiveLeavesNews DEF IInv, TypeOK
    <3> QED
      BY <1>3, <2>1, <3>3 DEF WillHearOf, NameLost
  <2> QED
    BY <2>3, <2>4
<1> QED
  BY <1>3, <1>4 DEF IInv, SendersGoneAreHeardOf

-----------------------------------------------------------------------------
LEMMA InitIInv == Init => IInv
BY DEF Init, IInv, TypeOK, Ids, LegacyInv, LegacyQueriesAreOpenOrClosedElsewhere,
       RunningTimersHaveAQuery, SendersGoneAreHeardOf

LEMMA NextIInv ==
  ASSUME IInv, [Next]_vars
  PROVE  IInv'
<1>1. CASE Clients
  BY <1>1, SendKeepsIInv, DieKeepsIInv DEF Clients
<1>2. CASE AddMatch
  BY <1>2, AddMatchKeepsIInv
<1>3. CASE Dispatch
  BY <1>3, CreateQueryKeepsIInv, StartQueryKeepsIInv, ExecuteQueryKeepsIInv,
     CloseQueryKeepsIInv, QueryCloseQueryKeepsIInv, ServiceUnregisteredKeepsIInv
     DEF Dispatch
<1>4. CASE Timers
  BY <1>4, LegacyTimeoutKeepsIInv DEF Timers
<1>5. CASE UNCHANGED vars
  BY <1>5 DEF vars, serviceVars, histories, IInv, TypeOK, Ids, LegacyInv,
     LegacyQueriesAreOpenOrClosedElsewhere, RunningTimersHaveAQuery,
     SendersGoneAreHeardOf, WillHearOf, NameLost
<1> QED
  BY <1>1, <1>2, <1>3, <1>4, <1>5 DEF Next

\* The inductive invariant holds of every behaviour of the service.
THEOREM Invariant == Spec => []IInv
BY InitIInv, NextIInv, PTL DEF Spec

\* The maps, the timers and the messages keep their types.
THEOREM TypeCorrect == Spec => []TypeOK
BY Invariant, PTL DEF IInv

\* A legacy query is its sender's and open, or was closed behind the map's back.
THEOREM LegacyMapsAgree == Spec => []LegacyQueriesAreOpenOrClosedElsewhere
BY Invariant, PTL DEF IInv, LegacyInv

\* legacyTimeout always finds the query it is to close.
THEOREM TimersHaveQueries == Spec => []RunningTimersHaveAQuery
BY Invariant, PTL DEF IInv, LegacyInv

\* With no message under way, only orphans outlive their sender: for no number of
\* clients and calls does a watcher that was in time miss its sender's end.
THEOREM QuietGoneSendersAreCleanedUp == Spec => []QuietSendersGoneHaveNoQueries
<1>1. IInv => QuietSendersGoneHaveNoQueries
  BY DEF IInv, SendersGoneAreHeardOf, WillHearOf, QuietSendersGoneHaveNoQueries
<1> QED
  BY <1>1, Invariant, PTL
=============================================================================
