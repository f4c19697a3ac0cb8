---------------------------- MODULE CommandUsage ----------------------------
(***************************************************************************)
(* The commands a query of hud-service runs, and the SqliteUsageTracker    *)
(* that counts them: a cache of the month's uses, and the database they    *)
(* are written to, which outlives the service if the user lets it.         *)
(*                                                                         *)
(* A query holds the window token of its last refresh that found a window, *)
(* and the token's commands are those of the window's application, to      *)
(* which its uses are counted.  All commands of an application stand for   *)
(* one entry.  The dates of the database are days.                         *)
(***************************************************************************)
EXTENDS ApplicationList, Integers, FiniteSetsExt

CONSTANTS
  Month,    \* the days a use counts for (30)
  MaxDays,  \* bound on the days
  MaxUses   \* bound on the uses there are

ASSUME UsageAssumption ==
  Month \in Nat \ {0} /\ MaxDays \in Nat \ {0} /\ MaxUses \in Nat

VARIABLES
  token,     \* the application of the query's m_windowToken, None without one
  stored,    \* the setting storeUsageData: the database is a file
  today,     \* the date
  loaded,    \* the day of the last loadFromDatabase, 0 before there is a tracker
  usage,     \* m_usage
  database,  \* the uses written, by application and day
  unwritten, \* history: uses since the last load that could not be written
  unread     \* history: uses of the month the last load could not read

usageVars == <<stored, loaded, usage, database, unwritten, unread>>
serviceVars == <<vars, token, today, usageVars>>

Days == 1..MaxDays
NoUses == [a \in Applications |-> 0]
Empty == [a \in Applications |-> [d \in Days |-> 0]]

UInit ==
  /\ Init
  /\ token = None
  /\ stored \in BOOLEAN
  /\ today = 1 /\ loaded = 0
  /\ usage = NoUses /\ database = Empty /\ unwritten = NoUses /\ unread = NoUses

\* The uses of an application in db later than a day.
UsesAfter(db, a, day) == MapThenSumSet(LAMBDA d : db[a][d], {d \in Days : d > day})

MonthsUses == [a \in Applications |-> UsesAfter(database, a, today - Month)]

\* The deletion of what is older than a month, which may fail unnoticed.
DeleteOldUses ==
  \/ database' = [a \in Applications |->
                    [d \in Days |-> IF d < today - Month THEN 0 ELSE database[a][d]]]
  \/ UNCHANGED database

\* Mutation of LoadFromDatabase: the cache is not cleared, and keeps what the query
\* gives no row for.
LoadOverCache ==
  LET uses == MonthsUses IN
  /\ loaded' = today
  /\ DeleteOldUses
  /\ \E read \in SUBSET {a \in Applications : uses[a] # 0} :
       /\ usage' = [a \in Applications |-> IF a \in read THEN uses[a] ELSE usage[a]]
       /\ unread' = [a \in Applications |-> IF a \in read THEN 0 ELSE uses[a]]
  /\ unwritten' = NoUses
  /\ UNCHANGED stored

\* loadFromDatabase: of the uses just a month old, the cache has none and the database
\* all.  The cache is cleared and nobody asks what became of the statements: the rows
\* that are read are all, none (the database is not open, the query failed) or some.
LoadFromDatabase ==
  LET uses == MonthsUses IN
  /\ loaded' = today
  /\ DeleteOldUses
  /\ \E read \in SUBSET {a \in Applications : uses[a] # 0} :
       /\ usage' = [a \in Applications |-> IF a \in read THEN uses[a] ELSE 0]
       /\ unread' = [a \in Applications |-> IF a \in read THEN 0 ELSE uses[a]]
  /\ unwritten' = NoUses
  /\ UNCHANGED stored

\* markUsage; what the database says to the insertion is ignored.
MarkUsage(a) ==
  /\ MapThenSumSet(LAMBDA b : UsesAfter(database, b, 0) + unwritten[b], Applications) < MaxUses
  /\ usage' = [usage EXCEPT ![a] = @ + 1]
  /\ \/ database' = [database EXCEPT ![a][today] = @ + 1] /\ UNCHANGED unwritten
     \/ unwritten' = [unwritten EXCEPT ![a] = @ + 1] /\ UNCHANGED database
  /\ UNCHANGED <<stored, loaded, unread>>

\* updateToken, if the focused window is found; with the first token's ItemStore
\* comes the tracker.
UpdateToken ==
  IF focusedApplication' # None /\ focusedWindowId' \in live'[focusedApplication']
  THEN /\ token' = focusedApplication'
       /\ IF loaded = 0 THEN LoadFromDatabase ELSE UNCHANGED usageVars
  ELSE UNCHANGED <<token, usageVars>>

-----------------------------------------------------------------------------
\* What does not refresh the query, or finds no window.
ListStep ==
  /\ \/ \E stack \in StackReplies : \E focus \in DOMAIN stack \cup {None} :
          Construct(stack, focus)
     \/ ConstructError
     \/ \E w \in WindowIds, a \in AppIds : WindowCreated(w, a) \/ WindowDestroyed(w, a)
     \/ \E w \in WindowIds, a \in IgnoredIds : FocusedWindowChanged(w, a)
     \/ \E a \in AppIds : RegisterApplication(a)
     \/ \E a \in Applications, w \in WindowIds : LookupWindowContext(a, w)
  /\ UNCHANGED <<token, today, usageVars>>

FocusStep ==
  /\ \E w \in WindowIds, a \in Applications : FocusedWindowChanged(w, a)
  /\ IF queryOpen THEN UpdateToken ELSE UNCHANGED <<token, usageVars>>
  /\ UNCHANGED today

QueryStep ==
  /\ OpenQuery \/ RefreshQuery
  /\ UpdateToken
  /\ UNCHANGED today

CloseStep ==
  /\ CloseQuery
  /\ token' = None
  /\ UNCHANGED <<today, usageVars>>

\* executeItem, of an item whose action is there: the action is activated.
ExecuteItem ==
  /\ queryOpen /\ token # None
  /\ MarkUsage(token)
  /\ UNCHANGED <<vars, token, today>>

\* The service ends, and is started again by the next call.
Restart ==
  /\ subscription' = "constructing"
  /\ applications' = {}
  /\ keys' = [a \in Applications |-> {}] /\ live' = [a \in Applications |-> {}]
  /\ focusedApplication' = None /\ focusedWindowId' = None
  /\ queryOpen' = FALSE /\ appstack' = None
  /\ reported' = [a \in Applications |-> {}]
  /\ token' = None
  /\ loaded' = 0 /\ usage' = NoUses /\ unwritten' = NoUses /\ unread' = NoUses
  /\ database' = IF stored THEN database ELSE Empty
  /\ UNCHANGED <<today, stored>>

\* ExecuteCommand and ExecuteParameterized, which do not ask if there is a token.
ExecuteCommand == ExecuteItem \/ (queryOpen /\ token = None /\ Restart)

\* ExecuteToolbar does.
ExecuteToolbar == ExecuteItem

\* The daily timer; it is very coarse, and not the clock's day.
Timeout ==
  /\ loaded # 0
  /\ LoadFromDatabase
  /\ UNCHANGED <<vars, token, today>>

\* A bound: the days before a use is written are as good as one.
Midnight ==
  /\ today < MaxDays
  /\ database # Empty
  /\ today' = today + 1
  /\ UNCHANGED <<vars, token, usageVars>>

UNext ==
  \/ ListStep \/ FocusStep \/ QueryStep \/ CloseStep
  \/ ExecuteCommand \/ ExecuteToolbar
  \/ Timeout \/ Midnight \/ Restart

USpec == UInit /\ [][UNext]_serviceVars

-----------------------------------------------------------------------------
\* What orders the suggestions is the month's uses: the cache, and what the last load
\* could not read, count for each application the uses the database has of the month
\* before that load and since, and those that could not be written since.  Reloading
\* each day, marking, days passing, statements that fail and restarts keep the two
\* together: a load that fails loses no more than what it did not read, until the next.
UsageIsTheMonths ==
  loaded # 0 =>
    \A a \in Applications :
      usage[a] + unread[a] = UsesAfter(database, a, loaded - Month) + unwritten[a]
=============================================================================
