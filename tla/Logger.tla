------------------------------- MODULE Logger -------------------------------
(***************************************************************************)
(* log: one logger, made by the first goroutine that asks for it, and used *)
(* by all.  A message is printed when its level is not above the logger's; *)
(* goroutines log and set the level at the same time.                      *)
(***************************************************************************)
EXTENDS Integers

CONSTANTS Goroutines, Nobody,
          EnvLevel          \* the level that the environment asks for

ERROR == 0
DEBUG == 3
Levels == ERROR..DEBUG

ASSUME LoggerAssumption == Nobody \notin Goroutines /\ EnvLevel \in Levels

VARIABLES logAt,        \* where each goroutine is
          call,         \* what it calls: "log" or "set", with a level
          once,         \* who runs the function of once.Do, and whether it has run
          onceDone,
          mu,           \* who holds the mutex
          LogLevel,
          lastSet       \* the level that was set last

loggerVars == <<logAt, call, once, onceDone, mu, LogLevel, lastSet>>

Calls  == [name : {"log", "set"}, level : Levels]
NoCall == [name |-> "log", level |-> ERROR]

LoggerInit ==
  /\ logAt = [g \in Goroutines |-> "idle"] /\ call = [g \in Goroutines |-> NoCall]
  /\ once = Nobody /\ onceDone = FALSE /\ mu = Nobody
  /\ LogLevel = ERROR /\ lastSet = EnvLevel

At(g, from, to) == logAt[g] = from /\ logAt' = [logAt EXCEPT ![g] = to]

Use(g) ==
  /\ At(g, "idle", "get") /\ \E c \in Calls : call' = [call EXCEPT ![g] = c]
  /\ UNCHANGED <<once, onceDone, mu, LogLevel, lastSet>>

\* GetLogger: the first goroutine makes the logger, the others wait for it.
OnceBegins(g) ==
  /\ ~onceDone /\ once = Nobody /\ At(g, "get", "make") /\ once' = g
  /\ UNCHANGED <<call, onceDone, mu, LogLevel, lastSet>>

NewLogger(g) ==
  /\ At(g, "make", "lock")
  /\ LogLevel' = EnvLevel /\ onceDone' = TRUE
  /\ UNCHANGED <<call, once, mu, lastSet>>

GetLogger(g) ==
  /\ onceDone /\ At(g, "get", "lock")
  /\ UNCHANGED <<call, once, onceDone, mu, LogLevel, lastSet>>

\* Mutation: the level is looked at before the mutex is taken.
Lock_Late(g) ==
  /\ call[g].name = "log" \/ mu = Nobody
  /\ At(g, "lock", IF call[g].name = "set" THEN "set"
                   ELSE IF LogLevel >= call[g].level THEN "print" ELSE "unlock")
  /\ mu' = g /\ UNCHANGED <<call, once, onceDone, LogLevel, lastSet>>

\* Lock, and for a message the test of its level.
Lock(g) ==
  /\ mu = Nobody /\ mu' = g
  /\ At(g, "lock", IF call[g].name = "set" THEN "set"
                   ELSE IF LogLevel >= call[g].level THEN "print" ELSE "unlock")
  /\ UNCHANGED <<call, once, onceDone, LogLevel, lastSet>>

SetLogLevel(g) ==
  /\ At(g, "set", "unlock") /\ LogLevel' = call[g].level /\ lastSet' = call[g].level
  /\ UNCHANGED <<call, once, onceDone, mu>>

Println(g) ==
  /\ At(g, "print", "unlock") /\ UNCHANGED <<call, once, onceDone, mu, LogLevel, lastSet>>

Unlock(g) ==
  /\ At(g, "unlock", "idle") /\ mu' = Nobody /\ call' = [call EXCEPT ![g] = NoCall]
  /\ UNCHANGED <<once, onceDone, LogLevel, lastSet>>

LoggerStep(g) == \/ OnceBegins(g) \/ NewLogger(g) \/ GetLogger(g) \/ Lock(g)
                 \/ SetLogLevel(g) \/ Println(g) \/ Unlock(g)
LoggerNext == \E g \in Goroutines : Use(g) \/ LoggerStep(g)
LoggerSpec == LoggerInit /\ [][LoggerNext]_loggerVars

-----------------------------------------------------------------------------
(* A goroutine that is printing holds the logger alone, and its message is *)
(* of the level that is set at that moment, not of one that somebody has   *)
(* changed since the test.                                                 *)
PrintsAlone ==
  \A g \in Goroutines : logAt[g] = "print" =>
    /\ call[g].level <= LogLevel
    /\ \A h \in Goroutines \ {g} : logAt[h] # "print"

(* A level that was set stays until the next SetLogLevel: no goroutine     *)
(* that is late in GetLogger replaces the logger by a new one.             *)
SettingKept == onceDone => LogLevel = lastSet

(* The goroutines share one logger.                                        *)
OneLogger == PrintsAlone /\ SettingKept
=============================================================================
