---------------------------- MODULE LoggerProxy ----------------------------
(***************************************************************************)
(* The way of a log record from a native thread to Mediasoup.LoggerProxy,  *)
(* a registered GenServer that is restarted when it dies.                  *)
(*                                                                         *)
(* A thread that logs compares the level with a global maximum, asks the   *)
(* global logger, reads the pid of the proxy from it and leaves the record *)
(* to a task that sends it.  A starting proxy installs the logger, its pid *)
(* and its level, one after the other, while threads go on logging.        *)
(***************************************************************************)
EXTENDS Naturals

CONSTANTS
  Record,    \* the records that are logged
  Noise,     \* those that end in "Channel already closed"
  Levels,    \* the levels used, as numbers
  MaxStart   \* bound on the starts of a proxy

LevelFilter == 0..5    \* Off, Error, Warn, Info, Debug, Trace

ASSUME LoggerAssumption ==
  Noise \subseteq Record /\ Levels \subseteq LevelFilter /\ MaxStart \in Nat

Proxy == 1..MaxStart

\* What a record of level l is shown as: the proxy knows no Trace.
NifLevel(l) == IF l = 5 THEN 4 ELSE l

VARIABLES
  logger,    \* the logger of the log crate, set once: "none", "proxy" or "env"
  maxLevel,  \* its global level
  pid,       \* the proxy LOGGER_PROXY sends to, 0 for None
  levelBy,   \* the proxy whose init set the level last, 0 for none (history)
  started,   \* how many proxies were started
  proxy,     \* their processes
  config,    \* the max_level each was started with
  stage,     \* where each record is
  level,     \* its level
  dest,      \* the proxy it is sent to
  under      \* the proxy whose level it was compared with (history)

vars == <<logger, maxLevel, pid, levelBy, started, proxy, config, stage, level, dest, under>>
records == <<stage, level, dest, under>>
native  == <<logger, maxLevel, pid, levelBy>>

\* What a proxy in init has still to do, in this order.
Starting == {"starting", "installed", "known"}
Alive(g) == proxy[g] \in Starting \cup {"running"}

TypeOK ==
  /\ logger \in {"none", "proxy", "env"}
  /\ maxLevel \in LevelFilter
  /\ pid \in 0..MaxStart /\ levelBy \in 0..MaxStart /\ started \in 0..MaxStart
  /\ proxy  \in [Proxy -> {"absent", "running", "dead"} \cup Starting]
  /\ config \in [Proxy -> LevelFilter]
  /\ stage  \in [Record -> {"unborn", "checked", "sending", "queued",
                            "below", "ignored", "printed", "handled", "lost"}]
  /\ level  \in [Record -> LevelFilter]
  /\ dest   \in [Record -> 0..MaxStart]
  /\ under  \in [Record -> 0..MaxStart]

Init ==
  /\ logger = "none" /\ maxLevel = 0 /\ pid = 0 /\ levelBy = 0 /\ started = 0
  /\ proxy  = [g \in Proxy |-> "absent"]
  /\ config = [g \in Proxy |-> 0]
  /\ stage  = [r \in Record |-> "unborn"]
  /\ level  = [r \in Record |-> 0]
  /\ dest   = [r \in Record |-> 0]
  /\ under  = [r \in Record |-> 0]

-----------------------------------------------------------------------------
(* The proxy. *)

\* start_link, by the user or by the supervisor that restarts it.  The process
\* is registered before init, so while one is alive every other start returns
\* :already_started and changes nothing.
StartLink ==
  /\ started < MaxStart
  /\ \A g \in Proxy : ~Alive(g)
  /\ started' = started + 1
  /\ proxy' = [proxy EXCEPT ![started'] = "starting"]
  /\ \E l \in Levels : config' = [config EXCEPT ![started'] = l]
  /\ UNCHANGED <<native, records>>

\* init calls set_logger_proxy_process, a NIF that runs to its end.  First
\* log::set_logger, which keeps a logger that is there and whose failure is
\* not looked at ...
InstallLogger(g) ==
  /\ proxy[g] = "starting"
  /\ proxy' = [proxy EXCEPT ![g] = "installed"]
  /\ logger' = IF logger = "none" THEN "proxy" ELSE logger
  /\ UNCHANGED <<maxLevel, pid, levelBy, started, config, records>>

\* Mutant: the pid is set when there is none yet.
SetProxyProcessOnce(g) ==
  /\ proxy[g] = "installed"
  /\ proxy' = [proxy EXCEPT ![g] = "known"]
  /\ pid' = IF pid = 0 THEN g ELSE pid
  /\ UNCHANGED <<logger, maxLevel, levelBy, started, config, records>>

\* ... then the pid ...
SetProxyProcess(g) ==
  /\ proxy[g] = "installed"
  /\ proxy' = [proxy EXCEPT ![g] = "known"]
  /\ pid' = g
  /\ UNCHANGED <<logger, maxLevel, levelBy, started, config, records>>

\* Mutant: only the first proxy sets the level.
SetMaxLevelOnce(g) ==
  /\ proxy[g] = "known"
  /\ proxy' = [proxy EXCEPT ![g] = "running"]
  /\ maxLevel' = IF levelBy = 0 THEN config[g] ELSE maxLevel
  /\ levelBy' = g
  /\ UNCHANGED <<logger, pid, started, config, records>>

\* ... and the level.
SetMaxLevel(g) ==
  /\ proxy[g] = "known"
  /\ proxy' = [proxy EXCEPT ![g] = "running"]
  /\ maxLevel' = config[g]
  /\ levelBy' = g
  /\ UNCHANGED <<logger, pid, started, config, records>>

\* The proxy ends with what is in its mailbox: it is shut down, or killed, or
\* a filter raises, or a message is no record.  A NIF under way ends first.
Die(g) ==
  /\ proxy[g] \in {"starting", "running"}
  /\ proxy' = [proxy EXCEPT ![g] = "dead"]
  /\ stage' = [r \in Record |-> IF stage[r] = "queued" /\ dest[r] = g THEN "lost" ELSE stage[r]]
  /\ UNCHANGED <<native, started, config, level, dest, under>>

\* Mutant: a record above the level of the process is left in the mailbox.
HandleInfoSelectively(r) ==
  /\ stage[r] = "queued"
  /\ proxy[dest[r]] = "running"
  /\ level[r] <= config[dest[r]]
  /\ stage' = [stage EXCEPT ![r] = "handled"]
  /\ UNCHANGED <<native, started, proxy, config, level, dest, under>>

\* handle_info runs the filters and logs the record, or not.  It does not look
\* at the level again.
HandleInfo(r) ==
  /\ stage[r] = "queued"
  /\ proxy[dest[r]] = "running"
  /\ stage' = [stage EXCEPT ![r] = "handled"]
  /\ UNCHANGED <<native, started, proxy, config, level, dest, under>>

-----------------------------------------------------------------------------
(* The native side. *)

\* Nif.init_env_logger: raises when there is a logger, and changes nothing.
InitEnvLogger ==
  /\ logger = "none"
  /\ logger' = "env"
  /\ maxLevel' \in Levels
  /\ UNCHANGED <<pid, levelBy, started, proxy, config, records>>

\* log!: the level is compared with the global one, and with nothing else.
Check(r) ==
  /\ stage[r] = "unborn"
  /\ \E l \in Levels \ {0} :
       /\ level' = [level EXCEPT ![r] = NifLevel(l)]
       /\ stage' = [stage EXCEPT ![r] = IF l <= maxLevel THEN "checked" ELSE "below"]
  /\ under' = [under EXCEPT ![r] = levelBy]
  /\ UNCHANGED <<native, started, proxy, config, dest>>

\* The logger's log: without a logger nothing happens; the proxy's logger drops
\* the noise, reads the pid, and spawns the sending task.
Log(r) ==
  /\ stage[r] = "checked"
  /\ dest' = [dest EXCEPT ![r] = IF logger = "proxy" /\ r \notin Noise THEN pid ELSE 0]
  /\ stage' = [stage EXCEPT ![r] = IF logger = "env" THEN "printed"
                                   ELSE IF r \in Noise THEN "ignored"
                                   ELSE IF logger = "proxy" /\ pid # 0 THEN "sending"
                                   ELSE "lost"]
  /\ UNCHANGED <<native, started, proxy, config, level, under>>

\* The task, one for each record, in any order: a dead process gets nothing.
Send(r) ==
  /\ stage[r] = "sending"
  /\ stage' = [stage EXCEPT ![r] = IF Alive(dest[r]) THEN "queued" ELSE "lost"]
  /\ UNCHANGED <<native, started, proxy, config, level, dest, under>>

Next ==
  \/ StartLink \/ InitEnvLogger
  \/ \E g \in Proxy : InstallLogger(g) \/ SetProxyProcess(g) \/ SetMaxLevel(g) \/ Die(g)
  \/ \E r \in Record : Check(r) \/ Log(r) \/ Send(r) \/ HandleInfo(r)

\* Threads and tasks that have begun go on, a NIF that runs ends, the proxy
\* reads its mailbox.  Nobody has to log, to start a proxy or to end one.
Fairness ==
  /\ \A g \in Proxy : WF_vars(InstallLogger(g) \/ SetProxyProcess(g) \/ SetMaxLevel(g))
  /\ \A r \in Record : WF_vars(Log(r)) /\ WF_vars(Send(r)) /\ WF_vars(HandleInfo(r))

Spec == Init /\ [][Next]_vars /\ Fairness

-----------------------------------------------------------------------------
(* Properties. *)

\* A record that passed the level of a proxy is lost only when that proxy has
\* died: not for want of a logger or a pid, and not because it was sent to the
\* predecessor whose pid is still at hand (the order of src/logger.rs:76-79).
LostOnlyWithItsProxy ==
  \A r \in Record :
    stage[r] = "lost" /\ under[r] # 0 => proxy[under[r]] = "dead"

\* A proxy is sent a record above its max_level only if the record was compared
\* with the level before that proxy had set it: between log! and the reading of
\* the pid the proxy may be another one (test/logger_proxy_test.exs refutes
\* records above the level for a proxy alone).
AboveLevelOnlyEarly ==
  \A r \in Record :
    dest[r] # 0 /\ level[r] > config[dest[r]] => under[r] < dest[r]

\* A record on its way comes to an end: the proxy handles it, also one that is
\* above its level by now, or it is dropped with the proxy it is sent to.
RecordsArrive ==
  \A r \in Record : (stage[r] \in {"checked", "sending", "queued"})
    ~> (stage[r] \in {"ignored", "printed", "handled", "lost"})

-----------------------------------------------------------------------------
(* The inductive invariant behind them. *)

\* One proxy lives at a time, and it is the last one started.
OneProxyInv ==
  \A g \in Proxy : /\ g > started => proxy[g] = "absent"
                   /\ g < started => proxy[g] = "dead"
                   /\ g = started => proxy[g] # "absent"

\* The pid is not behind the level, and the level is that of who set it.
NativeInv ==
  /\ levelBy <= pid /\ pid <= started
  /\ levelBy # 0 => maxLevel = config[levelBy] /\ logger # "none"
  /\ \A g \in Proxy : proxy[g] \in {"installed", "known"} => logger # "none"
  /\ \A g \in Proxy : proxy[g] = "known" => pid = g

\* A record was compared with a level no newer than the proxy it is sent to.
RecordInv(r) ==
  /\ under[r] <= levelBy /\ dest[r] <= pid
  /\ dest[r] # 0 => under[r] <= dest[r]
  /\ stage[r] \in {"sending", "queued"} => dest[r] # 0
  /\ stage[r] = "checked" /\ under[r] # 0 => level[r] <= config[under[r]]
  /\ dest[r] # 0 /\ dest[r] = under[r] => level[r] <= config[under[r]]
  /\ stage[r] = "queued" => Alive(dest[r])
  /\ stage[r] \in {"unborn", "checked"} => dest[r] = 0
  /\ stage[r] = "lost" /\ under[r] # 0 => proxy[under[r]] = "dead"

RecordsInv == \A r \in Record : RecordInv(r)

IInv == TypeOK /\ OneProxyInv /\ NativeInv /\ RecordsInv
=============================================================================
