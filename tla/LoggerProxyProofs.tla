------------------------- MODULE LoggerProxyProofs -------------------------
(***************************************************************************)
(* Proofs about LoggerProxy for any number of records and of starts: what  *)
(* passed the level of a proxy is lost only when that proxy dies, and what *)
(* a proxy is sent above its level was compared before it set the level.   *)
(***************************************************************************)
EXTENDS LoggerProxy, TLAPS

\* Nothing is logged and no proxy is started.
LEMMA LoggerInit == Init => IInv
<1>. SUFFICES ASSUME Init PROVE IInv
  OBVIOUS
<1>1. TypeOK
  BY LoggerAssumption DEF Init, TypeOK, LevelFilter, Starting
<1>2. OneProxyInv
  <2>1. started = 0 /\ \A g \in Proxy : g \in Nat /\ g > 0 /\ proxy[g] = "absent"
    BY LoggerAssumption DEF Init, Proxy
  <2>. QED  BY <2>1 DEF OneProxyInv
<1>4. NativeInv
  <2>1. \A g \in Proxy : proxy[g] = "absent"
    BY DEF Init
  <2>. QED  BY <2>1 DEF Init, NativeInv
<1>3. RecordsInv
  <2>1. \A r \in Record : stage[r] = "unborn" /\ dest[r] = 0 /\ under[r] = 0
    BY DEF Init
  <2>2. levelBy = 0 /\ pid = 0
    BY DEF Init
  <2>3. ASSUME NEW r \in Record PROVE RecordInv(r)
    <3>1. stage[r] = "unborn" /\ dest[r] = 0 /\ under[r] = 0 /\ 0 <= 0
      BY <2>1
    <3>2. under[r] <= levelBy /\ dest[r] <= pid
      BY <2>2, <3>1
    <3>. QED  BY <3>1, <3>2 DEF RecordInv
  <2>. QED  BY <2>3 DEF RecordsInv
<1>. QED  BY <1>1, <1>2, <1>3, <1>4 DEF IInv

\* Every action keeps the variables in their types.
LEMMA LoggerTypeStep == TypeOK /\ [Next]_vars => TypeOK'
<1>. SUFFICES ASSUME TypeOK, [Next]_vars PROVE TypeOK'
  OBVIOUS
<1>. USE LoggerAssumption DEF TypeOK, Proxy, Starting, native, records
<1>1. CASE StartLink
  <2>1. started' \in 0..MaxStart /\ started' \in Proxy
    BY <1>1 DEF StartLink
  <2>2. PICK l \in Levels : config' = [config EXCEPT ![started'] = l]
    BY <1>1 DEF StartLink
  <2>3. config' \in [Proxy -> LevelFilter]
    BY <2>2
  <2>4. proxy' \in [Proxy -> {"absent", "running", "dead"} \cup Starting]
    BY <1>1 DEF StartLink
  <2>. QED  BY <1>1, <2>1, <2>3, <2>4 DEF StartLink
<1>2. CASE InitEnvLogger
  BY <1>2 DEF InitEnvLogger
<1>3. ASSUME NEW g \in Proxy, InstallLogger(g) \/ SetProxyProcess(g) \/ SetMaxLevel(g)
      PROVE  TypeOK'
  <2>1. CASE InstallLogger(g)
    BY <2>1 DEF InstallLogger
  <2>2. CASE SetProxyProcess(g)
    BY <2>2 DEF SetProxyProcess
  <2>3. CASE SetMaxLevel(g)
    <3>1. maxLevel' \in LevelFilter /\ levelBy' \in 0..MaxStart
      BY <2>3 DEF SetMaxLevel
    <3>. QED  BY <2>3, <3>1 DEF SetMaxLevel
  <2>. QED  BY <1>3, <2>1, <2>2, <2>3
<1>4. ASSUME NEW g \in Proxy, Die(g) PROVE TypeOK'
  BY <1>4 DEF Die
<1>5. ASSUME NEW r \in Record, Check(r) PROVE TypeOK'
  <2>1. PICK l \in Levels \ {0} :
          /\ level' = [level EXCEPT ![r] = NifLevel(l)]
          /\ stage' = [stage EXCEPT ![r] = IF l <= maxLevel THEN "checked" ELSE "below"]
    BY <1>5 DEF Check
  <2>2. NifLevel(l) \in LevelFilter
    BY DEF NifLevel, LevelFilter
  <2>3. UNCHANGED <<native, started, proxy, config, dest>> /\ under' = [under EXCEPT ![r] = levelBy]
    BY <1>5 DEF Check
  <2>. QED  BY <2>1, <2>2, <2>3
<1>6. ASSUME NEW r \in Record, Log(r) \/ Send(r) \/ HandleInfo(r) PROVE TypeOK'
  <2>1. CASE Log(r)
    BY <2>1 DEF Log
  <2>2. CASE Send(r)
    BY <2>2 DEF Send
  <2>3. CASE HandleInfo(r)
    BY <2>3 DEF HandleInfo
  <2>. QED  BY <1>6, <2>1, <2>2, <2>3
<1>7. CASE UNCHANGED vars
  BY <1>7 DEF vars
<1>. QED  BY <1>1, <1>2, <1>3, <1>4, <1>5, <1>6, <1>7 DEF Next

\* The last proxy started is the only one that may live.
LEMMA OneProxyStep == TypeOK /\ OneProxyInv /\ [Next]_vars => OneProxyInv'
<1>. SUFFICES ASSUME TypeOK, OneProxyInv, [Next]_vars PROVE OneProxyInv'
  OBVIOUS
<1>. USE LoggerAssumption DEF TypeOK, OneProxyInv, Proxy
<1>1. CASE StartLink
  <2>1. started' = started + 1 /\ started' \in Proxy /\ started \in Nat
    BY <1>1 DEF StartLink
  <2>2. \A g \in Proxy : ~Alive(g) /\ proxy' = [proxy EXCEPT ![started'] = "starting"]
    BY <1>1 DEF StartLink
  <2>3. \A g \in Proxy : g <= started => proxy[g] = "dead"
    BY <2>2 DEF Alive, Starting
  <2>. QED  BY <2>1, <2>2, <2>3
<1>2. ASSUME NEW g \in Proxy, InstallLogger(g) \/ SetProxyProcess(g) \/ SetMaxLevel(g) \/ Die(g)
      PROVE  OneProxyInv'
  BY <1>2 DEF InstallLogger, SetProxyProcess, SetMaxLevel, Die
<1>3. CASE UNCHANGED <<proxy, started>>
  BY <1>3
<1>4. ASSUME NEW r \in Record, Check(r) \/ Log(r) \/ Send(r) \/ HandleInfo(r)
      PROVE  UNCHANGED <<proxy, started>>
  BY <1>4 DEF Check, Log, Send, HandleInfo
<1>. QED  BY <1>1, <1>2, <1>3, <1>4 DEF Next, InitEnvLogger, vars

\* A proxy that lives is the last one started.
LEMMA OnlyLastLives ==
  ASSUME TypeOK, OneProxyInv, NEW g \in Proxy, Alive(g)
  PROVE  g = started
<1>1. started \in Nat /\ g \in Nat
  BY LoggerAssumption DEF TypeOK, Proxy
<1>2. proxy[g] # "absent" /\ proxy[g] # "dead"
  BY DEF Alive, Starting
<1>. QED  BY <1>1, <1>2 DEF OneProxyInv

\* The pid stays ahead of the level.
LEMMA NativeStep ==
  TypeOK /\ OneProxyInv /\ NativeInv /\ [Next]_vars => NativeInv'
<1>. SUFFICES ASSUME TypeOK, OneProxyInv, NativeInv, [Next]_vars PROVE NativeInv'
  OBVIOUS
<1>. USE LoggerAssumption DEF TypeOK, NativeInv, Proxy, native
<1>1. CASE StartLink
  <2>1. started' = started + 1 /\ started' \in Proxy /\ UNCHANGED <<logger, maxLevel, pid, levelBy>>
    BY <1>1 DEF StartLink
  <2>2. levelBy # 0 => config'[levelBy] = config[levelBy]
    BY <1>1, <2>1 DEF StartLink
  <2>3. \A g \in Proxy : proxy'[g] = proxy[g] \/ proxy'[g] = "starting"
    BY <1>1 DEF StartLink
  <2>. QED  BY <2>1, <2>2, <2>3
<1>2. CASE InitEnvLogger
  BY <1>2 DEF InitEnvLogger
<1>3. ASSUME NEW g \in Proxy, InstallLogger(g) PROVE NativeInv'
  BY <1>3 DEF InstallLogger
<1>4. ASSUME NEW g \in Proxy, SetProxyProcess(g) PROVE NativeInv'
  <2>1. g = started /\ \A h \in Proxy : proxy[h] = "known" => h = g
    BY <1>4, OnlyLastLives DEF SetProxyProcess, Alive, Starting
  <2>. QED  BY <1>4, <2>1 DEF SetProxyProcess
<1>5. ASSUME NEW g \in Proxy, SetMaxLevel(g) PROVE NativeInv'
  BY <1>5 DEF SetMaxLevel
<1>6. ASSUME NEW g \in Proxy, Die(g) PROVE NativeInv'
  BY <1>6 DEF Die
<1>7. CASE UNCHANGED <<native, started, proxy, config>>
  BY <1>7
<1>8. ASSUME NEW r \in Record, Check(r) \/ Log(r) \/ Send(r) \/ HandleInfo(r)
      PROVE  UNCHANGED <<native, started, proxy, config>>
  BY <1>8 DEF Check, Log, Send, HandleInfo
<1>. QED  BY <1>1, <1>2, <1>3, <1>4, <1>5, <1>6, <1>7, <1>8 DEF Next, vars

\* A record is left as it is by a step that takes pid and level forward, keeps
\* what a proxy was started with, and neither revives a proxy nor ends one.
LEMMA RecordUntouched ==
  ASSUME TypeOK, NativeInv, NEW r \in Record, RecordInv(r), TypeOK',
         pid <= pid', levelBy <= levelBy', UNCHANGED records,
         \A g \in Proxy : g <= started =>
           config'[g] = config[g] /\ (Alive(g) => Alive(g)') /\ (proxy[g] = "dead" => proxy'[g] = "dead")
  PROVE  RecordInv(r)'
<1>. UNCHANGED <<stage, level, dest, under>>
  BY DEF records
<1>1. /\ under[r] \in 0..MaxStart /\ dest[r] \in 0..MaxStart
      /\ pid \in 0..MaxStart /\ levelBy \in 0..MaxStart /\ started \in 0..MaxStart
      /\ pid' \in 0..MaxStart /\ levelBy' \in 0..MaxStart
  BY DEF TypeOK
<1>2. under[r] <= levelBy /\ levelBy <= pid /\ pid <= started /\ dest[r] <= pid
  BY DEF RecordInv, NativeInv
<1>3. under[r] <= started /\ dest[r] <= started /\ under[r] <= levelBy' /\ dest[r] <= pid'
  BY <1>1, <1>2, LoggerAssumption
<1>4. (under[r] # 0 => under[r] \in Proxy) /\ (dest[r] # 0 => dest[r] \in Proxy)
  BY <1>1, LoggerAssumption DEF Proxy
<1>5. under[r] # 0 => config'[under[r]] = config[under[r]]
                      /\ (proxy[under[r]] = "dead" => proxy'[under[r]] = "dead")
  BY <1>3, <1>4
<1>6. dest[r] # 0 /\ Alive(dest[r]) => Alive(dest[r])'
  BY <1>3, <1>4
<1>. QED  BY <1>3, <1>5, <1>6 DEF RecordInv

\* A proxy older than a dead one, or than one that lives, is dead.
LEMMA OlderIsDead ==
  ASSUME TypeOK, OneProxyInv, NEW g \in 0..MaxStart, NEW h \in 0..MaxStart,
         g # 0, g <= h, h <= started, proxy[h] = "dead"
  PROVE  proxy[g] = "dead"
<1>1. g \in Proxy /\ started \in Nat /\ g \in Nat /\ h \in Nat
  BY LoggerAssumption DEF TypeOK, Proxy
<1>2. CASE g = h
  BY <1>2
<1>3. CASE g < started
  BY <1>1, <1>3 DEF OneProxyInv
<1>. QED  BY <1>1, <1>2, <1>3

\* A record is compared, sent and lost as RecordsInv says, whatever else moves.
LEMMA RecordsStep ==
  TypeOK /\ OneProxyInv /\ NativeInv /\ RecordsInv /\ [Next]_vars => RecordsInv'
<1>. SUFFICES ASSUME TypeOK, OneProxyInv, NativeInv, RecordsInv, [Next]_vars, NEW r \in Record
              PROVE  RecordInv(r)'
  BY DEF RecordsInv
<1>. TypeOK'
  BY LoggerTypeStep
<1>0. /\ RecordInv(r)
      /\ under[r] \in 0..MaxStart /\ dest[r] \in 0..MaxStart /\ pid \in 0..MaxStart
      /\ levelBy \in 0..MaxStart /\ started \in 0..MaxStart
      /\ levelBy <= pid /\ pid <= started
  BY DEF RecordsInv, TypeOK, NativeInv
<1>1. CASE StartLink
  <2>1. started' = started + 1 /\ started' \in Proxy /\ UNCHANGED <<pid, levelBy, records>>
    BY <1>1, LoggerAssumption DEF StartLink, native, TypeOK, Proxy
  <2>2. \A g \in Proxy : g <= started => config'[g] = config[g] /\ proxy'[g] = proxy[g]
    BY <1>0, <1>1, <2>1, LoggerAssumption DEF StartLink, TypeOK, Proxy
  <2>3. \A g \in Proxy : g <= started =>
          config'[g] = config[g] /\ (Alive(g) => Alive(g)') /\ (proxy[g] = "dead" => proxy'[g] = "dead")
    BY <2>2 DEF Alive
  <2>4. pid <= pid' /\ levelBy <= levelBy'
    BY <1>0, <2>1
  <2>. QED  BY <1>0, <2>1, <2>3, <2>4, RecordUntouched
<1>2. CASE InitEnvLogger
  BY <1>0, <1>2, RecordUntouched DEF InitEnvLogger, Alive
<1>3. ASSUME NEW g \in Proxy, InstallLogger(g) \/ SetProxyProcess(g) \/ SetMaxLevel(g)
      PROVE  RecordInv(r)'
  <2>1. Alive(g) /\ g = started
    BY <1>3, OnlyLastLives DEF InstallLogger, SetProxyProcess, SetMaxLevel, Alive, Starting
  <2>2. pid <= pid' /\ levelBy <= levelBy' /\ UNCHANGED <<config, records>>
    BY <1>0, <1>3, <2>1 DEF InstallLogger, SetProxyProcess, SetMaxLevel
  <2>3. \A h \in Proxy : (Alive(h) => Alive(h)') /\ (proxy[h] = "dead" => proxy'[h] = "dead")
    BY <1>3 DEF InstallLogger, SetProxyProcess, SetMaxLevel, Alive, Starting, TypeOK
  <2>. QED  BY <1>0, <2>2, <2>3, RecordUntouched
<1>4. ASSUME NEW g \in Proxy, Die(g) PROVE RecordInv(r)'
  <2>1. g = started
    BY <1>4, OnlyLastLives DEF Die, Alive, Starting
  <2>2. /\ proxy' = [proxy EXCEPT ![g] = "dead"]
        /\ UNCHANGED <<pid, levelBy, config, level, dest, under, started>>
        /\ stage'[r] = IF stage[r] = "queued" /\ dest[r] = g THEN "lost" ELSE stage[r]
    BY <1>4 DEF Die, native
  <2>3. stage'[r] = "queued" => Alive(dest[r])'
    BY <1>0, <2>2 DEF RecordInv, Alive, TypeOK
  <2>4. ASSUME stage'[r] = "lost", under[r] # 0 PROVE proxy'[under[r]] = "dead"
    <3>1. under[r] \in Proxy
      BY <1>0, <2>4, LoggerAssumption DEF Proxy
    <3>2. CASE stage[r] = "lost"
      BY <1>0, <2>2, <2>4, <3>1, <3>2 DEF RecordInv, TypeOK
    <3>3. CASE stage[r] = "queued" /\ dest[r] = g
      <4>1. proxy'[g] = "dead"
        BY <2>2 DEF TypeOK
      <4>2. under[r] <= g /\ under[r] <= started /\ g \in Nat
        BY <1>0, <2>1, <3>3 DEF RecordInv
      <4>3. under[r] = g \/ under[r] < started
        BY <1>0, <2>1, <4>2
      <4>4. under[r] < started => proxy[under[r]] = "dead"
        BY <3>1 DEF OneProxyInv
      <4>. QED  BY <2>2, <3>1, <4>1, <4>3, <4>4 DEF TypeOK
    <3>. QED  BY <2>2, <2>4, <3>2, <3>3
  <2>5. stage'[r] # "lost" => stage'[r] = stage[r]
    BY <2>2
  <2>. QED  BY <1>0, <2>2, <2>3, <2>4, <2>5 DEF RecordInv
<1>5. ASSUME NEW q \in Record, q # r, Check(q) \/ Log(q) \/ Send(q) \/ HandleInfo(q)
      PROVE  RecordInv(r)'
  <2>1. UNCHANGED <<native, started, proxy, config>> /\ stage'[r] = stage[r]
        /\ level'[r] = level[r] /\ dest'[r] = dest[r] /\ under'[r] = under[r]
    BY <1>5 DEF Check, Log, Send, HandleInfo, TypeOK
  <2>. QED  BY <1>0, <2>1 DEF RecordInv, native, Alive
<1>6. CASE Check(r)
  <2>1. PICK l \in Levels \ {0} :
          /\ level' = [level EXCEPT ![r] = NifLevel(l)]
          /\ stage' = [stage EXCEPT ![r] = IF l <= maxLevel THEN "checked" ELSE "below"]
    BY <1>6 DEF Check
  <2>2. l \in LevelFilter /\ NifLevel(l) \in LevelFilter /\ NifLevel(l) <= l
    BY LoggerAssumption DEF NifLevel, LevelFilter
  <2>3. /\ stage[r] = "unborn" /\ under' = [under EXCEPT ![r] = levelBy]
        /\ UNCHANGED <<pid, levelBy, started, proxy, config, dest>>
    BY <1>6 DEF Check, native
  <2>4. dest'[r] = 0 /\ under'[r] = levelBy /\ level'[r] = NifLevel(l)
    BY <1>0, <2>1, <2>3 DEF RecordInv, TypeOK
  <2>5. stage'[r] \in {"checked", "below"} /\ (stage'[r] = "checked" => l <= maxLevel)
    BY <2>1 DEF TypeOK
  <2>6. stage'[r] = "checked" /\ levelBy # 0 => NifLevel(l) <= config[levelBy]
    <3>1. levelBy # 0 => maxLevel = config[levelBy] /\ maxLevel \in LevelFilter
      BY DEF NativeInv, TypeOK
    <3>. QED  BY <2>2, <2>5, <3>1 DEF LevelFilter
  <2>. QED  BY <1>0, <2>3, <2>4, <2>5, <2>6 DEF RecordInv
<1>7. CASE Log(r)
  <2>1. stage[r] = "checked" /\ dest[r] = 0
        /\ UNCHANGED <<logger, pid, levelBy, started, proxy, config, level, under>>
    BY <1>0, <1>7 DEF Log, native, RecordInv
  <2>2. dest'[r] = IF logger = "proxy" /\ r \notin Noise THEN pid ELSE 0
    BY <1>7 DEF Log, TypeOK
  <2>3. stage'[r] = IF logger = "env" THEN "printed" ELSE IF r \in Noise THEN "ignored"
                    ELSE IF logger = "proxy" /\ pid # 0 THEN "sending" ELSE "lost"
    BY <1>7 DEF Log, TypeOK
  <2>4. under[r] # 0 => pid # 0 /\ logger # "none"
    BY <1>0 DEF RecordInv, NativeInv
  <2>5. stage'[r] = "lost" => under[r] = 0
    BY <2>3, <2>4 DEF TypeOK
  <2>6. under[r] # 0 => level[r] <= config[under[r]]
    BY <1>0, <2>1 DEF RecordInv
  <2>7. dest'[r] <= pid /\ under[r] <= pid /\ under[r] <= levelBy
    BY <1>0, <2>2 DEF RecordInv
  <2>8. stage'[r] \in {"printed", "ignored", "sending", "lost"}
        /\ (stage'[r] = "sending" => dest'[r] # 0) /\ (dest'[r] # 0 => dest'[r] = pid)
    BY <2>2, <2>3
  <2>. QED  BY <2>1, <2>5, <2>6, <2>7, <2>8 DEF RecordInv
<1>8. CASE Send(r)
  <2>1. stage[r] = "sending" /\ dest[r] # 0 /\ dest[r] <= started /\ under[r] <= dest[r]
        /\ UNCHANGED <<pid, levelBy, started, proxy, config, level, dest, under>>
    BY <1>0, <1>8 DEF Send, native, RecordInv
  <2>2. stage'[r] = IF Alive(dest[r]) THEN "queued" ELSE "lost"
    BY <1>8 DEF Send, TypeOK
  <2>3. ~Alive(dest[r]) => proxy[dest[r]] = "dead"
    <3>1. dest[r] \in Proxy
      BY <1>0, <2>1, LoggerAssumption DEF Proxy
    <3>2. proxy[dest[r]] # "absent"
      BY <1>0, <2>1, <3>1 DEF OneProxyInv
    <3>. QED  BY <3>1, <3>2 DEF TypeOK, Alive
  <2>4. ~Alive(dest[r]) /\ under[r] # 0 => proxy[under[r]] = "dead"
    BY <1>0, <2>1, <2>3, OlderIsDead
  <2>5. Alive(dest[r]) => Alive(dest[r])'
    BY <2>1 DEF Alive
  <2>. QED  BY <1>0, <2>1, <2>2, <2>4, <2>5 DEF RecordInv
<1>9. CASE HandleInfo(r)
  <2>1. stage[r] = "queued" /\ stage'[r] = "handled"
        /\ UNCHANGED <<pid, levelBy, started, proxy, config, level, dest, under>>
    BY <1>9 DEF HandleInfo, native, TypeOK
  <2>. QED  BY <1>0, <2>1 DEF RecordInv
<1>10. CASE UNCHANGED vars
  BY <1>0, <1>10 DEF vars, RecordInv, Alive
<1>. QED
  BY <1>1, <1>2, <1>3, <1>4, <1>5, <1>6, <1>7, <1>8, <1>9, <1>10 DEF Next

\* The inductive invariant holds through every start, death and record.
THEOREM LoggerInvariance == Spec => []IInv
<1>1. Init => IInv
  BY LoggerInit
<1>2. IInv /\ [Next]_vars => IInv'
  BY LoggerTypeStep, OneProxyStep, NativeStep, RecordsStep DEF IInv
<1>. QED  BY <1>1, <1>2, PTL DEF Spec

\* For any number of records and restarts: a record that passed the level of a
\* proxy is lost only when that proxy has died.
THEOREM LossMeansDeath == Spec => []LostOnlyWithItsProxy
<1>1. IInv => LostOnlyWithItsProxy
  BY DEF IInv, RecordsInv, RecordInv, LostOnlyWithItsProxy
<1>. QED  BY <1>1, LoggerInvariance, PTL

\* For any number of records and restarts: only a record compared before a
\* proxy set its level reaches that proxy above the level.
THEOREM LevelsAreKept == Spec => []AboveLevelOnlyEarly
<1>1. IInv => AboveLevelOnlyEarly
  <2>. SUFFICES ASSUME IInv, NEW r \in Record, dest[r] # 0, level[r] > config[dest[r]]
                PROVE  under[r] < dest[r]
    BY DEF AboveLevelOnlyEarly
  <2>1. dest[r] \in Proxy /\ under[r] \in 0..MaxStart
    BY LoggerAssumption DEF IInv, TypeOK, Proxy
  <2>3. level[r] \in Nat /\ config[dest[r]] \in Nat
    BY <2>1 DEF IInv, TypeOK, LevelFilter
  <2>2. under[r] <= dest[r] /\ (dest[r] = under[r] => level[r] <= config[under[r]])
    BY DEF IInv, RecordsInv, RecordInv
  <2>. QED  BY <2>1, <2>2, <2>3, LoggerAssumption DEF Proxy
<1>. QED  BY <1>1, LoggerInvariance, PTL
=============================================================================
