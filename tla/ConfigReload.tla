---------------------------- MODULE ConfigReload ----------------------------
(***************************************************************************)
(* Hot reload of the configuration: the manager of internal/config, whose  *)
(* watcher goroutine polls the file, and the callback main registers, which*)
(* hands a new configuration to the engines one after the other.           *)
(*                                                                         *)
(* The file is changed by someone else, at any moment: written in place    *)
(* (BeginWrite, EndWrite: in between its content is Partial and does not   *)
(* parse), replaced by a file with a modification time of its own          *)
(* (Install), or removed.  The watcher looks at it in separate steps.      *)
(* Time is the clock of the file system, of a coarse grain.                *)
(***************************************************************************)
EXTENDS Filter, FiniteSets

CONSTANTS
    Configs,     \* contents of the file that parse
    Options,     \* command lines: [isDryRun, log]
    Partial,     \* content of a file half written
    Missing,     \* no file
    Hosts,       \* destinations asked about
    MaxClock,    \* bound: clock ticks
    MaxStamps    \* bound: steps that change the file

ASSUME BoundsAssumption == MaxClock \in Nat \ {0} /\ MaxStamps \in Nat

IPRules == [base : Addresses, bits : -1 .. AddrBits]

ASSUME ConfigsAssumption ==
    /\ Configs \subseteq [FilterMode : STRING, DryRun : BOOLEAN,
                         AllowedDomains : SUBSET Seq(Chars), AllowedIPs : SUBSET IPRules,
                         BlockedDomains : SUBSET Seq(Chars), BlockedIPs : SUBSET IPRules]
    /\ Options \subseteq [isDryRun : BOOLEAN, log : BOOLEAN]
    /\ Hosts \subseteq [name : Seq(Chars), ip : Addresses \cup {NoIP}]

(* The callback hands the configuration to the engines in this order.      *)
Engines == <<"filter", "pac", "dns", "dnsServers", "dryRun", "udp", "log">>

VARIABLES
    file,        \* [content, mtime]
    clock,
    currentCfg,  \* the manager's atomic pointer
    lastMod,
    watcher,     \* where the watcher goroutine is
    statMod,     \* modTime returned by the second stat
    loaded,      \* the configuration loadFile parsed
    next,        \* the engine the callback updates next
    rules,       \* the filter engine's atomic pointer
    applied,     \* per engine, the configuration it last took
    taken,       \* ghost: per engine, the reload it took that one from
    dryRun,      \* the redirector's dry-run flag
    opts,        \* the command line
    stopping,    \* stopChan is closed
    stamps,      \* ghost: steps that changed the file
    loads,       \* ghost: reloads
    newest,      \* ghost: latest mtime of the file's earlier versions
    skipped      \* ghost: the last callback panicked

fileVars == <<file, clock, stamps, newest>>
watchVars == <<currentCfg, lastMod, watcher, statMod, loaded, next, loads>>
engineVars == <<rules, applied, taken, dryRun, skipped>>
configVars == <<fileVars, watchVars, engineVars, opts, stopping>>

-----------------------------------------------------------------------------
(* loadFile's defaults, of which the filter mode is the one modelled.      *)
Normalise(c) == [c EXCEPT !.FilterMode = IF @ = "" THEN "whitelist" ELSE @]

(* The lists main takes for a mode: it compares the mode as written, the   *)
(* all-pass modes lower-cased.                                             *)
RulesOf(c) ==
  LET pass  == LowerMode(c.FilterMode) \in AllPassModes
      black == c.FilterMode = "blacklist"
  IN  UpdateRules(c.FilterMode,
                  IF pass THEN {} ELSE IF black THEN c.BlockedDomains ELSE c.AllowedDomains,
                  IF pass THEN {} ELSE IF black THEN c.BlockedIPs ELSE c.AllowedIPs)

ConfigTypeOK ==
  /\ file \in [content : Configs \cup {Partial, Missing}, mtime : 0 .. MaxClock]
  /\ clock \in 1 .. MaxClock /\ stamps \in 0 .. MaxStamps
  /\ newest \in 0 .. MaxClock /\ lastMod \in 0 .. MaxClock /\ statMod \in 0 .. MaxClock
  /\ currentCfg \in {Normalise(c) : c \in Configs} /\ loads \in Nat
  /\ watcher \in {"wait", "stat", "read", "publish", "apply", "stopped"}
  /\ loaded \in {Normalise(c) : c \in Configs}
  /\ next \in DOMAIN Engines
  /\ DOMAIN applied = Range(Engines) /\ taken \in [Range(Engines) -> Nat]
  /\ {dryRun, stopping, skipped} \subseteq BOOLEAN

(* main builds the engines from the first configuration and the command    *)
(* line.                                                                   *)
StartEngines(cfg) ==
  /\ opts \in Options
  /\ rules = RulesOf(cfg)
  /\ applied = [e \in Range(Engines) |-> cfg]
  /\ taken = [e \in Range(Engines) |-> 0]
  /\ dryRun = (opts.isDryRun \/ cfg.DryRun)

(* NewManager loads the file, main starts the engines and the watcher.     *)
ConfigInit ==
  /\ \E c \in Configs :
       /\ file = [content |-> c, mtime |-> 1]
       /\ currentCfg = Normalise(c)
       /\ loaded = currentCfg
       /\ StartEngines(currentCfg)
  /\ clock = 1 /\ lastMod = 1 /\ statMod = 1 /\ newest = 0
  /\ watcher = "wait" /\ next = 1
  /\ stamps = 0 /\ loads = 0
  /\ stopping = FALSE /\ skipped = FALSE

-----------------------------------------------------------------------------
(* The file, changed by an administrator or a tool.                        *)

Later(a, b) == IF a < b THEN b ELSE a

Tick ==
  /\ clock < MaxClock
  /\ clock' = clock + 1
  /\ UNCHANGED <<file, stamps, newest, watchVars, engineVars, opts, stopping>>

Replace(content, mtime) ==
  /\ stamps < MaxStamps
  /\ stamps' = stamps + 1
  /\ file' = [content |-> content, mtime |-> mtime]
  /\ UNCHANGED <<clock, watchVars, engineVars, opts, stopping>>

BeginWrite ==
  /\ file.content # Partial
  /\ Replace(Partial, clock)
  /\ newest' = Later(newest, file.mtime)

\* A version is one write: its two parts do not outdate each other.
EndWrite(c) ==
  /\ file.content = Partial
  /\ Replace(c, clock)
  /\ UNCHANGED newest

Install(c, mtime) ==
  /\ Replace(c, mtime)
  /\ newest' = Later(newest, file.mtime)

RemoveFile ==
  /\ file.content # Missing
  /\ Replace(Missing, 0)
  /\ newest' = Later(newest, file.mtime)

-----------------------------------------------------------------------------
(* The watcher.                                                            *)

KeepWatch == UNCHANGED <<fileVars, engineVars, opts, stopping>>

\* checkAndReload: stat, and compare with the version last loaded.  The
\* select may choose the ticker although stopChan is closed.
Poll ==
  /\ watcher = "wait"
  /\ file.content # Missing
  /\ file.mtime > lastMod
  /\ watcher' = "stat"
  /\ UNCHANGED <<currentCfg, lastMod, statMod, loaded, next, loads>> /\ KeepWatch

\* loadFile stats the file again ...
LoadStat ==
  /\ watcher = "stat"
  /\ IF file.content = Missing
     THEN watcher' = "wait" /\ UNCHANGED statMod
     ELSE watcher' = "read" /\ statMod' = file.mtime
  /\ UNCHANGED <<currentCfg, lastMod, loaded, next, loads>> /\ KeepWatch

\* Mutant: a file that does not parse is not looked at again.
ReadForgets ==
  /\ watcher = "read"
  /\ IF file.content \in {Partial, Missing}
     THEN watcher' = "wait" /\ lastMod' = statMod /\ UNCHANGED <<statMod, loaded>>
     ELSE watcher' = "publish" /\ loaded' = Normalise(file.content) /\ UNCHANGED <<lastMod, statMod>>
  /\ UNCHANGED <<currentCfg, next, loads>> /\ KeepWatch

\* ... and then reads and parses it.  An error leaves lastMod as it was.
LoadRead ==
  /\ watcher = "read"
  /\ IF file.content \in {Partial, Missing}
     THEN watcher' = "wait" /\ statMod' = lastMod /\ UNCHANGED loaded
     ELSE watcher' = "publish" /\ loaded' = Normalise(file.content) /\ UNCHANGED statMod
  /\ UNCHANGED <<currentCfg, lastMod, next, loads>> /\ KeepWatch

\* The new configuration is visible to Get before any engine has it.
Publish ==
  /\ watcher = "publish"
  /\ watcher' = "apply"
  /\ currentCfg' = loaded
  /\ lastMod' = statMod
  /\ loads' = loads + 1
  /\ next' = 1
  /\ skipped' = FALSE
  /\ UNCHANGED <<statMod, loaded, fileVars, rules, applied, taken, dryRun, opts, stopping>>

\* Mutant: the last engine is left out.
AdvanceShort ==
  IF next + 1 = Len(Engines)
  THEN watcher' = "wait" /\ next' = 1
  ELSE watcher' = "apply" /\ next' = next + 1

Advance ==
  IF next = Len(Engines)
  THEN watcher' = "wait" /\ next' = 1
  ELSE watcher' = "apply" /\ next' = next + 1

\* One engine of the callback.  The log file follows the configuration
\* unless the command line names one; the dry-run flag follows it always.
Apply ==
  /\ watcher = "apply"
  /\ LET e == Engines[next]
     IN  /\ IF e = "log" /\ opts.log
            THEN UNCHANGED <<applied, taken>>
            ELSE /\ applied' = [applied EXCEPT ![e] = loaded]
                 /\ taken' = [taken EXCEPT ![e] = loads]
         /\ rules' = IF e = "filter" THEN RulesOf(loaded) ELSE rules
         /\ dryRun' = IF e = "dryRun" THEN loaded.DryRun ELSE dryRun
  /\ Advance
  /\ UNCHANGED <<currentCfg, lastMod, statMod, loaded, loads, fileVars, opts, stopping, skipped>>

\* The manager recovers a panic of the callback: the engines that are left
\* keep the configuration they have.
CallbackPanics ==
  /\ watcher = "apply"
  /\ watcher' = "wait"
  /\ next' = 1
  /\ skipped' = TRUE
  /\ UNCHANGED <<currentCfg, lastMod, statMod, loaded, loads, fileVars, rules, applied,
                 taken, dryRun, opts, stopping>>

Stop ==
  /\ ~stopping
  /\ stopping' = TRUE
  /\ UNCHANGED <<fileVars, watchVars, engineVars, opts>>

WatcherStops ==
  /\ watcher = "wait"
  /\ stopping
  /\ watcher' = "stopped"
  /\ UNCHANGED <<currentCfg, lastMod, statMod, loaded, next, loads>> /\ KeepWatch

-----------------------------------------------------------------------------
Watch == Poll \/ LoadStat \/ LoadRead \/ Publish \/ Apply \/ WatcherStops

ConfigNext ==
  \/ Tick
  \/ BeginWrite
  \/ \E c \in Configs : EndWrite(c)
  \/ \E c \in Configs, t \in 1 .. clock : Install(c, t)
  \/ RemoveFile
  \/ Watch
  \/ CallbackPanics
  \/ Stop

ConfigSpec == ConfigInit /\ [][ConfigNext]_configVars

(* The ticker keeps firing and the watcher's own steps do not block; a     *)
(* select with two channels ready takes each of them again and again.      *)
ConfigFairSpec == ConfigSpec /\ WF_configVars(Watch) /\ SF_configVars(WatcherStops)

-----------------------------------------------------------------------------
(* A destination is meant to be blocked when the mode of the configuration *)
(* and the list of that mode say so.                                       *)
Listed(domains, ips, host) ==
  IF host.ip # NoIP
  THEN \E r \in ips : CoversIP(r, host.ip)
  ELSE LET name == ToLower(TrimDot(SplitHostPort(host.name)))
       IN  \E d \in domains : CoversName(ToLower(d), name)

Intended(c, host) ==
  LET mode == LowerMode(c.FilterMode)
  IN  \/ host.ip = NoIP /\ host.name = <<>>
      \/ mode = "blacklist" /\ Listed(c.BlockedDomains, c.BlockedIPs, host)
      \/ mode \notin AllPassModes \cup {"blacklist"}
           /\ ~Listed(c.AllowedDomains, c.AllowedIPs, host)

IntendedTable == [c \in {Normalise(d) : d \in Configs} |-> [h \in Hosts |-> Intended(c, h)]]

Settled == watcher \in {"wait", "stopped"} /\ ~skipped

\* For the patterns of the configurations, and for every short one,
\* matchWildcard, which backtracks from star to star and collapses runs of
\* them, decides exactly whether the text can be cut to fit the pattern.
WildcardIsExact ==
  \A p \in Patterns, s \in Texts : matchWildcard(p, s) <=> WildcardSpec(p, s)

\* Between reloads the filter blocks exactly the destinations the mode and
\* the list of the configuration in force name: suffixes, wildcards, CIDRs
\* and the case of letters included.  The exception is a blacklist mode not
\* written in lower case: main does not recognise it and hands over the
\* allowed lists, while UpdateRules lower-cases it and blocks them.
PolicyFollowsConfig ==
  /\ WildcardIsExact
  /\ Settled /\ ~(LowerMode(currentCfg.FilterMode) = "blacklist"
                  /\ currentCfg.FilterMode # "blacklist")
       => \A h \in Hosts : ShouldBlock(rules, h) = IntendedTable[currentCfg][h]

\* The engines whose settings are said to follow the file: not the dry-run
\* flag, which README.md:263 and :289 leave to a restart, and the callback
\* overwrites all the same.
Followers == Range(Engines) \ {"dryRun"}

\* Between reloads no engine whose settings are hot-reloaded holds another
\* configuration than the manager hands out, whatever happened to the file
\* while it was being read; the log file stays if the command line names one.
\* And where the callback panicked, now or ever before, the engines it serves
\* first are never behind those it serves later: names are not looked up by the
\* DNS settings of a file whose filter rules are not yet, or not any more, in
\* force.
EnginesAgree ==
  /\ ConfigTypeOK
  /\ Settled => \A e \in Followers : applied[e] = currentCfg \/ (e = "log" /\ opts.log)
  /\ \A i, j \in DOMAIN Engines :
        i < j /\ {Engines[i], Engines[j]} \subseteq Followers
          => taken[Engines[j]] <= taken[Engines[i]]

\* Every load answers a change of the file of its own.
LoadsAreBounded == loads <= stamps

\* Whatever the order of writes, polls and reads, the last version of the
\* file takes effect in every engine, a half-written one never does, and a
\* stopped watcher stops.  The exceptions are a version no younger than an
\* earlier one (the modification time is all the watcher compares), one that
\* does not parse, and a callback that panicked.  Nor does the watcher load
\* more often than the file changes: an older or broken file starts no loop.
FileTakesEffect ==
  /\ []LoadsAreBounded
  /\ <>[](\/ stopping /\ watcher = "stopped"
          \/ /\ ~stopping
             /\ (file.content \in Configs /\ file.mtime > newest)
                  => /\ currentCfg = Normalise(file.content)
                     /\ Settled \/ skipped)
=============================================================================
