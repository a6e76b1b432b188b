---------------------------- MODULE LinuxGateway ----------------------------
(***************************************************************************)
(* The life of the gateway process on Linux: main (cmd/tproxy/main.go),    *)
(* the iptables redirector (internal/interceptor/redirector_linux.go) and  *)
(* the reload callback that runs beside them.                              *)
(*                                                                         *)
(* The kernel's nat tables outlive the process.  They are changed by one   *)
(* iptables command at a time: a command may fail, and the process may die *)
(* between two of them.  An entry of a table is a chain, a rule of one of  *)
(* the two chains, or a hook, a rule that jumps to one of them.            *)
(***************************************************************************)
EXTENDS Naturals, Sequences

CONSTANTS
    DnsChoices,   \* possible dns_servers: the address families of the servers
    MaxFailures,  \* bound: iptables commands that fail for no reason of ours
    MaxCrashes,   \* bound: processes that die without cleaning up
    MaxReloads    \* bound: configuration reloads

Families == {"v4", "v6"}

ASSUME GatewayAssumption ==
    /\ DnsChoices \subseteq SUBSET Families
    /\ MaxFailures \in Nat /\ MaxCrashes \in Nat /\ MaxReloads \in Nat

VARIABLES
    nat,           \* how often each entry is in the table of each family
    main,          \* where main is
    exit,          \* how the last process ended
    isDryRun,      \* main's isDryRun: command line or initial configuration
    listener,      \* the proxy's TCP listener is open
    early,         \* ghost: a reload ended a dry run before Start
    dryRun,        \* Redirector.dryRun
    dnsServers,    \* Redirector.dnsServers
    dnsUDPConn,    \* the DNS listeners that are open
    rulesApplied,  \* Redirector.rulesApplied
    closed,        \* Redirector.closed
    mu,            \* Redirector.mu: its holder
    cmds,          \* the iptables commands the holder has yet to run
    reloader,      \* where the reload callback is
    newCfg,        \* the configuration it applies
    reloads, failures, crashes,
    inherited      \* the tables may hold rules of a process that died

gatewayVars == <<nat, main, exit, isDryRun, listener, early, dryRun, dnsServers, dnsUDPConn,
          rulesApplied, closed, mu, cmds, reloader, newCfg, reloads, failures, crashes,
          inherited>>

process == <<isDryRun, listener, early>>
redirector == <<dryRun, dnsServers, dnsUDPConn, rulesApplied, closed>>
callback == <<reloader, newCfg, reloads>>
faults == <<failures, crashes>>

-----------------------------------------------------------------------------
(* The nat tables.                                                         *)

Chains == {"RULES", "PRE"}

\* The rules of each chain; "owner" replaces "mark" where it cannot be added.
Contents(c) ==
    IF c = "RULES" THEN {"mark", "owner", "loopback", "bypass", "dns", "tcp"}
                   ELSE {"preRedirect"}

\* The hooks in OUTPUT and PREROUTING that jump to each chain.
HooksOf(c) == IF c = "RULES" THEN {"outTcp", "outDns", "preTcp"} ELSE {"preDns"}

Entries == Chains \cup UNION {Contents(c) \cup HooksOf(c) : c \in Chains}

ChainOf(e) == CHOOSE c \in Chains : e \in Contents(c) \cup HooksOf(c)

Empty == [e \in Entries |-> 0]

\* What the kernel refuses.
Refused(t, op, e) ==
    CASE op = "N" -> t[e] > 0
      [] op = "A" -> t[ChainOf(e)] = 0
      [] op = "D" -> t[e] = 0
      [] op = "F" -> t[e] = 0
      [] op = "X" -> t[e] = 0 \/ \E x \in Contents(e) \cup HooksOf(e) : t[x] > 0

\* What a command does that is not refused.
Effect(t, op, e) ==
    CASE op \in {"N", "A"} -> [t EXCEPT ![e] = @ + 1]
      [] op \in {"D", "X"} -> [t EXCEPT ![e] = @ - 1]
      [] op = "F" -> [x \in Entries |-> IF x \in Contents(e) THEN 0 ELSE t[x]]

\* New TCP connections, and DNS queries, of this host are sent to the gateway.
TcpRedirected(f) == nat[f]["outTcp"] > 0 /\ nat[f]["tcp"] > 0
DnsRedirected(f) == nat[f]["outDns"] > 0 /\ nat[f]["dns"] > 0
PreRedirected(f) ==
    \/ nat[f]["preTcp"] > 0 /\ nat[f]["tcp"] > 0
    \/ nat[f]["preDns"] > 0 /\ nat[f]["preRedirect"] > 0

Unredirected ==
    \A f \in Families : ~TcpRedirected(f) /\ ~DnsRedirected(f) /\ ~PreRedirected(f)

-----------------------------------------------------------------------------
(* The scripts.  onError says what the Go code does when a command fails.  *)

Cmd(f, op, e, onError) == [fam |-> f, op |-> op, at |-> e, onError |-> onError]

\* Mutant: the chains are flushed while they are still hooked in.
FlushLast(f) ==
    << Cmd(f, "D", "outDns", "ignore"), Cmd(f, "D", "preTcp", "ignore"),
       Cmd(f, "F", "RULES", "ignore"), Cmd(f, "X", "RULES", "ignore"),
       Cmd(f, "D", "outTcp", "ignore"), Cmd(f, "D", "preDns", "ignore"),
       Cmd(f, "F", "PRE", "ignore"), Cmd(f, "X", "PRE", "ignore") >>

\* Unlink, then flush and delete.
RemoveFamily(f) ==
    << Cmd(f, "D", "outTcp", "ignore"), Cmd(f, "D", "outDns", "ignore"),
       Cmd(f, "D", "preTcp", "ignore"), Cmd(f, "D", "preDns", "ignore"),
       Cmd(f, "F", "RULES", "ignore"), Cmd(f, "X", "RULES", "ignore"),
       Cmd(f, "F", "PRE", "ignore"), Cmd(f, "X", "PRE", "ignore") >>

removeIPTablesRules == RemoveFamily("v4") \o RemoveFamily("v6")

\* Without custom servers UDP port 53 goes to the local DNS listeners.
DnsRules(f, servers) ==
    IF servers = {} THEN <<Cmd(f, "A", "dns", "ignore")>>
    ELSE IF f \in servers THEN <<Cmd(f, "A", "bypass", "ignore")>>
    ELSE <<>>

DnsHooks(f, servers) ==
    IF servers # {} THEN <<>>
    ELSE << Cmd(f, "A", "outDns", "ignore"), Cmd(f, "A", "preRedirect", "ignore"),
            Cmd(f, "A", "preDns", "ignore") >>

\* Mutant: the chain is hooked in before its rules are complete.
HookFirst(f, servers) ==
    LET needed == IF f = "v4" THEN "abort" ELSE "ignore"
    IN  << Cmd(f, "N", "RULES", IF f = "v4" THEN "abort" ELSE "skip"),
           Cmd(f, "N", "PRE", "ignore"),
           Cmd(f, "A", "tcp", needed), Cmd(f, "A", "outTcp", needed),
           Cmd(f, "A", "preTcp", "ignore"),
           Cmd(f, "A", "mark", "owner"),
           Cmd(f, "A", "loopback", "ignore") >>
        \o DnsRules(f, servers) \o DnsHooks(f, servers)

\* IPv4 is indispensable; IPv6 is left out where its chain cannot be created.
ApplyFamily(f, servers) ==
    LET needed == IF f = "v4" THEN "abort" ELSE "ignore"
    IN  << Cmd(f, "N", "RULES", IF f = "v4" THEN "abort" ELSE "skip"),
           Cmd(f, "N", "PRE", "ignore"),
           Cmd(f, "A", "mark", "owner"),
           Cmd(f, "A", "loopback", "ignore") >>
        \o DnsRules(f, servers)
        \o << Cmd(f, "A", "tcp", needed), Cmd(f, "A", "outTcp", needed),
              Cmd(f, "A", "preTcp", "ignore") >>
        \o DnsHooks(f, servers)

applyIPTablesRules(servers) ==
    removeIPTablesRules \o ApplyFamily("v4", servers) \o ApplyFamily("v6", servers)

\* What the tables hold when every command of the script has succeeded.
Wanted(f, servers) ==
    [e \in Entries |->
        IF \/ e \in Chains \cup {"mark", "loopback", "tcp", "outTcp", "preTcp"}
           \/ servers = {} /\ e \in {"dns", "outDns", "preRedirect", "preDns"}
           \/ f \in servers /\ e = "bypass"
        THEN 1 ELSE 0]

-----------------------------------------------------------------------------

MainStates == {"down", "loaded", "applying", "started", "running", "closing",
               "removing", "closed", "drained", "cleaning"}

Up == main \notin {"down", "cleaning"}

Config == [dns: DnsChoices, dry: BOOLEAN]

GatewayTypeOK ==
    /\ nat \in [Families -> [Entries -> Nat]]
    /\ main \in MainStates
    /\ exit \in {"none", "graceful", "fatal", "interrupted", "killed", "cleaned"}
    /\ isDryRun \in BOOLEAN /\ listener \in BOOLEAN /\ early \in BOOLEAN /\ dryRun \in BOOLEAN
    /\ rulesApplied \in BOOLEAN /\ closed \in BOOLEAN /\ inherited \in BOOLEAN
    /\ dnsServers \in DnsChoices
    /\ dnsUDPConn \in BOOLEAN
    /\ mu \in {"free", "main", "reload", "cleanup"}
    /\ (mu = "free") = (cmds = <<>> /\ main \notin {"applying", "removing", "cleaning"}
                                    /\ reloader # "applying")
    /\ reloader \in {"idle", "dns", "applying", "dry"}
    /\ newCfg \in Config
    /\ reloads \in 0..MaxReloads
    /\ failures \in 0..MaxFailures
    /\ crashes \in 0..MaxCrashes

GatewayInit ==
    /\ nat = [f \in Families |-> Empty]
    /\ main = "down"
    /\ exit = "none"
    /\ isDryRun = FALSE /\ listener = FALSE /\ early = FALSE /\ dryRun = FALSE
    /\ rulesApplied = FALSE /\ closed = FALSE /\ inherited = FALSE
    /\ dnsServers \in DnsChoices
    /\ dnsUDPConn = FALSE
    /\ mu = "free"
    /\ cmds = <<>>
    /\ reloader = "idle"
    /\ newCfg = [dns |-> dnsServers, dry |-> FALSE]
    /\ reloads = 0 /\ failures = 0 /\ crashes = 0

-----------------------------------------------------------------------------
(* One iptables command at a time.                                         *)

Fails(c) ==
    \/ Refused(nat[c.fam], c.op, c.at) /\ UNCHANGED failures
    \/ failures < MaxFailures /\ failures' = failures + 1

\* What remains to be run after a command failed.
AfterFailure(c) ==
    CASE c.onError = "ignore" -> Tail(cmds)
      [] c.onError = "owner" -> <<Cmd(c.fam, "A", "owner", "ignore")>> \o Tail(cmds)
      [] c.onError = "skip" -> <<>>

\* Once the removal that precedes them is over, the first command of the new
\* rules finds nothing of an earlier process.
execCmd ==
    /\ cmds # <<>>
    /\ LET c == Head(cmds)
       IN  /\ \/ /\ ~Refused(nat[c.fam], c.op, c.at)
                 /\ nat' = [nat EXCEPT ![c.fam] = Effect(@, c.op, c.at)]
                 /\ cmds' = Tail(cmds)
                 /\ UNCHANGED failures
              \/ /\ c.onError # "abort"
                 /\ Fails(c)
                 /\ cmds' = AfterFailure(c)
                 /\ UNCHANGED nat
           /\ inherited' = (inherited /\ c.op \notin {"N", "A"})
    /\ UNCHANGED <<main, exit, process, redirector, mu, callback, crashes>>

\* The process is gone: the kernel closes its sockets, the rules stay.
ProcessEnds(how) ==
    /\ main' = "down"
    /\ exit' = how
    /\ isDryRun' = FALSE /\ listener' = FALSE /\ early' = FALSE
    /\ dryRun' = FALSE /\ dnsUDPConn' = FALSE /\ rulesApplied' = FALSE /\ closed' = FALSE
    /\ mu' = "free"
    /\ cmds' = <<>>
    /\ reloader' = "idle"
    /\ UNCHANGED <<dnsServers, newCfg, reloads>>

\* applyIPTablesRules returns an error: Start fails and main exits, a reload
\* logs a warning and goes on.
applyFails ==
    /\ cmds # <<>> /\ Head(cmds).onError = "abort"
    /\ Fails(Head(cmds))
    /\ inherited' = FALSE
    /\ \/ mu = "main" /\ ProcessEnds("fatal")
       \/ /\ mu = "reload"
          /\ mu' = "free"
          /\ cmds' = <<>>
          /\ reloader' = "dry"
          /\ UNCHANGED <<main, exit, process, redirector, newCfg, reloads>>
    /\ UNCHANGED <<nat, crashes>>

-----------------------------------------------------------------------------
(* main.                                                                   *)

\* Everything up to StartAutoReload; a dry run has no listener.
Launch ==
    /\ main = "down"
    /\ \E cfg \in Config, cli \in BOOLEAN :
         LET dry == cli \/ cfg.dry
         IN  \/ /\ main' = "loaded"
                /\ exit' = "none"
                /\ isDryRun' = dry /\ dryRun' = dry
                /\ listener' = ~dry /\ early' = FALSE
                /\ dnsServers' = cfg.dns
             \/ /\ ~dry            \* AcquireListener finds no port
                /\ exit' = "fatal"
                /\ UNCHANGED <<main, process, dryRun, dnsServers>>
    /\ UNCHANGED <<nat, dnsUDPConn, rulesApplied, closed, mu, cmds, callback, faults,
                   inherited>>

\* Redirector.Start up to applyIPTablesRules.
Start ==
    /\ main = "loaded" /\ mu = "free"
    /\ \/ /\ dryRun
          /\ main' = "started"
          /\ UNCHANGED <<exit, process, redirector, mu, cmds, callback>>
       \/ /\ ~dryRun
          /\ main' = "applying"
          /\ dnsUDPConn' = (dnsServers = {})
          /\ mu' = "main"
          /\ cmds' = applyIPTablesRules(dnsServers)
          /\ UNCHANGED <<exit, process, dryRun, dnsServers, rulesApplied, closed, callback>>
       \/ /\ ~dryRun /\ dnsServers = {}    \* a DNS port is taken
          /\ ProcessEnds("fatal")
    /\ UNCHANGED <<nat, faults, inherited>>

Started ==
    /\ main = "applying" /\ cmds = <<>>
    /\ main' = "started"
    /\ rulesApplied' = TRUE
    /\ mu' = "free"
    /\ UNCHANGED <<nat, exit, process, dryRun, dnsServers, dnsUDPConn, closed, cmds,
                   callback, faults, inherited>>

\* PortGuard is started and signal.Notify called.
Notify ==
    /\ main = "started"
    /\ main' = "running"
    /\ UNCHANGED <<nat, exit, process, redirector, mu, cmds, callback, faults, inherited>>

\* An interrupt main waits for.
Signal ==
    /\ main = "running"
    /\ main' = "closing"
    /\ UNCHANGED <<nat, exit, process, redirector, mu, cmds, callback, faults, inherited>>

\* The process is killed at any time, or interrupted before signal.Notify.
Die ==
    /\ Up
    /\ crashes < MaxCrashes
    /\ crashes' = crashes + 1
    /\ \/ ProcessEnds("killed")
       \/ main \in {"loaded", "applying", "started"} /\ ProcessEnds("interrupted")
    /\ inherited' = (inherited \/ \E f \in Families : nat[f] # Empty)
    /\ UNCHANGED <<nat, failures>>

\* Mutant: Close forgets the rules.
CloseKeepsRules ==
    /\ main = "closing" /\ mu = "free"
    /\ closed' = TRUE
    /\ dnsUDPConn' = FALSE
    /\ main' = "closed"
    /\ UNCHANGED <<nat, exit, process, dryRun, dnsServers, rulesApplied, mu, cmds,
                   callback, faults, inherited>>

\* Redirector.Close.
Close ==
    /\ main = "closing" /\ mu = "free"
    /\ closed' = TRUE
    /\ dnsUDPConn' = FALSE
    /\ IF rulesApplied
       THEN main' = "removing" /\ mu' = "main" /\ cmds' = removeIPTablesRules
       ELSE main' = "closed" /\ UNCHANGED <<mu, cmds>>
    /\ UNCHANGED <<nat, exit, process, dryRun, dnsServers, rulesApplied, callback, faults,
                   inherited>>

\* Mutant: Close is repeated for as long as rulesApplied is set, and nothing
\* resets it.
RemovedIsRepeated ==
    /\ main = "removing" /\ cmds = <<>>
    /\ main' = "closing"
    /\ inherited' = FALSE
    /\ mu' = "free"
    /\ UNCHANGED <<nat, exit, process, redirector, cmds, callback, faults>>

Removed ==
    /\ main = "removing" /\ cmds = <<>>
    /\ main' = "closed"
    /\ rulesApplied' = FALSE
    /\ inherited' = FALSE
    /\ mu' = "free"
    /\ UNCHANGED <<nat, exit, process, dryRun, dnsServers, dnsUDPConn, closed, cmds,
                   callback, faults>>

\* Server.Close, which waits three seconds at most for the connections.
ServerClose ==
    /\ main = "closed"
    /\ main' = "drained"
    /\ listener' = FALSE
    /\ UNCHANGED <<nat, exit, isDryRun, early, redirector, mu, cmds, callback, faults, inherited>>

Exit ==
    /\ main = "drained"
    /\ ProcessEnds("graceful")
    /\ UNCHANGED <<nat, faults, inherited>>

\* tproxy -cleanup.
CleanupIPTables ==
    \/ /\ main = "down"
       /\ main' = "cleaning"
       /\ mu' = "cleanup"
       /\ cmds' = removeIPTablesRules
       /\ UNCHANGED <<nat, exit, process, redirector, callback, faults, inherited>>
    \/ /\ main = "cleaning" /\ cmds = <<>>
       /\ main' = "down"
       /\ exit' = "cleaned"
       /\ mu' = "free"
       /\ inherited' = FALSE
       /\ UNCHANGED <<nat, process, redirector, cmds, callback, faults>>

-----------------------------------------------------------------------------
(* The reload callback.                                                    *)

\* A changed configuration file; the filter, PAC and DNS engines follow it.
Reload ==
    /\ Up /\ reloader = "idle"
    /\ reloads < MaxReloads
    /\ reloads' = reloads + 1
    /\ newCfg' \in Config
    /\ reloader' = "dns"
    /\ UNCHANGED <<nat, main, exit, process, redirector, mu, cmds, faults, inherited>>

\* Mutant: the rules are applied whatever the redirector's state.
AlwaysApply ==
    /\ reloader = "dns" /\ mu = "free"
    /\ dnsServers' = newCfg.dns
    /\ reloader' = "applying" /\ mu' = "reload"
    /\ cmds' = applyIPTablesRules(newCfg.dns)
    /\ UNCHANGED <<nat, main, exit, process, dryRun, dnsUDPConn, rulesApplied, closed,
                   newCfg, reloads, faults, inherited>>

SetDNSServers ==
    /\ reloader = "dns" /\ mu = "free"
    /\ dnsServers' = newCfg.dns
    /\ IF rulesApplied /\ ~closed
       THEN /\ reloader' = "applying" /\ mu' = "reload"
            /\ cmds' = applyIPTablesRules(newCfg.dns)
       ELSE reloader' = "dry" /\ UNCHANGED <<mu, cmds>>
    /\ UNCHANGED <<nat, main, exit, process, dryRun, dnsUDPConn, rulesApplied, closed,
                   newCfg, reloads, faults, inherited>>

Reapplied ==
    /\ reloader = "applying" /\ cmds = <<>>
    /\ reloader' = "dry"
    /\ mu' = "free"
    /\ UNCHANGED <<nat, main, exit, process, redirector, cmds, newCfg, reloads, faults,
                   inherited>>

SetDryRun ==
    /\ reloader = "dry" /\ mu = "free"
    /\ dryRun' = newCfg.dry
    /\ early' = IF main = "loaded" THEN isDryRun /\ ~newCfg.dry ELSE early
    /\ reloader' = "idle"
    /\ UNCHANGED <<nat, main, exit, isDryRun, listener, dnsServers, dnsUDPConn, rulesApplied, closed,
                   mu, cmds, newCfg, reloads, faults, inherited>>

-----------------------------------------------------------------------------

MainStep ==
    Start \/ Started \/ Notify \/ Close \/ Removed \/ ServerClose \/ Exit

ReloadStep == SetDNSServers \/ Reapplied \/ SetDryRun

GatewayNext ==
    \/ Launch \/ Signal \/ Die \/ CleanupIPTables \/ MainStep
    \/ Reload \/ ReloadStep
    \/ execCmd \/ applyFails

GatewaySpec == GatewayInit /\ [][GatewayNext]_gatewayVars

\* Both goroutines are scheduled, every iptables command ends, and main gets the
\* mutex in its turn (Go's mutexes do not starve).
GatewayFairSpec ==
    /\ GatewaySpec
    /\ WF_gatewayVars(execCmd \/ applyFails)
    /\ SF_gatewayVars(MainStep)
    /\ WF_gatewayVars(ReloadStep)

-----------------------------------------------------------------------------
(* Properties.                                                             *)

\* README, "iptables rules are cleaned up automatically": a process that shuts
\* down, or gives up at its start, leaves no packet redirected to a port that
\* nobody serves, even if one iptables command failed; so does -cleanup.
\* Rules of a process that died stay until someone removes them.
ExitRestoresNetwork ==
    exit \in {"graceful", "fatal", "cleaned"} /\ ~inherited /\ failures <= 1
        => Unredirected

\* Where no command fails, the tables hold exactly the rules for the current
\* servers whenever nobody is changing them: after a start over the remains of
\* a process that died, and after any reload.
RulesMatchConfig ==
    /\ GatewayTypeOK
    /\ main \in {"started", "running"} /\ mu = "free" /\ rulesApplied /\ failures = 0
         => \A f \in Families : nat[f] = Wanted(f, dnsServers)

\* README on SO_MARK, "prevents self loops": at no moment, half-applied rules
\* and one failed command included, is the gateway's own traffic redirected.
NoSelfLoop ==
    failures <= 1 =>
        \A f \in Families : TcpRedirected(f) => nat[f]["mark"] + nat[f]["owner"] > 0

\* Traffic is redirected only to ports somebody serves.  For TCP the rules come
\* after the listener and go before it, and a dry run has neither; except where
\* the reload callback ends a dry run before main has called Start, which then
\* puts up rules for a listener that was never opened.  For DNS (README:263,
\* changed server settings take effect while running) this holds of the servers
\* the process started with: a reload that empties dns_servers redirects to a
\* port on which nothing listens, for Start alone opens it.
RedirectIsServed ==
    /\ Up /\ ~inherited /\ ~early /\ ~listener /\ failures <= 1
         => \A f \in Families : ~TcpRedirected(f)
    /\ Up /\ ~inherited /\ failures = 0 /\ reloads = 0 /\ ~dnsUDPConn /\ mu = "free"
         => \A f \in Families : ~DnsRedirected(f)

\* A shutdown ends, whatever reload is changing the rules at the time.
ShutdownEnds == main = "closing" ~> main = "down"

=============================================================================
