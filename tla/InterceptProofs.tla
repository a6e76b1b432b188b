-------------------------- MODULE InterceptProofs --------------------------
(***************************************************************************)
(* Theorems about the interception of traffic.                             *)
(*                                                                         *)
(* The life of the gateway on Linux (LinuxGateway), for any number of      *)
(* deaths, reloads and failed commands: the tables never send the gateway's*)
(* own packets back to it, follow the configuration, and are clean after an*)
(* orderly end.                                                            *)
(*                                                                         *)
(* The NAT session table on Windows (NatSessions), for any set of          *)
(* connections, endpoints and destinations and any bounds.                 *)
(***************************************************************************)
EXTENDS NatSessions, LinuxGateway, SequenceTheorems, TLAPS


-----------------------------------------------------------------------------
(* The iptables commands by their rank among those of a family: removal is *)
(* 1 .. 8, what is added 9 .. 20.  A command that adds a rule for DNS      *)
(* depends on the servers.                                                 *)
Command(f, servers, r) ==
    CASE r = 1 -> Cmd(f, "D", "outTcp", "ignore")
      [] r = 2 -> Cmd(f, "D", "outDns", "ignore")
      [] r = 3 -> Cmd(f, "D", "preTcp", "ignore")
      [] r = 4 -> Cmd(f, "D", "preDns", "ignore")
      [] r = 5 -> Cmd(f, "F", "RULES", "ignore")
      [] r = 6 -> Cmd(f, "X", "RULES", "ignore")
      [] r = 7 -> Cmd(f, "F", "PRE", "ignore")
      [] r = 8 -> Cmd(f, "X", "PRE", "ignore")
      [] r = 9 -> Cmd(f, "N", "RULES", IF f = "v4" THEN "abort" ELSE "skip")
      [] r = 10 -> Cmd(f, "N", "PRE", "ignore")
      [] r = 11 -> Cmd(f, "A", "mark", "owner")
      [] r = 12 -> Cmd(f, "A", "owner", "ignore")
      [] r = 13 -> Cmd(f, "A", "loopback", "ignore")
      [] r = 14 -> Cmd(f, "A", IF servers = {} THEN "dns" ELSE "bypass", "ignore")
      [] r = 15 -> Cmd(f, "A", "tcp", IF f = "v4" THEN "abort" ELSE "ignore")
      [] r = 16 -> Cmd(f, "A", "outTcp", IF f = "v4" THEN "abort" ELSE "ignore")
      [] r = 17 -> Cmd(f, "A", "preTcp", "ignore")
      [] r = 18 -> Cmd(f, "A", "outDns", "ignore")
      [] r = 19 -> Cmd(f, "A", "preRedirect", "ignore")
      [] r = 20 -> Cmd(f, "A", "preDns", "ignore")

\* The rank of the command that follows one of the same family; 21 is none.
NextRank(mode, f, servers, r) ==
    CASE r = 8 -> IF mode = "apply" THEN 9 ELSE 21
      [] r = 11 -> 13
      [] r = 13 -> IF servers = {} \/ f \in servers THEN 14 ELSE 15
      [] r = 17 -> IF servers = {} THEN 18 ELSE 21
      [] OTHER -> r + 1

\* Positions in a script: removal for IPv4 is 1 .. 8, for IPv6 9 .. 16, what is
\* added for IPv4 17 .. 28, for IPv6 29 .. 40; 41 is the end.
FamOf(g) == IF g <= 8 \/ g \in 17 .. 28 THEN "v4" ELSE "v6"
RankOf(g) == IF g <= 8 THEN g ELSE IF g <= 28 THEN g - 8 ELSE g - 20
NextPos(mode, servers, g) ==
    LET r == NextRank(mode, FamOf(g), servers, RankOf(g))
    IN  IF g <= 8 THEN g + 1
        ELSE IF g <= 16 THEN (IF g = 16 /\ mode # "apply" THEN 41 ELSE g + 1)
        ELSE IF g <= 28 THEN (IF r = 21 THEN 29 ELSE r + 8)
        ELSE r + 20

\* The rank of the next command of a family when the script is at position g.
At(mode, f, g) ==
    IF f = "v4"
    THEN IF g <= 8 THEN g
         ELSE IF g <= 16 THEN (IF mode = "apply" THEN 9 ELSE 21)
         ELSE IF g <= 28 THEN g - 8 ELSE 21
    ELSE IF g <= 8 THEN 1
         ELSE IF g <= 16 THEN g - 8
         ELSE IF g <= 28 THEN 9 ELSE g - 20

\* A sequence of commands goes from position a to position b.
Path(mode, servers, s, a, b) ==
    \E pos \in [1 .. Len(s) + 1 -> 1 .. 41] :
        /\ pos[1] = a /\ pos[Len(s) + 1] = b
        /\ \A i \in 1 .. Len(s) :
             /\ pos[i] <= 40
             /\ s[i] = Command(FamOf(pos[i]), servers, RankOf(pos[i]))
             /\ pos[i + 1] = NextPos(mode, servers, pos[i])

-----------------------------------------------------------------------------
(* What the table t of a family holds.                                      *)

\* Always, whatever the commands: what the kernel sees to.
KernelOK(t) ==
    /\ t \in [Entries -> Nat]
    /\ t["RULES"] <= 1 /\ t["PRE"] <= 1
    /\ t["RULES"] = 0 => /\ t["outTcp"] = 0 /\ t["outDns"] = 0 /\ t["preTcp"] = 0
                         /\ t["mark"] = 0 /\ t["owner"] = 0 /\ t["loopback"] = 0
                         /\ t["bypass"] = 0 /\ t["dns"] = 0 /\ t["tcp"] = 0
    /\ t["PRE"] = 0 => t["preDns"] = 0 /\ t["preRedirect"] = 0

\* The redirection is guarded, unless two commands failed.
Guarded(t, fl) == fl <= 1 /\ t["tcp"] > 0 => t["mark"] + t["owner"] > 0

\* Nothing is there twice, unless a command failed.
Single(t, fl) == fl = 0 => \A e \in Entries : t[e] <= 1

TableOK(t, fl) == KernelOK(t) /\ Guarded(t, fl) /\ Single(t, fl)

\* A chain without contents or without hooks redirects nothing.
RulesOff(t) ==
    \/ t["tcp"] = 0 /\ t["dns"] = 0
    \/ t["outTcp"] = 0 /\ t["outDns"] = 0 /\ t["preTcp"] = 0
PreOff(t) == t["preDns"] = 0 \/ t["preRedirect"] = 0

\* Removal: the chains are off once they were unlinked and flushed, unless two
\* commands failed.
Removal(t, p, fl) ==
    /\ fl <= 1 /\ p > 5 => RulesOff(t)
    /\ fl <= 1 /\ p > 7 => PreOff(t)

\* New rules: the chain has been created and nothing is hooked in before
\* it is complete, and its first rule keeps the gateway's own packets out.
Building(t, p, fl) ==
    /\ 9 < p /\ p <= 16 =>
         t["RULES"] = 1 /\ t["outTcp"] = 0 /\ t["outDns"] = 0 /\ t["preTcp"] = 0
    /\ p = 12 => fl > 0
    /\ fl <= 1 /\ 12 < p /\ p <= 15 => t["mark"] + t["owner"] > 0

\* Without failures an entry is gone once removed and back once added.
Phase(n, p, gone, back, wanted) ==
    /\ gone < p /\ p <= back => n = 0
    /\ p > back => n = IF wanted THEN 1 ELSE 0

\* Again is 21 for a script that only removes, and for the owner rule.
Faultless(mode, f, servers, t, p) ==
    LET Again(r) == IF mode = "apply" THEN r ELSE 21
    IN  /\ Phase(t["outTcp"], p, 1, Again(16), TRUE)
        /\ Phase(t["outDns"], p, 2, Again(18), servers = {})
        /\ Phase(t["preTcp"], p, 3, Again(17), TRUE)
        /\ Phase(t["preDns"], p, 4, Again(20), servers = {})
        /\ Phase(t["mark"], p, 5, Again(11), TRUE)
        /\ Phase(t["owner"], p, 5, 21, FALSE)
        /\ Phase(t["loopback"], p, 5, Again(13), TRUE)
        /\ Phase(t["bypass"], p, 5, Again(14), f \in servers)
        /\ Phase(t["dns"], p, 5, Again(14), servers = {})
        /\ Phase(t["tcp"], p, 5, Again(15), TRUE)
        /\ Phase(t["RULES"], p, 6, Again(9), TRUE)
        /\ Phase(t["preRedirect"], p, 7, Again(19), servers = {})
        /\ Phase(t["PRE"], p, 8, Again(10), TRUE)

\* The commands a family's part of a script may be at.
Valid(mode, f, servers, p) ==
    /\ p \in 1 .. 21
    /\ 9 <= p /\ p <= 20 => mode = "apply"
    /\ p = 14 => servers = {} \/ f \in servers
    /\ 18 <= p /\ p <= 20 => servers = {}

Stage(mode, f, servers, t, p, fl) ==
    /\ Valid(mode, f, servers, p)
    /\ mode = "remove" \/ p <= 9 => Removal(t, p, fl)
    /\ mode = "apply" => Building(t, p, fl) /\ (fl <= 1 /\ 7 < p /\ p <= 16 => PreOff(t))
    /\ fl = 0 => Faultless(mode, f, servers, t, p)

Mode == IF main \in {"removing", "cleaning"} THEN "remove" ELSE "apply"

-----------------------------------------------------------------------------
(* The tables.                                                             *)

\* The entries of a table, by name.
LEMMA EntriesAre ==
    Entries = {"RULES", "PRE", "mark", "owner", "loopback", "bypass", "dns", "tcp",
               "preRedirect", "outTcp", "outDns", "preTcp", "preDns"}
BY DEF Entries, Chains, Contents, HooksOf

\* The chain a rule is in, or a hook jumps to.
LEMMA ChainsAre ==
    /\ \A e \in {"mark", "owner", "loopback", "bypass", "dns", "tcp", "outTcp", "outDns",
                 "preTcp"} : ChainOf(e) = "RULES"
    /\ \A e \in {"preRedirect", "preDns"} : ChainOf(e) = "PRE"
BY DEF ChainOf, Chains, Contents, HooksOf

\* What adding an entry does to a table.
LEMMA AddEffect ==
    ASSUME NEW t \in [Entries -> Nat], NEW op \in {"N", "A"}, NEW e \in Entries
    PROVE  /\ Effect(t, op, e) \in [Entries -> Nat]
           /\ \A x \in Entries : Effect(t, op, e)[x] = IF x = e THEN t[x] + 1 ELSE t[x]
BY DEF Effect

\* What deleting an entry that is there does to a table.
LEMMA DeleteEffect ==
    ASSUME NEW t \in [Entries -> Nat], NEW op \in {"D", "X"}, NEW e \in Entries,
           t[e] > 0
    PROVE  /\ Effect(t, op, e) \in [Entries -> Nat]
           /\ \A x \in Entries : Effect(t, op, e)[x] = IF x = e THEN t[x] - 1 ELSE t[x]
BY DEF Effect

\* What flushing a chain does to a table.
LEMMA FlushEffect ==
    ASSUME NEW t \in [Entries -> Nat], NEW e \in Chains
    PROVE  /\ Effect(t, "F", e) \in [Entries -> Nat]
           /\ \A x \in Entries : Effect(t, "F", e)[x] = IF x \in Contents(e) THEN 0 ELSE t[x]
BY DEF Effect

\* Removing never adds anything.
LEMMA RemovalShrinks ==
    ASSUME NEW t \in [Entries -> Nat], NEW op \in {"D", "F", "X"}, NEW e \in Entries,
           op = "F" => e \in Chains, ~Refused(t, op, e)
    PROVE  /\ Effect(t, op, e) \in [Entries -> Nat]
           /\ \A x \in Entries : Effect(t, op, e)[x] <= t[x]
<1>1. CASE op = "F"
  <2>1. /\ Effect(t, op, e) \in [Entries -> Nat]
        /\ \A x \in Entries : Effect(t, op, e)[x] = IF x \in Contents(e) THEN 0 ELSE t[x]
    BY <1>1, FlushEffect
  <2> QED BY <2>1, SMT
<1>2. CASE op \in {"D", "X"}
  <2>1. t[e] # 0
    BY <1>2 DEF Refused
  <2>2. /\ Effect(t, op, e) \in [Entries -> Nat]
        /\ \A x \in Entries : Effect(t, op, e)[x] = IF x = e THEN t[x] - 1 ELSE t[x]
    BY <1>2, <2>1, t[e] \in Nat, DeleteEffect
  <2> QED BY <2>2
<1> QED BY <1>1, <1>2

-----------------------------------------------------------------------------
(* One command on the table of its family.                               *)

Modes == {"apply", "remove"}

\* A failure only weakens what is known of a table.
LEMMA FailuresWeaken ==
    ASSUME NEW mode, NEW f, NEW servers, NEW t, NEW p \in Nat, NEW fl \in Nat,
           NEW fm \in Nat,
           fl <= fm, TableOK(t, fl), Stage(mode, f, servers, t, p, fl)
    PROVE  TableOK(t, fm) /\ Stage(mode, f, servers, t, p, fm)
<1>1. TableOK(t, fm)
  BY DEF TableOK, KernelOK, Guarded, Single
<1>2. Removal(t, p, fl) => Removal(t, p, fm)
  BY DEF Removal
<1>3. Building(t, p, fl) => Building(t, p, fm)
  BY DEF Building
<1>4. fm = 0 => fl = 0
  OBVIOUS
<1>5. fm <= 1 => fl <= 1
  OBVIOUS
<1>6. Stage(mode, f, servers, t, p, fm)
  BY <1>2, <1>3, <1>4, <1>5, Zenon DEF Stage
<1> QED BY <1>1, <1>6

\* A hook is deleted.
LEMMA UnlinkStep ==
    ASSUME NEW mode \in Modes, NEW f \in Families, NEW servers, NEW t, NEW u,
           NEW fl \in Nat, NEW r, NEW e,
           \/ (r = 1 /\ e = "outTcp")
           \/ (r = 2 /\ e = "outDns")
           \/ (r = 3 /\ e = "preTcp")
           \/ (r = 4 /\ e = "preDns"),
           TableOK(t, fl), Stage(mode, f, servers, t, r, fl), t[e] > 0,
           u \in [Entries -> Nat],
           \A x \in Entries : u[x] = IF x = e THEN t[x] - 1 ELSE t[x]
    PROVE  TableOK(u, fl) /\ Stage(mode, f, servers, u, NextRank(mode, f, servers, r), fl)
<1>1. t \in [Entries -> Nat]
  BY DEF TableOK, KernelOK
<1>2. TableOK(u, fl)
  BY <1>1, EntriesAre DEF TableOK, KernelOK, Guarded, Single, Stage, Building, Valid,
     Faultless, Phase
<1>3. Stage(mode, f, servers, u, NextRank(mode, f, servers, r), fl)
  BY <1>1, EntriesAre DEF Stage, Valid, Removal, Building, Faultless, Phase, RulesOff,
     PreOff, Modes, TableOK, KernelOK, Single, NextRank
<1> QED BY <1>2, <1>3

\* A chain is flushed.
LEMMA FlushStep ==
    ASSUME NEW mode \in Modes, NEW f \in Families, NEW servers, NEW t, NEW u,
           NEW fl \in Nat, NEW r, NEW e,
           \/ (r = 5 /\ e = "RULES")
           \/ (r = 7 /\ e = "PRE"),
           TableOK(t, fl), Stage(mode, f, servers, t, r, fl), 
           u \in [Entries -> Nat],
           \A x \in Entries : u[x] = IF x \in Contents(e) THEN 0 ELSE t[x]
    PROVE  TableOK(u, fl) /\ Stage(mode, f, servers, u, NextRank(mode, f, servers, r), fl)
<1>1. t \in [Entries -> Nat]
  BY DEF TableOK, KernelOK
<1>2. TableOK(u, fl)
  BY <1>1, EntriesAre DEF TableOK, KernelOK, Guarded, Single, Stage, Building, Valid,
     Faultless, Phase, Contents
<1>3. Stage(mode, f, servers, u, NextRank(mode, f, servers, r), fl)
  BY <1>1, EntriesAre DEF Stage, Valid, Removal, Building, Faultless, Phase, RulesOff,
     PreOff, Modes, TableOK, KernelOK, Single, NextRank, Contents
<1> QED BY <1>2, <1>3

\* A chain without rules and hooks is deleted.
LEMMA DropStep ==
    ASSUME NEW mode \in Modes, NEW f \in Families, NEW servers, NEW t, NEW u,
           NEW fl \in Nat, NEW r, NEW e,
           \/ (r = 6 /\ e = "RULES")
           \/ (r = 8 /\ e = "PRE"),
           TableOK(t, fl), Stage(mode, f, servers, t, r, fl), t[e] > 0,
           \A x \in Contents(e) \cup HooksOf(e) : t[x] = 0,
           u \in [Entries -> Nat],
           \A x \in Entries : u[x] = IF x = e THEN t[x] - 1 ELSE t[x]
    PROVE  TableOK(u, fl) /\ Stage(mode, f, servers, u, NextRank(mode, f, servers, r), fl)
<1>1. t \in [Entries -> Nat]
  BY DEF TableOK, KernelOK
<1>2. TableOK(u, fl)
  BY <1>1, EntriesAre DEF TableOK, KernelOK, Guarded, Single, Stage, Building, Valid,
     Faultless, Phase, Contents, HooksOf
<1>3. Stage(mode, f, servers, u, NextRank(mode, f, servers, r), fl)
  BY <1>1, EntriesAre DEF Stage, Valid, Removal, Building, Faultless, Phase, RulesOff,
     PreOff, Modes, TableOK, KernelOK, Single, NextRank, Contents, HooksOf
<1> QED BY <1>2, <1>3

\* A chain that is not there is created.
LEMMA CreateStep ==
    ASSUME NEW mode \in Modes, NEW f \in Families, NEW servers, NEW t, NEW u,
           NEW fl \in Nat, NEW r, NEW e,
           \/ (r = 9 /\ e = "RULES")
           \/ (r = 10 /\ e = "PRE"),
           TableOK(t, fl), Stage(mode, f, servers, t, r, fl), t[e] = 0,
           u \in [Entries -> Nat],
           \A x \in Entries : u[x] = IF x = e THEN t[x] + 1 ELSE t[x]
    PROVE  TableOK(u, fl) /\ Stage(mode, f, servers, u, NextRank(mode, f, servers, r), fl)
<1>1. t \in [Entries -> Nat]
  BY DEF TableOK, KernelOK
<1>2. TableOK(u, fl)
  BY <1>1, EntriesAre DEF TableOK, KernelOK, Guarded, Single, Stage, Building, Valid,
     Faultless, Phase
<1>3. Stage(mode, f, servers, u, NextRank(mode, f, servers, r), fl)
  BY <1>1, EntriesAre DEF Stage, Valid, Removal, Building, Faultless, Phase, RulesOff,
     PreOff, Modes, TableOK, KernelOK, Single, NextRank
<1> QED BY <1>2, <1>3

\* The rule that is added at a rank.
Adds(servers, r, e) ==
    \/ r = 11 /\ e = "mark"
    \/ r = 12 /\ e = "owner"
    \/ r = 13 /\ e = "loopback"
    \/ r = 14 /\ e = (IF servers = {} THEN "dns" ELSE "bypass")
    \/ r = 15 /\ e = "tcp"
    \/ r = 16 /\ e = "outTcp"
    \/ r = 17 /\ e = "preTcp"
    \/ r = 18 /\ e = "outDns"
    \/ r = 19 /\ e = "preRedirect"
    \/ r = 20 /\ e = "preDns"

\* A rule is added to a chain, or a hook for one.
LEMMA AddStep ==
    ASSUME NEW mode \in Modes, NEW f \in Families, NEW servers, NEW t, NEW u,
           NEW fl \in Nat, NEW r, NEW e,
           Adds(servers, r, e),
           TableOK(t, fl), Stage(mode, f, servers, t, r, fl),
           \A c \in Chains : e \in Contents(c) \cup HooksOf(c) => t[c] > 0,
           u \in [Entries -> Nat],
           \A x \in Entries : u[x] = IF x = e THEN t[x] + 1 ELSE t[x]
    PROVE  TableOK(u, fl) /\ Stage(mode, f, servers, u, NextRank(mode, f, servers, r), fl)
<1>1. t \in [Entries -> Nat]
  BY DEF TableOK, KernelOK
<1>2. TableOK(u, fl)
  BY <1>1, EntriesAre DEF Adds, TableOK, KernelOK, Guarded, Single, Stage, Building,
     Valid, Faultless, Phase, Contents, HooksOf, Chains
<1>3. Stage(mode, f, servers, u, NextRank(mode, f, servers, r), fl)
  BY <1>1, EntriesAre DEF Adds, Stage, Valid, Removal, Building, Faultless, Phase,
     RulesOff, PreOff, Modes, TableOK, KernelOK, Single, NextRank, Contents, HooksOf,
     Chains
<1> QED BY <1>2, <1>3

\* What the kernel refuses, command by command.
LEMMA RefusalIs ==
    ASSUME NEW t \in [Entries -> Nat], NEW e \in Entries
    PROVE  /\ Refused(t, "N", e) <=> t[e] > 0
           /\ Refused(t, "D", e) <=> t[e] = 0
           /\ Refused(t, "F", e) <=> t[e] = 0
           /\ Refused(t, "X", e) <=> t[e] = 0 \/ \E x \in Contents(e) \cup HooksOf(e) : t[x] > 0
           /\ Refused(t, "A", e) <=> t[ChainOf(e)] = 0
BY DEF Refused

\* A command that failed or was refused changes nothing.  If the code ignores
\* the error, the table is as far as the command would have brought it.
LEMMA IgnoredStep ==
    ASSUME NEW mode \in Modes, NEW f \in Families, NEW servers, NEW t, NEW fl \in Nat,
           NEW r \in 1 .. 20, r \notin {9, 11},
           TableOK(t, fl), Stage(mode, f, servers, t, r, fl),
           NEW fm \in Nat,
           \/ fm = fl + 1
           \/ /\ fm = fl
              /\ LET c == Command(f, servers, r) IN Refused(t, c.op, c.at)
    PROVE  TableOK(t, fm) /\ Stage(mode, f, servers, t, NextRank(mode, f, servers, r), fm)
<1> DEFINE q == NextRank(mode, f, servers, r)
           c == Command(f, servers, r)
<1>0. t \in [Entries -> Nat]
  BY DEF TableOK, KernelOK
<1>1. TableOK(t, fm) /\ Stage(mode, f, servers, t, r, fm)
  BY FailuresWeaken
<1>2. CASE fm = fl + 1
  <2>1. Stage(mode, f, servers, t, q, fm)
    BY <1>0, <1>1, <1>2, EntriesAre
    DEF Stage, Valid, Removal, Building, Faultless, Phase, RulesOff, PreOff, Modes,
        TableOK, KernelOK, NextRank
  <2> QED BY <1>1, <2>1
<1>3. CASE fm = fl /\ Refused(t, c.op, c.at)
  <2>1. CASE r \in 1 .. 4
    <3>1. \/ r = 1 /\ t["outTcp"] = 0
          \/ r = 2 /\ t["outDns"] = 0
          \/ r = 3 /\ t["preTcp"] = 0
          \/ r = 4 /\ t["preDns"] = 0
      BY <1>0, <1>3, <2>1, RefusalIs, EntriesAre DEF Command, Cmd
    <3>2. Stage(mode, f, servers, t, q, fl)
      BY <1>0, <3>1, EntriesAre
      DEF Stage, Valid, Removal, Building, Faultless, Phase, RulesOff, PreOff, Modes, NextRank
    <3> QED BY <1>1, <1>3, <3>2
  <2>2. CASE r \in {5, 7}
    <3>1. \/ r = 5 /\ t["RULES"] = 0
          \/ r = 7 /\ t["PRE"] = 0
      BY <1>0, <1>3, <2>2, RefusalIs, EntriesAre DEF Command, Cmd
    <3>2. Stage(mode, f, servers, t, q, fl)
      BY <1>0, <3>1, EntriesAre
      DEF Stage, Valid, Removal, Building, Faultless, Phase, RulesOff, PreOff, Modes, NextRank,
          TableOK, KernelOK
    <3> QED BY <1>1, <1>3, <3>2
  <2>3. CASE r \in {6, 8}
    <3>1. \/ r = 6 /\ (t["RULES"] = 0 \/ \E x \in Contents("RULES") \cup HooksOf("RULES") : t[x] > 0)
          \/ r = 8 /\ (t["PRE"] = 0 \/ \E x \in Contents("PRE") \cup HooksOf("PRE") : t[x] > 0)
      BY <1>0, <1>3, <2>3, RefusalIs, EntriesAre DEF Command, Cmd
    <3>2. Stage(mode, f, servers, t, q, fl)
      BY <1>0, <3>1, EntriesAre
      DEF Stage, Valid, Removal, Building, Faultless, Phase, RulesOff, PreOff, Modes, NextRank,
          TableOK, KernelOK, Contents, HooksOf
    <3> QED BY <1>1, <1>3, <3>2
  <2>4. CASE r = 10
    <3>1. t["PRE"] > 0
      BY <1>0, <1>3, <2>4, RefusalIs, EntriesAre DEF Command, Cmd
    <3>2. Stage(mode, f, servers, t, q, fl)
      BY <1>0, <2>4, <3>1, EntriesAre
      DEF Stage, Valid, Removal, Building, Faultless, Phase, RulesOff, PreOff, Modes, NextRank
    <3> QED BY <1>1, <1>3, <3>2
  <2>5. CASE r \in 12 .. 18
    <3>1. t["RULES"] = 0
      BY <1>0, <1>3, <2>5, RefusalIs, EntriesAre, ChainsAre DEF Command, Cmd
    <3>2. Stage(mode, f, servers, t, q, fl)
      BY <1>0, <2>5, <3>1, EntriesAre
      DEF Stage, Valid, Removal, Building, Faultless, Phase, RulesOff, PreOff, Modes, NextRank
    <3> QED BY <1>1, <1>3, <3>2
  <2>6. CASE r \in 19 .. 20
    <3>1. t["PRE"] = 0
      BY <1>0, <1>3, <2>6, RefusalIs, EntriesAre, ChainsAre DEF Command, Cmd
    <3>2. Stage(mode, f, servers, t, q, fl)
      BY <1>0, <2>6, <3>1, EntriesAre
      DEF Stage, Valid, Removal, Building, Faultless, Phase, RulesOff, PreOff, Modes, NextRank
    <3> QED BY <1>1, <1>3, <3>2
  <2>7. r \in 1 .. 4 \/ r \in {5, 7} \/ r \in {6, 8} \/ r = 10 \/ r \in 12 .. 18 \/ r \in 19 .. 20
    OBVIOUS
  <2> QED BY <2>1, <2>2, <2>3, <2>4, <2>5, <2>6, <2>7
<1> QED BY <1>2, <1>3

\* Where the mark match is missing, the rule on the owner takes its place.
LEMMA OwnerStep ==
    ASSUME NEW mode \in Modes, NEW f \in Families, NEW servers, NEW t, NEW fl \in Nat,
           TableOK(t, fl), Stage(mode, f, servers, t, 11, fl),
           NEW fm \in Nat,
           fm = fl + 1 \/ (fm = fl /\ Refused(t, "A", "mark"))
    PROVE  TableOK(t, fm) /\ Stage(mode, f, servers, t, 12, fm)
<1>0. t \in [Entries -> Nat]
  BY DEF TableOK, KernelOK
<1>1. TableOK(t, fm) /\ Stage(mode, f, servers, t, 11, fm)
  BY FailuresWeaken
<1>2. t["RULES"] = 1
  BY DEF Stage, Building, Valid
<1>3. ~Refused(t, "A", "mark")
  BY <1>0, <1>2, RefusalIs, EntriesAre, ChainsAre
<1>4. Stage(mode, f, servers, t, 12, fm)
  BY <1>0, <1>1, <1>3
  DEF Stage, Valid, Removal, Building, Faultless, Phase, RulesOff, PreOff, Modes
<1> QED BY <1>1, <1>4

\* Where the chain cannot be created, IPv6 is left out.
LEMMA SkipStep ==
    ASSUME NEW mode \in Modes, NEW f \in Families, NEW servers, NEW t, NEW fl \in Nat,
           TableOK(t, fl), Stage(mode, f, servers, t, 9, fl),
           NEW fm \in Nat,
           fm = fl + 1 \/ (fm = fl /\ Refused(t, "N", "RULES"))
    PROVE  TableOK(t, fm) /\ Stage(mode, f, servers, t, 21, fm)
<1>0. t \in [Entries -> Nat]
  BY DEF TableOK, KernelOK
<1>1. TableOK(t, fm) /\ Stage(mode, f, servers, t, 9, fm)
  BY FailuresWeaken
<1>2. fl = 0 => ~Refused(t, "N", "RULES")
  BY <1>0, RefusalIs, EntriesAre DEF Stage, Valid, Faultless, Phase
<1>4. Stage(mode, f, servers, t, 21, fm)
  BY <1>0, <1>1, <1>2
  DEF Stage, Valid, Removal, Building, Faultless, Phase, RulesOff, PreOff, Modes
<1> QED BY <1>1, <1>4

\* The commands by name.
LEMMA CommandIs ==
    ASSUME NEW f, NEW servers
    PROVE  /\ Command(f, servers, 1) = Cmd(f, "D", "outTcp", "ignore")
           /\ Command(f, servers, 2) = Cmd(f, "D", "outDns", "ignore")
           /\ Command(f, servers, 3) = Cmd(f, "D", "preTcp", "ignore")
           /\ Command(f, servers, 4) = Cmd(f, "D", "preDns", "ignore")
           /\ Command(f, servers, 5) = Cmd(f, "F", "RULES", "ignore")
           /\ Command(f, servers, 6) = Cmd(f, "X", "RULES", "ignore")
           /\ Command(f, servers, 7) = Cmd(f, "F", "PRE", "ignore")
           /\ Command(f, servers, 8) = Cmd(f, "X", "PRE", "ignore")
           /\ Command(f, servers, 9) = Cmd(f, "N", "RULES", IF f = "v4" THEN "abort" ELSE "skip")
           /\ Command(f, servers, 10) = Cmd(f, "N", "PRE", "ignore")
           /\ Command(f, servers, 11) = Cmd(f, "A", "mark", "owner")
           /\ Command(f, servers, 12) = Cmd(f, "A", "owner", "ignore")
           /\ Command(f, servers, 13) = Cmd(f, "A", "loopback", "ignore")
           /\ Command(f, servers, 14) = Cmd(f, "A", IF servers = {} THEN "dns" ELSE "bypass", "ignore")
           /\ Command(f, servers, 15) = Cmd(f, "A", "tcp", IF f = "v4" THEN "abort" ELSE "ignore")
           /\ Command(f, servers, 16) = Cmd(f, "A", "outTcp", IF f = "v4" THEN "abort" ELSE "ignore")
           /\ Command(f, servers, 17) = Cmd(f, "A", "preTcp", "ignore")
           /\ Command(f, servers, 18) = Cmd(f, "A", "outDns", "ignore")
           /\ Command(f, servers, 19) = Cmd(f, "A", "preRedirect", "ignore")
           /\ Command(f, servers, 20) = Cmd(f, "A", "preDns", "ignore")
<1>1. Command(f, servers, 1) = Cmd(f, "D", "outTcp", "ignore")
  BY DEF Command
<1>2. Command(f, servers, 2) = Cmd(f, "D", "outDns", "ignore")
  BY DEF Command
<1>3. Command(f, servers, 3) = Cmd(f, "D", "preTcp", "ignore")
  BY DEF Command
<1>4. Command(f, servers, 4) = Cmd(f, "D", "preDns", "ignore")
  BY DEF Command
<1>5. Command(f, servers, 5) = Cmd(f, "F", "RULES", "ignore")
  BY DEF Command
<1>6. Command(f, servers, 6) = Cmd(f, "X", "RULES", "ignore")
  BY DEF Command
<1>7. Command(f, servers, 7) = Cmd(f, "F", "PRE", "ignore")
  BY DEF Command
<1>8. Command(f, servers, 8) = Cmd(f, "X", "PRE", "ignore")
  BY DEF Command
<1>9. Command(f, servers, 9) = Cmd(f, "N", "RULES", IF f = "v4" THEN "abort" ELSE "skip")
  BY DEF Command
<1>10. Command(f, servers, 10) = Cmd(f, "N", "PRE", "ignore")
  BY DEF Command
<1>11. Command(f, servers, 11) = Cmd(f, "A", "mark", "owner")
  BY DEF Command
<1>12. Command(f, servers, 12) = Cmd(f, "A", "owner", "ignore")
  BY DEF Command
<1>13. Command(f, servers, 13) = Cmd(f, "A", "loopback", "ignore")
  BY DEF Command
<1>14. Command(f, servers, 14) = Cmd(f, "A", IF servers = {} THEN "dns" ELSE "bypass", "ignore")
  BY DEF Command
<1>15. Command(f, servers, 15) = Cmd(f, "A", "tcp", IF f = "v4" THEN "abort" ELSE "ignore")
  BY DEF Command
<1>16. Command(f, servers, 16) = Cmd(f, "A", "outTcp", IF f = "v4" THEN "abort" ELSE "ignore")
  BY DEF Command
<1>17. Command(f, servers, 17) = Cmd(f, "A", "preTcp", "ignore")
  BY DEF Command
<1>18. Command(f, servers, 18) = Cmd(f, "A", "outDns", "ignore")
  BY DEF Command
<1>19. Command(f, servers, 19) = Cmd(f, "A", "preRedirect", "ignore")
  BY DEF Command
<1>20. Command(f, servers, 20) = Cmd(f, "A", "preDns", "ignore")
  BY DEF Command
<1> QED BY <1>1, <1>2, <1>3, <1>4, <1>5, <1>6, <1>7, <1>8, <1>9, <1>10, <1>11, <1>12,
           <1>13, <1>14, <1>15, <1>16, <1>17, <1>18, <1>19, <1>20

\* What a command is made of.
LEMMA CmdIs ==
    ASSUME NEW f, NEW op, NEW e, NEW onError
    PROVE  /\ Cmd(f, op, e, onError).fam = f /\ Cmd(f, op, e, onError).op = op
           /\ Cmd(f, op, e, onError).at = e /\ Cmd(f, op, e, onError).onError = onError
BY DEF Cmd

\* What the commands do, by rank, and what becomes of an error.
CommandFacts(f, servers, r, c) ==
    /\ c.fam = f /\ c.at \in Entries
    /\ r \in 1 .. 4 => /\ c.op = "D"
                        /\ \/ r = 1 /\ c.at = "outTcp"
                           \/ r = 2 /\ c.at = "outDns"
                           \/ r = 3 /\ c.at = "preTcp"
                           \/ r = 4 /\ c.at = "preDns"
    /\ r \in {5, 7} => /\ c.op = "F"
                       /\ \/ r = 5 /\ c.at = "RULES"
                          \/ r = 7 /\ c.at = "PRE"
    /\ r \in {6, 8} => /\ c.op = "X"
                       /\ \/ r = 6 /\ c.at = "RULES"
                          \/ r = 8 /\ c.at = "PRE"
    /\ r \in 9 .. 10 => /\ c.op = "N"
                         /\ \/ r = 9 /\ c.at = "RULES"
                            \/ r = 10 /\ c.at = "PRE"
    /\ r \in 11 .. 20 => c.op = "A" /\ Adds(servers, r, c.at)
    /\ c.onError \in {"ignore", "owner", "skip", "abort"}
    /\ c.onError = "owner" <=> r = 11
    /\ c.onError = "skip" <=> r = 9 /\ f = "v6"
    /\ c.onError = "abort" <=> r \in {9, 15, 16} /\ f = "v4"

\* The commands are what CommandFacts says.
LEMMA CommandAt ==
    ASSUME NEW f \in Families, NEW servers, NEW r \in 1 .. 20
    PROVE  CommandFacts(f, servers, r, Command(f, servers, r))
<1> DEFINE P(q) == CommandFacts(f, servers, q, Command(f, servers, q))
<1>1. P(1)
  BY CommandIs, CmdIs, EntriesAre DEF CommandFacts, Families, Adds
<1>2. P(2)
  BY CommandIs, CmdIs, EntriesAre DEF CommandFacts, Families, Adds
<1>3. P(3)
  BY CommandIs, CmdIs, EntriesAre DEF CommandFacts, Families, Adds
<1>4. P(4)
  BY CommandIs, CmdIs, EntriesAre DEF CommandFacts, Families, Adds
<1>5. P(5)
  BY CommandIs, CmdIs, EntriesAre DEF CommandFacts, Families, Adds
<1>6. P(6)
  BY CommandIs, CmdIs, EntriesAre DEF CommandFacts, Families, Adds
<1>7. P(7)
  BY CommandIs, CmdIs, EntriesAre DEF CommandFacts, Families, Adds
<1>8. P(8)
  BY CommandIs, CmdIs, EntriesAre DEF CommandFacts, Families, Adds
<1>9. P(9)
  <2>1. CASE f = "v4"
    BY <2>1, CommandIs, CmdIs, EntriesAre DEF CommandFacts, Adds
  <2>2. CASE f = "v6"
    BY <2>2, CommandIs, CmdIs, EntriesAre DEF CommandFacts, Adds
  <2> QED BY <2>1, <2>2 DEF Families
<1>10. P(10)
  BY CommandIs, CmdIs, EntriesAre DEF CommandFacts, Families, Adds
<1>11. P(11)
  BY CommandIs, CmdIs, EntriesAre DEF CommandFacts, Families, Adds
<1>12. P(12)
  BY CommandIs, CmdIs, EntriesAre DEF CommandFacts, Families, Adds
<1>13. P(13)
  BY CommandIs, CmdIs, EntriesAre DEF CommandFacts, Families, Adds
<1>14. P(14)
  BY CommandIs, CmdIs, EntriesAre DEF CommandFacts, Families, Adds
<1>15. P(15)
  <2>1. CASE f = "v4"
    BY <2>1, CommandIs, CmdIs, EntriesAre DEF CommandFacts, Adds
  <2>2. CASE f = "v6"
    BY <2>2, CommandIs, CmdIs, EntriesAre DEF CommandFacts, Adds
  <2> QED BY <2>1, <2>2 DEF Families
<1>16. P(16)
  <2>1. CASE f = "v4"
    BY <2>1, CommandIs, CmdIs, EntriesAre DEF CommandFacts, Adds
  <2>2. CASE f = "v6"
    BY <2>2, CommandIs, CmdIs, EntriesAre DEF CommandFacts, Adds
  <2> QED BY <2>1, <2>2 DEF Families
<1>17. P(17)
  BY CommandIs, CmdIs, EntriesAre DEF CommandFacts, Families, Adds
<1>18. P(18)
  BY CommandIs, CmdIs, EntriesAre DEF CommandFacts, Families, Adds
<1>19. P(19)
  BY CommandIs, CmdIs, EntriesAre DEF CommandFacts, Families, Adds
<1>20. P(20)
  BY CommandIs, CmdIs, EntriesAre DEF CommandFacts, Families, Adds
<1> HIDE DEF P
<1>21. P(r)
  BY <1>1, <1>2, <1>3, <1>4, <1>5, <1>6, <1>7, <1>8, <1>9, <1>10, <1>11, <1>12, <1>13,
     <1>14, <1>15, <1>16, <1>17, <1>18, <1>19, <1>20
<1> QED BY <1>21 DEF P

\* A command that succeeds brings the table of its family as far as its rank says.
LEMMA SuccessStep ==
    ASSUME NEW mode \in Modes, NEW f \in Families, NEW servers, NEW t, NEW fl \in Nat,
           NEW r \in 1 .. 20, TableOK(t, fl), Stage(mode, f, servers, t, r, fl),
           LET c == Command(f, servers, r) IN ~Refused(t, c.op, c.at)
    PROVE  LET c == Command(f, servers, r)
               u == Effect(t, c.op, c.at)
           IN  TableOK(u, fl) /\ Stage(mode, f, servers, u, NextRank(mode, f, servers, r), fl)
<1> DEFINE c == Command(f, servers, r)
           u == Effect(t, c.op, c.at)
           Goal == TableOK(u, fl) /\ Stage(mode, f, servers, u, NextRank(mode, f, servers, r), fl)
<1>0. t \in [Entries -> Nat] /\ c.at \in Entries /\ ~Refused(t, c.op, c.at)
  BY CommandAt DEF CommandFacts, TableOK, KernelOK
<1> SUFFICES Goal
  OBVIOUS
<1>1. CASE r \in 1 .. 4
  <2>1. /\ c.op = "D" /\ c.at \in Entries
        /\ \/ r = 1 /\ c.at = "outTcp"
           \/ r = 2 /\ c.at = "outDns"
           \/ r = 3 /\ c.at = "preTcp"
           \/ r = 4 /\ c.at = "preDns"
    BY <1>1, CommandAt DEF CommandFacts
  <2> HIDE DEF c
  <2>2. t[c.at] > 0
    BY <1>0, <2>1, RefusalIs
  <2>3. /\ u \in [Entries -> Nat]
        /\ \A x \in Entries : u[x] = IF x = c.at THEN t[x] - 1 ELSE t[x]
    BY <1>0, <2>1, <2>2, DeleteEffect
  <2> HIDE DEF u
  <2> QED BY <2>1, <2>2, <2>3, UnlinkStep
<1>2. CASE r \in {5, 7}
  <2>1. /\ c.op = "F" /\ c.at \in Chains
        /\ \/ r = 5 /\ c.at = "RULES"
           \/ r = 7 /\ c.at = "PRE"
    BY <1>2, CommandAt DEF CommandFacts, Chains
  <2> HIDE DEF c
  <2>3. /\ u \in [Entries -> Nat]
        /\ \A x \in Entries : u[x] = IF x \in Contents(c.at) THEN 0 ELSE t[x]
    BY <1>0, <2>1, FlushEffect
  <2> HIDE DEF u
  <2> QED BY <2>1, <2>3, FlushStep
<1>3. CASE r \in {6, 8}
  <2>1. /\ c.op = "X" /\ c.at \in Entries
        /\ \/ r = 6 /\ c.at = "RULES"
           \/ r = 8 /\ c.at = "PRE"
    BY <1>3, CommandAt DEF CommandFacts
  <2> HIDE DEF c
  <2>2. t[c.at] # 0 /\ \A x \in Contents(c.at) \cup HooksOf(c.at) : ~ (t[x] > 0)
    BY <1>0, <2>1, RefusalIs
  <2>3. \A x \in Contents(c.at) \cup HooksOf(c.at) : x \in Entries
    BY <2>1 DEF Entries, Chains
  <2>4. t[c.at] > 0 /\ \A x \in Contents(c.at) \cup HooksOf(c.at) : t[x] = 0
    BY <1>0, <2>1, <2>2, <2>3
  <2>5. /\ u \in [Entries -> Nat]
        /\ \A x \in Entries : u[x] = IF x = c.at THEN t[x] - 1 ELSE t[x]
    BY <1>0, <2>1, <2>4, DeleteEffect
  <2> HIDE DEF u
  <2> QED BY <2>1, <2>4, <2>5, DropStep
<1>4. CASE r \in 9 .. 10
  <2>1. /\ c.op = "N" /\ c.at \in Entries
        /\ \/ r = 9 /\ c.at = "RULES"
           \/ r = 10 /\ c.at = "PRE"
    BY <1>4, CommandAt DEF CommandFacts
  <2> HIDE DEF c
  <2>2. t[c.at] = 0
    BY <1>0, <2>1, RefusalIs
  <2>3. /\ u \in [Entries -> Nat]
        /\ \A x \in Entries : u[x] = IF x = c.at THEN t[x] + 1 ELSE t[x]
    BY <1>0, <2>1, <2>2, AddEffect
  <2> HIDE DEF u
  <2> QED BY <2>1, <2>2, <2>3, CreateStep
<1>5. CASE r \in 11 .. 20
  <2>1. c.op = "A" /\ Adds(servers, r, c.at)
    BY <1>5, CommandAt DEF CommandFacts
  <2> HIDE DEF c
  <2>2. t[ChainOf(c.at)] # 0
    BY <1>0, <2>1, RefusalIs
  <2>3. \A k \in Chains : c.at \in Contents(k) \cup HooksOf(k) => k = ChainOf(c.at)
    BY <2>1, ChainsAre DEF Adds, Chains, Contents, HooksOf
  <2>4. \A k \in Chains : c.at \in Contents(k) \cup HooksOf(k) => t[k] > 0
    BY <1>0, <2>2, <2>3 DEF Entries
  <2>5. /\ u \in [Entries -> Nat]
        /\ \A x \in Entries : u[x] = IF x = c.at THEN t[x] + 1 ELSE t[x]
    BY <1>0, <2>1, AddEffect
  <2> HIDE DEF u
  <2> QED BY <2>1, <2>4, <2>5, AddStep
<1>6. r \in 1 .. 4 \/ r \in {5, 7} \/ r \in {6, 8} \/ r \in 9 .. 10 \/ r \in 11 .. 20
  OBVIOUS
<1> QED BY <1>1, <1>2, <1>3, <1>4, <1>5, <1>6

-----------------------------------------------------------------------------
(* Positions in a script.                                                  *)

\* A position names a family and a rank.
LEMMA PositionIs ==
    ASSUME NEW g \in 1 .. 40, NEW mode \in Modes
    PROVE  /\ FamOf(g) \in Families
           /\ RankOf(g) \in 1 .. 20
           /\ At(mode, FamOf(g), g) = RankOf(g)
BY DEF FamOf, RankOf, At, Families

\* The next position continues the family and leaves the other where it was.
LEMMA NextPosIs ==
    ASSUME NEW g \in 1 .. 40, NEW mode \in Modes, NEW servers,
           Valid(mode, FamOf(g), servers, RankOf(g))
    PROVE  LET n == NextPos(mode, servers, g)
           IN  /\ n \in 1 .. 41
               /\ At(mode, FamOf(g), n) = NextRank(mode, FamOf(g), servers, RankOf(g))
               /\ \A h \in Families : h # FamOf(g) => At(mode, h, n) = At(mode, h, g)
<1> DEFINE r == NextRank(mode, FamOf(g), servers, RankOf(g))
           n == NextPos(mode, servers, g)
<1>1. CASE g \in 1 .. 16
  <2>1. /\ g <= 8 => RankOf(g) = g
        /\ g > 8 => RankOf(g) = g - 8
    BY <1>1 DEF RankOf
  <2>2. r = IF RankOf(g) = 8 THEN IF mode = "apply" THEN 9 ELSE 21 ELSE RankOf(g) + 1
    BY <1>1, <2>1 DEF NextRank
  <2>3. n = IF g = 16 /\ mode # "apply" THEN 41 ELSE g + 1
    BY <1>1 DEF NextPos
  <2> HIDE DEF r, n
  <2>4. n \in 1 .. 41
    BY <1>1, <2>3
  <2>5. At(mode, FamOf(g), n) = r
    BY <1>1, <2>1, <2>2, <2>3 DEF At, FamOf, Modes
  <2>6. \A h \in Families : h # FamOf(g) => At(mode, h, n) = At(mode, h, g)
    BY <1>1, <2>3 DEF At, FamOf, Modes, Families
  <2> QED BY <2>4, <2>5, <2>6 DEF r, n
<1>2. CASE g \in 17 .. 28
  <2>1. FamOf(g) = "v4" /\ RankOf(g) = g - 8 /\ mode = "apply"
    BY <1>2 DEF RankOf, FamOf, Valid
  <2>2. r \in RankOf(g) + 1 .. 21
    BY <1>2, <2>1 DEF NextRank
  <2>3. n = IF r = 21 THEN 29 ELSE r + 8
    BY <1>2 DEF NextPos
  <2> HIDE DEF r, n
  <2>4. n \in 1 .. 41
    BY <1>2, <2>1, <2>2, <2>3
  <2>5. At(mode, "v4", n) = r
    BY <1>2, <2>1, <2>2, <2>3 DEF At
  <2>6. At(mode, "v6", n) = At(mode, "v6", g)
    BY <1>2, <2>1, <2>2, <2>3 DEF At
  <2> QED BY <2>1, <2>4, <2>5, <2>6 DEF r, n, Families
<1>3. CASE g \in 29 .. 40
  <2>1. FamOf(g) = "v6" /\ RankOf(g) = g - 20
    BY <1>3 DEF RankOf, FamOf
  <2>2. r \in RankOf(g) + 1 .. 21
    BY <1>3, <2>1 DEF NextRank
  <2>3. n = r + 20
    BY <1>3 DEF NextPos
  <2> HIDE DEF r, n
  <2>4. n \in 1 .. 41
    BY <1>3, <2>1, <2>2, <2>3
  <2>5. At(mode, "v6", n) = r
    BY <1>3, <2>1, <2>2, <2>3 DEF At
  <2>6. At(mode, "v4", n) = At(mode, "v4", g)
    BY <1>3, <2>1, <2>2, <2>3 DEF At
  <2> QED BY <2>1, <2>4, <2>5, <2>6 DEF r, n, Families
<1> QED BY <1>1, <1>2, <1>3

\* The owner rule has the position after the mark rule it replaces.
LEMMA OwnerPosIs ==
    ASSUME NEW g \in 1 .. 40, NEW mode \in Modes, NEW servers, RankOf(g) = 11
    PROVE  /\ g + 1 \in 1 .. 40
           /\ FamOf(g + 1) = FamOf(g) /\ RankOf(g + 1) = 12
           /\ NextPos(mode, servers, g + 1) = NextPos(mode, servers, g)
           /\ At(mode, FamOf(g), g + 1) = 12
           /\ \A h \in Families : h # FamOf(g) => At(mode, h, g + 1) = At(mode, h, g)
<1>1. g = 19 \/ g = 31
  BY DEF RankOf
<1>2. CASE g = 19
  BY <1>2 DEF RankOf, FamOf, NextPos, NextRank, At, Families
<1>3. CASE g = 31
  BY <1>3 DEF RankOf, FamOf, NextPos, NextRank, At, Families
<1> QED BY <1>1, <1>2, <1>3

\* Only IPv6 is skipped, and it comes last.
LEMMA SkipPosIs ==
    ASSUME NEW g \in 1 .. 40, NEW mode \in Modes, RankOf(g) = 9, FamOf(g) = "v6"
    PROVE  /\ At(mode, "v6", 41) = 21
           /\ At(mode, "v4", 41) = At(mode, "v4", g)
<1>1. g = 29
  BY DEF RankOf, FamOf
<1> QED BY <1>1 DEF At

-----------------------------------------------------------------------------
(* Scripts as paths through the positions.                                 *)

\* The empty path.
LEMMA EmptyPath ==
    ASSUME NEW mode, NEW servers, NEW a \in 1 .. 41
    PROVE  Path(mode, servers, << >>, a, a)
<1> DEFINE pos == [i \in 1 .. 1 |-> a]
<1>1. pos \in [1 .. Len(<< >>) + 1 -> 1 .. 41] /\ pos[1] = a /\ pos[Len(<< >>) + 1] = a
  OBVIOUS
<1> HIDE DEF pos
<1>2. \A i \in 1 .. Len(<< >>) : FALSE
  OBVIOUS
<1> QED BY <1>1, <1>2, Zenon DEF Path

\* The empty path goes nowhere.
LEMMA NoPath ==
    ASSUME NEW mode, NEW servers, NEW a, NEW b, Path(mode, servers, << >>, a, b)
    PROVE  a = b
BY DEF Path

\* A path starts with the command at its position and goes on from the next.
LEMMA PathTail ==
    ASSUME NEW mode, NEW servers, NEW T, NEW s \in Seq(T), s # << >>, NEW a, NEW b,
           Path(mode, servers, s, a, b)
    PROVE  /\ a \in 1 .. 40
           /\ Head(s) = Command(FamOf(a), servers, RankOf(a))
           /\ Path(mode, servers, Tail(s), NextPos(mode, servers, a), b)
<1>0. Len(s) \in Nat /\ Len(s) >= 1 /\ Head(s) = s[1]
  OBVIOUS
<1>1. PICK pos \in [1 .. Len(s) + 1 -> 1 .. 41] :
        /\ pos[1] = a /\ pos[Len(s) + 1] = b
        /\ \A i \in 1 .. Len(s) :
             /\ pos[i] <= 40
             /\ s[i] = Command(FamOf(pos[i]), servers, RankOf(pos[i]))
             /\ pos[i + 1] = NextPos(mode, servers, pos[i])
  BY DEF Path
<1>2. 1 \in 1 .. Len(s) /\ 1 \in 1 .. Len(s) + 1
  BY <1>0, SMT
<1>2a. \A i \in 1 .. Len(s) + 1 : pos[i] \in 1 .. 41
  BY Zenon
<1>3. /\ a \in 1 .. 40 /\ Head(s) = Command(FamOf(a), servers, RankOf(a))
      /\ pos[2] = NextPos(mode, servers, a)
  <2>1. pos[1] <= 40 /\ s[1] = Command(FamOf(pos[1]), servers, RankOf(pos[1]))
        /\ pos[1 + 1] = NextPos(mode, servers, pos[1])
    BY <1>1, <1>2, Zenon
  <2>2. pos[1] \in 1 .. 41
    BY <1>2, <1>2a, Zenon
  <2>3. a \in 1 .. 40 /\ 1 + 1 = 2
    BY <1>1, <2>1, <2>2
  <2> QED BY <1>0, <1>1, <2>1, <2>3, Zenon
<1> DEFINE u == Tail(s)
           q == [i \in 1 .. Len(u) + 1 |-> pos[i + 1]]
<1>4. u \in Seq(T) /\ Len(u) = Len(s) - 1 /\ \A i \in 1 .. Len(u) : u[i] = s[i + 1]
  OBVIOUS
<1> HIDE DEF u
<1>5. q \in [1 .. Len(u) + 1 -> 1 .. 41]
  <2>1. \A i \in 1 .. Len(u) + 1 : i + 1 \in 1 .. Len(s) + 1
    BY <1>0, <1>4
  <2> QED BY <1>2a, <2>1, Zenon
<1>6. \A i \in 1 .. Len(u) + 1 : q[i] = pos[i + 1]
  OBVIOUS
<1> HIDE DEF q
<1>7. q[1] = NextPos(mode, servers, a) /\ q[Len(u) + 1] = b
  BY <1>0, <1>1, <1>3, <1>4, <1>6
<1>8. \A i \in 1 .. Len(u) :
        /\ q[i] <= 40
        /\ u[i] = Command(FamOf(q[i]), servers, RankOf(q[i]))
        /\ q[i + 1] = NextPos(mode, servers, q[i])
  <2> TAKE i \in 1 .. Len(u)
  <2>1. i + 1 \in 1 .. Len(s) /\ i \in 1 .. Len(u) + 1 /\ i + 1 \in 1 .. Len(u) + 1
    BY <1>0, <1>4
  <2>2. q[i] = pos[i + 1] /\ q[i + 1] = pos[(i + 1) + 1] /\ u[i] = s[i + 1]
    BY <1>4, <1>6, <2>1
  <2> QED BY <1>1, <2>1, <2>2
<1> QED BY <1>3, <1>5, <1>7, <1>8 DEF Path, u

\* One path after another is a path.
LEMMA PathConcat ==
    ASSUME NEW mode, NEW servers, NEW T, NEW s \in Seq(T), NEW u \in Seq(T),
           NEW a, NEW b, NEW c,
           Path(mode, servers, s, a, b), Path(mode, servers, u, b, c)
    PROVE  Path(mode, servers, s \o u, a, c)
<1>1. PICK p \in [1 .. Len(s) + 1 -> 1 .. 41] :
        /\ p[1] = a /\ p[Len(s) + 1] = b
        /\ \A i \in 1 .. Len(s) :
             /\ p[i] <= 40
             /\ s[i] = Command(FamOf(p[i]), servers, RankOf(p[i]))
             /\ p[i + 1] = NextPos(mode, servers, p[i])
  BY DEF Path
<1>2. PICK q \in [1 .. Len(u) + 1 -> 1 .. 41] :
        /\ q[1] = b /\ q[Len(u) + 1] = c
        /\ \A i \in 1 .. Len(u) :
             /\ q[i] <= 40
             /\ u[i] = Command(FamOf(q[i]), servers, RankOf(q[i]))
             /\ q[i + 1] = NextPos(mode, servers, q[i])
  BY DEF Path
<1> DEFINE w == s \o u
           m == Len(s)
           k == Len(u)
           z == [i \in 1 .. Len(w) + 1 |-> IF i <= m THEN p[i] ELSE q[i - m]]
<1>3. m \in Nat /\ k \in Nat /\ Len(w) = m + k
  OBVIOUS
<1>4. /\ \A i \in 1 .. m : w[i] = s[i]
      /\ \A i \in m + 1 .. m + k : w[i] = u[i - m]
  OBVIOUS
<1> HIDE DEF w, m, k
<1>5. z \in [1 .. Len(w) + 1 -> 1 .. 41]
  <2>1. \A i \in 1 .. m + 1 : p[i] \in 1 .. 41
    BY <1>3 DEF m
  <2>2. \A i \in 1 .. k + 1 : q[i] \in 1 .. 41
    BY <1>3 DEF k
  <2>3. \A i \in 1 .. Len(w) + 1 : IF i <= m THEN i \in 1 .. m + 1 ELSE i - m \in 1 .. k + 1
    BY <1>3
  <2>4. \A i \in 1 .. Len(w) + 1 : (IF i <= m THEN p[i] ELSE q[i - m]) \in 1 .. 41
    BY <2>1, <2>2, <2>3, Zenon
  <2> QED BY <2>4, Zenon
<1>6. /\ \A i \in 1 .. m : z[i] = p[i]
      /\ \A i \in m + 1 .. m + k + 1 : z[i] = q[i - m]
  BY <1>3
<1> HIDE DEF z
<1>7. z[m + 1] = b /\ p[m + 1] = b
  BY <1>1, <1>2, <1>3, <1>6 DEF m
<1>8. z[1] = a /\ z[Len(w) + 1] = c
  <2>1. z[Len(w) + 1] = c
    BY <1>2, <1>3, <1>6 DEF k
  <2>2. CASE m = 0
    BY <1>1, <1>7, <2>1, <2>2 DEF m
  <2>3. CASE m # 0
    BY <1>1, <1>3, <1>6, <2>1, <2>3
  <2> QED BY <2>1, <2>2, <2>3
<1>9. \A i \in 1 .. Len(w) :
        /\ z[i] <= 40
        /\ w[i] = Command(FamOf(z[i]), servers, RankOf(z[i]))
        /\ z[i + 1] = NextPos(mode, servers, z[i])
  <2> TAKE i \in 1 .. Len(w)
  <2>1. CASE i <= m
    <3>1. i \in 1 .. m /\ z[i] = p[i] /\ w[i] = s[i]
      BY <1>3, <1>4, <1>6, <2>1
    <3>2. z[i + 1] = p[i + 1]
      <4>1. CASE i = m
        BY <1>7, <4>1
      <4>2. CASE i # m
        BY <1>3, <1>6, <2>1, <4>2
      <4> QED BY <4>1, <4>2
    <3> QED BY <1>1, <3>1, <3>2 DEF m
  <2>2. CASE i > m
    <3>1. i - m \in 1 .. k /\ z[i] = q[i - m] /\ w[i] = u[i - m] /\ z[i + 1] = q[(i - m) + 1]
      <4>1. /\ i \in m + 1 .. m + k /\ i \in m + 1 .. m + k + 1 /\ i + 1 \in m + 1 .. m + k + 1
            /\ (i + 1) - m = (i - m) + 1 /\ i - m \in 1 .. k
        BY <1>3, <2>2
      <4> QED BY <1>4, <1>6, <4>1
    <3> QED BY <1>2, <3>1 DEF k
  <2> QED BY <1>3, <2>1, <2>2
<1> QED BY <1>5, <1>8, <1>9 DEF Path, w

\* The commands that remove a family's rules are the ranks 1 to 8.
LEMMA RemoveFamilyIs ==
    ASSUME NEW f, NEW servers
    PROVE  /\ Len(RemoveFamily(f)) = 8
           /\ \A i \in 1 .. 8 : RemoveFamily(f)[i] = Command(f, servers, i)
<1> DEFINE s == RemoveFamily(f)
<1>1. /\ s[1] = Command(f, servers, 1) /\ s[2] = Command(f, servers, 2)
      /\ s[3] = Command(f, servers, 3) /\ s[4] = Command(f, servers, 4)
      /\ s[5] = Command(f, servers, 5) /\ s[6] = Command(f, servers, 6)
      /\ s[7] = Command(f, servers, 7) /\ s[8] = Command(f, servers, 8)
  BY CommandIs DEF RemoveFamily
<1>2. Len(s) = 8
  BY DEF RemoveFamily
<1> HIDE DEF s
<1>3. \A i \in 1 .. 8 : s[i] = Command(f, servers, i)
  BY <1>1
<1> QED BY <1>2, <1>3 DEF s

\* Removing a family's rules is a path of eight positions.
LEMMA RemoveFamilyPath ==
    ASSUME NEW mode \in Modes, NEW servers, NEW f, NEW a, NEW b,
           \/ f = "v4" /\ a = 1 /\ b = 9
           \/ f = "v6" /\ a = 9 /\ b = IF mode = "apply" THEN 17 ELSE 41
    PROVE  Path(mode, servers, RemoveFamily(f), a, b)
<1> DEFINE s == RemoveFamily(f)
           pos == [i \in 1 .. Len(s) + 1 |-> IF i = 9 THEN b ELSE a + i - 1]
<1>1. Len(s) = 8 /\ \A i \in 1 .. 8 : s[i] = Command(f, servers, i)
  BY RemoveFamilyIs
<1> HIDE DEF s
<1>2. pos \in [1 .. Len(s) + 1 -> 1 .. 41] /\ pos[1] = a /\ pos[Len(s) + 1] = b
  BY <1>1
<1>3. \A i \in 1 .. 9 : pos[i] = IF i = 9 THEN b ELSE a + i - 1
  BY <1>1
<1> HIDE DEF pos
<1>4. ASSUME NEW i \in 1 .. 8
      PROVE  /\ pos[i] <= 40
             /\ s[i] = Command(FamOf(pos[i]), servers, RankOf(pos[i]))
             /\ pos[i + 1] = NextPos(mode, servers, pos[i])
  <2>1. pos[i] = a + i - 1 /\ pos[i] \in 1 .. 16
    BY <1>3
  <2>2. FamOf(pos[i]) = f /\ RankOf(pos[i]) = i
    BY <2>1 DEF FamOf, RankOf
  <2>3. pos[i + 1] = NextPos(mode, servers, pos[i])
    BY <1>3, <2>1 DEF NextPos, Modes
  <2> QED BY <1>1, <2>1, <2>2, <2>3
<1> QED BY <1>1, <1>2, <1>4 DEF Path, s

\* The pieces of the script that adds a family's rules.
LEMMA ApplyPieces ==
    ASSUME NEW servers, NEW f, NEW a,
           \/ f = "v4" /\ a = 8
           \/ f = "v6" /\ a = 20
    PROVE  LET needed == IF f = "v4" THEN "abort" ELSE "ignore"
               fourth == IF servers = {} \/ f \in servers THEN 14 ELSE 15
               last == IF f = "v4" THEN 29 ELSE 41
           IN  /\ Path("apply", servers,
                       << Cmd(f, "N", "RULES", IF f = "v4" THEN "abort" ELSE "skip"),
                          Cmd(f, "N", "PRE", "ignore"), Cmd(f, "A", "mark", "owner"),
                          Cmd(f, "A", "loopback", "ignore") >>, a + 9, a + fourth)
               /\ Path("apply", servers, DnsRules(f, servers), a + fourth, a + 15)
               /\ Path("apply", servers,
                       << Cmd(f, "A", "tcp", needed), Cmd(f, "A", "outTcp", needed),
                          Cmd(f, "A", "preTcp", "ignore") >>, a + 15,
                       IF servers = {} THEN a + 18 ELSE last)
               /\ Path("apply", servers, DnsHooks(f, servers),
                       IF servers = {} THEN a + 18 ELSE last, last)
<1> DEFINE needed == IF f = "v4" THEN "abort" ELSE "ignore"
           fourth == IF servers = {} \/ f \in servers THEN 14 ELSE 15
           last == IF f = "v4" THEN 29 ELSE 41
           hooks == IF servers = {} THEN a + 18 ELSE last
<1>1. \A r \in 9 .. 20 : FamOf(a + r) = f /\ RankOf(a + r) = r
  BY DEF FamOf, RankOf
<1>2. \A r \in 9 .. 20 : NextPos("apply", servers, a + r) =
          LET n == NextRank("apply", f, servers, r) IN IF n = 21 THEN last ELSE a + n
  BY <1>1 DEF NextPos, NextRank
<1>3. /\ NextRank("apply", f, servers, 9) = 10 /\ NextRank("apply", f, servers, 10) = 11
      /\ NextRank("apply", f, servers, 11) = 13 /\ NextRank("apply", f, servers, 13) = fourth
      /\ NextRank("apply", f, servers, 14) = 15 /\ NextRank("apply", f, servers, 15) = 16
      /\ NextRank("apply", f, servers, 16) = 17
      /\ NextRank("apply", f, servers, 17) = IF servers = {} THEN 18 ELSE 21
      /\ NextRank("apply", f, servers, 18) = 19 /\ NextRank("apply", f, servers, 19) = 20
      /\ NextRank("apply", f, servers, 20) = 21
  BY DEF NextRank
<1>4. Path("apply", servers,
                       << Cmd(f, "N", "RULES", IF f = "v4" THEN "abort" ELSE "skip"),
                          Cmd(f, "N", "PRE", "ignore"), Cmd(f, "A", "mark", "owner"),
                          Cmd(f, "A", "loopback", "ignore") >>, a + 9, a + fourth)
  <2> DEFINE s == << Cmd(f, "N", "RULES", IF f = "v4" THEN "abort" ELSE "skip"),
                     Cmd(f, "N", "PRE", "ignore"), Cmd(f, "A", "mark", "owner"),
                     Cmd(f, "A", "loopback", "ignore") >>
             pos == [i \in 1 .. 5 |-> IF i <= 3 THEN a + 8 + i ELSE IF i = 4 THEN a + 13 ELSE a + fourth]
  <2>1. Len(s) = 4 /\ s[1] = Command(f, servers, 9) /\ s[2] = Command(f, servers, 10)
        /\ s[3] = Command(f, servers, 11) /\ s[4] = Command(f, servers, 13)
    BY CommandIs
  <2> HIDE DEF s
  <2>2. pos \in [1 .. 5 -> 1 .. 41]
    OBVIOUS
  <2>3. pos[1] = a + 9 /\ pos[2] = a + 10 /\ pos[3] = a + 11 /\ pos[4] = a + 13 /\ pos[5] = a + fourth
    OBVIOUS
  <2> HIDE DEF pos, fourth, last
  <2>4. ASSUME NEW i \in 1 .. 4
        PROVE  /\ pos[i] <= 40
               /\ s[i] = Command(FamOf(pos[i]), servers, RankOf(pos[i]))
               /\ pos[i + 1] = NextPos("apply", servers, pos[i])
    <3>1. CASE i = 1
      BY <1>1, <1>2, <1>3, <2>1, <2>3, <3>1
    <3>2. CASE i = 2
      BY <1>1, <1>2, <1>3, <2>1, <2>3, <3>2
    <3>3. CASE i = 3
      BY <1>1, <1>2, <1>3, <2>1, <2>3, <3>3
    <3>4. CASE i = 4
      BY <1>1, <1>2, <1>3, <2>1, <2>3, <3>4 DEF fourth
    <3> QED BY <3>1, <3>2, <3>3, <3>4
  <2> QED BY <2>1, <2>2, <2>3, <2>4 DEF Path, s
<1>5. Path("apply", servers, DnsRules(f, servers), a + fourth, a + 15)
  <2>1. CASE servers = {} \/ f \in servers
    <3> DEFINE s == DnsRules(f, servers)
               pos == [i \in 1 .. 2 |-> a + 13 + i]
    <3>1. Len(s) = 1 /\ s[1] = Command(f, servers, 14)
      BY <2>1, CommandIs DEF DnsRules
    <3> HIDE DEF s
    <3>2. pos \in [1 .. 2 -> 1 .. 41] /\ pos[1] = a + 14 /\ pos[2] = a + 15
      OBVIOUS
    <3> HIDE DEF pos
    <3>3. \A i \in 1 .. 1 :
             /\ pos[i] <= 40
             /\ s[i] = Command(FamOf(pos[i]), servers, RankOf(pos[i]))
             /\ pos[i + 1] = NextPos("apply", servers, pos[i])
      BY <1>1, <1>2, <1>3, <3>1, <3>2
    <3> QED BY <2>1, <3>1, <3>2, <3>3 DEF Path, s
  <2>2. CASE ~(servers = {} \/ f \in servers)
    <3>1. DnsRules(f, servers) = << >> /\ fourth = 15 /\ a + 15 \in 1 .. 41
      BY <2>2 DEF DnsRules
    <3> QED BY <3>1, EmptyPath
  <2> QED BY <2>1, <2>2
<1>6. Path("apply", servers,
           << Cmd(f, "A", "tcp", needed), Cmd(f, "A", "outTcp", needed),
              Cmd(f, "A", "preTcp", "ignore") >>, a + 15, hooks)
<2> DEFINE s == << Cmd(f, "A", "tcp", needed), Cmd(f, "A", "outTcp", needed),
                     Cmd(f, "A", "preTcp", "ignore") >>
           pos == [i \in 1 .. 4 |-> IF i = 4 THEN hooks ELSE a + 14 + i]
<2>1. Len(s) = 3 /\ s[1] = Command(f, servers, 15) /\ s[2] = Command(f, servers, 16)
      /\ s[3] = Command(f, servers, 17)
  BY CommandIs
<2> HIDE DEF s
<2>2. pos \in [1 .. 4 -> 1 .. 41]
  OBVIOUS
<2>3. pos[1] = a + 15 /\ pos[2] = a + 16 /\ pos[3] = a + 17 /\ pos[4] = hooks
  OBVIOUS
<2> HIDE DEF pos, hooks
<2>4. ASSUME NEW i \in 1 .. 3
      PROVE  /\ pos[i] <= 40
             /\ s[i] = Command(FamOf(pos[i]), servers, RankOf(pos[i]))
             /\ pos[i + 1] = NextPos("apply", servers, pos[i])
  <3>1. CASE i = 1
    BY <1>1, <1>2, <1>3, <2>1, <2>3, <3>1
  <3>2. CASE i = 2
    BY <1>1, <1>2, <1>3, <2>1, <2>3, <3>2
  <3>3. CASE i = 3
    BY <1>1, <1>2, <1>3, <2>1, <2>3, <3>3 DEF hooks
  <3> QED BY <3>1, <3>2, <3>3
<2> QED BY <2>1, <2>2, <2>3, <2>4 DEF Path, s
<1>7. Path("apply", servers, DnsHooks(f, servers), hooks, last)
  <2>0. CASE servers = {}
  <3> DEFINE s == DnsHooks(f, servers)
             pos == [i \in 1 .. 4 |-> IF i = 4 THEN last ELSE a + 17 + i]
  <3>1. Len(s) = 3 /\ s[1] = Command(f, servers, 18) /\ s[2] = Command(f, servers, 19)
        /\ s[3] = Command(f, servers, 20)
    BY <2>0, CommandIs DEF DnsHooks
  <3> HIDE DEF s
  <3>2. pos \in [1 .. 4 -> 1 .. 41]
    OBVIOUS
  <3>3. pos[1] = a + 18 /\ pos[2] = a + 19 /\ pos[3] = a + 20 /\ pos[4] = last
    OBVIOUS
  <3> HIDE DEF pos, last
  <3>4. ASSUME NEW i \in 1 .. 3
        PROVE  /\ pos[i] <= 40
               /\ s[i] = Command(FamOf(pos[i]), servers, RankOf(pos[i]))
               /\ pos[i + 1] = NextPos("apply", servers, pos[i])
    <4>1. CASE i = 1
      BY <2>0, <1>1, <1>2, <1>3, <3>1, <3>3, <4>1
    <4>2. CASE i = 2
      BY <2>0, <1>1, <1>2, <1>3, <3>1, <3>3, <4>2
    <4>3. CASE i = 3
      BY <2>0, <1>1, <1>2, <1>3, <3>1, <3>3, <4>3 DEF last
    <4> QED BY <4>1, <4>2, <4>3
  <3>5. Path("apply", servers, s, a + 18, last)
    BY <3>1, <3>2, <3>3, <3>4 DEF Path
  <3>6. hooks = a + 18
    BY <2>0
  <3> HIDE DEF hooks
  <3> QED BY <3>5, <3>6 DEF s
  <2>1. CASE servers # {}
    <3>1. DnsHooks(f, servers) = << >> /\ hooks = last /\ last \in 1 .. 41
      BY <2>1 DEF DnsHooks
    <3> QED BY <3>1, EmptyPath
  <2> QED BY <2>0, <2>1
<1> QED BY <1>4, <1>5, <1>6, <1>7

\* The iptables commands of the scripts.
Commands == [fam : Families, op : {"N", "A", "D", "F", "X"}, at : Entries,
             onError : {"ignore", "owner", "skip", "abort"}]

\* A command is one.
LEMMA CmdType ==
    ASSUME NEW f \in Families, NEW op \in {"N", "A", "D", "F", "X"}, NEW e \in Entries,
           NEW onError \in {"ignore", "owner", "skip", "abort"}
    PROVE  Cmd(f, op, e, onError) \in Commands
BY DEF Cmd, Commands

\* The scripts consist of commands.
LEMMA ScriptTypes ==
    ASSUME NEW f \in Families, NEW servers
    PROVE  /\ RemoveFamily(f) \in Seq(Commands)
           /\ ApplyFamily(f, servers) \in Seq(Commands)
<1>1. RemoveFamily(f) \in Seq(Commands)
  BY CmdType, EntriesAre DEF RemoveFamily
<1>2. DnsRules(f, servers) \in Seq(Commands)
  BY CmdType, EntriesAre DEF DnsRules
<1>3. DnsHooks(f, servers) \in Seq(Commands)
  BY CmdType, EntriesAre DEF DnsHooks
<1>4. /\ << Cmd(f, "N", "RULES", IF f = "v4" THEN "abort" ELSE "skip"),
            Cmd(f, "N", "PRE", "ignore"), Cmd(f, "A", "mark", "owner"),
            Cmd(f, "A", "loopback", "ignore") >> \in Seq(Commands)
      /\ << Cmd(f, "A", "tcp", IF f = "v4" THEN "abort" ELSE "ignore"),
            Cmd(f, "A", "outTcp", IF f = "v4" THEN "abort" ELSE "ignore"),
            Cmd(f, "A", "preTcp", "ignore") >> \in Seq(Commands)
  BY CmdType, EntriesAre
<1> QED BY <1>1, <1>2, <1>3, <1>4 DEF ApplyFamily

\* The removal of both families' rules goes from the first position to the
\* first of the new rules, or to the end.
LEMMA RemovePath ==
    ASSUME NEW mode \in Modes, NEW servers
    PROVE  /\ removeIPTablesRules \in Seq(Commands)
           /\ Path(mode, servers, removeIPTablesRules, 1, IF mode = "apply" THEN 17 ELSE 41)
<1>1. "v4" \in Families /\ "v6" \in Families
  BY DEF Families
<1>2. RemoveFamily("v4") \in Seq(Commands) /\ RemoveFamily("v6") \in Seq(Commands)
  BY <1>1, ScriptTypes, Zenon
<1>3. Path(mode, servers, RemoveFamily("v4"), 1, 9)
  BY RemoveFamilyPath
<1>4. Path(mode, servers, RemoveFamily("v6"), 9, IF mode = "apply" THEN 17 ELSE 41)
  BY RemoveFamilyPath
<1>5. Path(mode, servers, RemoveFamily("v4") \o RemoveFamily("v6"), 1,
           IF mode = "apply" THEN 17 ELSE 41)
  BY <1>2, <1>3, <1>4, PathConcat, Zenon
<1> QED BY <1>2, <1>5 DEF removeIPTablesRules

\* The new rules of a family are a path through its positions.
LEMMA ApplyFamilyPath ==
    ASSUME NEW servers, NEW f \in Families
    PROVE  Path("apply", servers, ApplyFamily(f, servers), IF f = "v4" THEN 17 ELSE 29,
                IF f = "v4" THEN 29 ELSE 41)
<1> DEFINE needed == IF f = "v4" THEN "abort" ELSE "ignore"
           a == IF f = "v4" THEN 8 ELSE 20
           b == a + (IF servers = {} \/ f \in servers THEN 14 ELSE 15)
           last == IF f = "v4" THEN 29 ELSE 41
           hooks == IF servers = {} THEN a + 18 ELSE last
           s1 == << Cmd(f, "N", "RULES", IF f = "v4" THEN "abort" ELSE "skip"),
                    Cmd(f, "N", "PRE", "ignore"), Cmd(f, "A", "mark", "owner"),
                    Cmd(f, "A", "loopback", "ignore") >>
           s2 == DnsRules(f, servers)
           s3 == << Cmd(f, "A", "tcp", needed), Cmd(f, "A", "outTcp", needed),
                    Cmd(f, "A", "preTcp", "ignore") >>
           s4 == DnsHooks(f, servers)
<1>1. (f = "v4" /\ a = 8) \/ (f = "v6" /\ a = 20)
  BY DEF Families
<1>2. /\ Path("apply", servers, s1, a + 9, b)
      /\ Path("apply", servers, s2, b, a + 15)
      /\ Path("apply", servers, s3, a + 15, hooks)
      /\ Path("apply", servers, s4, hooks, last)
  <2> HIDE DEF a
  <2> QED BY <1>1, ApplyPieces, Zenon
<1>3. /\ s1 \in Seq(Commands) /\ s2 \in Seq(Commands)
      /\ s3 \in Seq(Commands) /\ s4 \in Seq(Commands)
  BY CmdType, EntriesAre DEF DnsRules, DnsHooks
<1>4. ApplyFamily(f, servers) = s1 \o s2 \o s3 \o s4
  BY DEF ApplyFamily
<1>5. a + 9 = IF f = "v4" THEN 17 ELSE 29
  OBVIOUS
<1> HIDE DEF a, b, hooks, s1, s2, s3, s4
<1>6. s1 \o s2 \in Seq(Commands) /\ Path("apply", servers, s1 \o s2, a + 9, a + 15)
  <2>1. s1 \o s2 \in Seq(Commands)
    BY <1>3
  <2> QED BY <1>2, <1>3, <2>1, PathConcat, Zenon
<1>7. s1 \o s2 \o s3 \in Seq(Commands) /\ Path("apply", servers, s1 \o s2 \o s3, a + 9, hooks)
  <2>1. s1 \o s2 \o s3 \in Seq(Commands)
    BY <1>3
  <2> QED BY <1>2, <1>3, <1>6, <2>1, PathConcat, Zenon
<1>8. Path("apply", servers, s1 \o s2 \o s3 \o s4, a + 9, last)
  BY <1>2, <1>3, <1>7, PathConcat, Zenon
<1> QED BY <1>4, <1>5, <1>8

\* applyIPTablesRules goes from the first position to the end.
LEMMA ApplyPath ==
    ASSUME NEW servers
    PROVE  /\ applyIPTablesRules(servers) \in Seq(Commands)
           /\ Path("apply", servers, applyIPTablesRules(servers), 1, 41)
<1> DEFINE r == removeIPTablesRules
           s4 == ApplyFamily("v4", servers)
           s6 == ApplyFamily("v6", servers)
<1>1. "v4" \in Families /\ "v6" \in Families /\ "apply" \in Modes
  BY DEF Families, Modes
<1>2. r \in Seq(Commands) /\ Path("apply", servers, r, 1, 17)
  BY <1>1, RemovePath
<1>3. s4 \in Seq(Commands) /\ s6 \in Seq(Commands)
  BY <1>1, ScriptTypes, Zenon
<1>4. Path("apply", servers, s4, 17, 29)
  BY <1>1, ApplyFamilyPath
<1>5. Path("apply", servers, s6, 29, 41)
  BY <1>1, ApplyFamilyPath
<1>6. applyIPTablesRules(servers) = r \o s4 \o s6
  BY DEF applyIPTablesRules
<1> HIDE DEF r, s4, s6
<1>7. r \o s4 \in Seq(Commands) /\ r \o s4 \o s6 \in Seq(Commands)
  BY <1>2, <1>3
<1>8. Path("apply", servers, r \o s4, 1, 29)
  BY <1>2, <1>3, <1>4, PathConcat, Zenon
<1>9. Path("apply", servers, r \o s4 \o s6, 1, 41)
  BY <1>3, <1>5, <1>7, <1>8, PathConcat, Zenon
<1> QED BY <1>6, <1>7, <1>9

-----------------------------------------------------------------------------
(* The inductive invariant.                                                *)

\* Who changes the tables, and which of main's flags go with where it is.
LifeOK ==
    /\ mu = "free" => cmds = << >> /\ main \notin {"applying", "removing", "cleaning"}
                      /\ reloader # "applying"
    /\ mu = "main" => main \in {"applying", "removing"} /\ reloader # "applying"
    /\ mu = "reload" => reloader = "applying" /\ main \in {"started", "running", "closing"}
                        /\ rulesApplied
    /\ mu = "cleanup" => main = "cleaning" /\ reloader # "applying"
    /\ main \in {"applying", "removing"} => mu = "main"
    /\ main = "cleaning" => mu = "cleanup"
    /\ reloader = "applying" => mu = "reload"
    /\ ~Up => reloader = "idle"
    /\ exit \in {"graceful", "fatal", "cleaned"} => ~Up
    /\ closed => main \in {"removing", "closed", "drained"}
    /\ rulesApplied => main \in {"started", "running", "closing", "removing"}
    /\ main = "removing" => rulesApplied
    /\ Up /\ ~isDryRun /\ ~listener => main = "drained"
    /\ Up /\ isDryRun /\ ~early =>
         /\ ~rulesApplied /\ main \notin {"applying", "removing"}
         /\ main = "loaded" => dryRun
    /\ reloads = 0 => reloader = "idle"
    /\ reloads = 0 /\ (rulesApplied \/ main = "applying") /\ main # "removing" =>
         dnsUDPConn \/ dnsServers # {}

TablesOK == \A f \in Families : TableOK(nat[f], failures)

\* What remains to be run is the rest of a script from some position on, and
\* the tables are where that position says.
ScriptOK(mode, servers, s, t, fl) ==
    \E g \in 1 .. 41 :
        /\ Path(mode, servers, s, g, 41)
        /\ \A f \in Families : Stage(mode, f, servers, t[f], At(mode, f, g), fl)

ProgressOK == mu # "free" => ScriptOK(Mode, dnsServers, cmds, nat, failures)

\* A gateway without rules redirects nothing, but for what a process left behind.
QuietOK == ~inherited /\ failures <= 1 /\ ~rulesApplied /\ main # "applying" => Unredirected

\* Without failures the rules are the ones for the current servers.
MatchOK ==
    failures = 0 /\ rulesApplied /\ mu = "free" /\ main \in {"started", "running", "closing"}
        => \A f \in Families : nat[f] = Wanted(f, dnsServers)

TypesOK == GatewayTypeOK /\ cmds \in Seq(Commands)

GatewayInv ==
    /\ TypesOK
    /\ LifeOK
    /\ TablesOK
    /\ ProgressOK
    /\ QuietOK
    /\ MatchOK

-----------------------------------------------------------------------------
(* Beginning and end of a script.                                          *)

\* Any tables are a place to begin.
LEMMA ScriptBegins ==
    ASSUME NEW mode \in Modes, NEW servers, NEW s, NEW t, NEW fl \in Nat,
           Path(mode, servers, s, 1, 41), \A f \in Families : TableOK(t[f], fl)
    PROVE  ScriptOK(mode, servers, s, t, fl)
<1>1. \A f \in Families : At(mode, f, 1) = 1
  BY DEF At
<1>2. ASSUME NEW f \in Families
      PROVE  Stage(mode, f, servers, t[f], 1, fl)
  BY DEF Stage, Valid, Removal, Building, Faultless, Phase, Modes
<1> QED BY <1>1, <1>2 DEF ScriptOK

\* After the last command the tables are at the end.
LEMMA ScriptEnds ==
    ASSUME NEW mode \in Modes, NEW servers, NEW t, NEW fl \in Nat,
           ScriptOK(mode, servers, << >>, t, fl)
    PROVE  \A f \in Families : Stage(mode, f, servers, t[f], 21, fl)
<1>1. \A f \in Families : At(mode, f, 41) = 21
  BY DEF At
<1>2. \A g \in 1 .. 41 : Path(mode, servers, << >>, g, 41) => g = 41
  BY NoPath, Zenon
<1> QED BY <1>1, <1>2, Zenon DEF ScriptOK

\* A removed chain redirects nothing, nor does one with no rules or no hooks.
LEMMA OffIsQuiet ==
    ASSUME NEW f \in Families, nat[f] \in [Entries -> Nat], RulesOff(nat[f]),
           PreOff(nat[f])
    PROVE  ~TcpRedirected(f) /\ ~DnsRedirected(f) /\ ~PreRedirected(f)
BY EntriesAre DEF RulesOff, PreOff, TcpRedirected, DnsRedirected, PreRedirected

\* After a removal nothing is redirected, even if one command failed.
LEMMA RemovalIsQuiet ==
    ASSUME TablesOK, failures \in Nat, failures <= 1, NEW servers,
           \A f \in Families : Stage("remove", f, servers, nat[f], 21, failures)
    PROVE  Unredirected
<1> SUFFICES ASSUME NEW f \in Families
             PROVE  ~TcpRedirected(f) /\ ~DnsRedirected(f) /\ ~PreRedirected(f)
  BY Zenon DEF Unredirected
<1>1. Stage("remove", f, servers, nat[f], 21, failures) /\ TableOK(nat[f], failures)
  BY Zenon DEF TablesOK
<1>2. nat[f] \in [Entries -> Nat] /\ RulesOff(nat[f]) /\ PreOff(nat[f])
  BY <1>1 DEF TableOK, KernelOK, Stage, Removal
<1> QED BY <1>2, OffIsQuiet

\* Where no command failed, the tables hold what is wanted after an application.
LEMMA ApplicationMatches ==
    ASSUME NEW f \in Families, NEW servers, NEW t \in [Entries -> Nat],
           Stage("apply", f, servers, t, 21, 0)
    PROVE  t = Wanted(f, servers)
<1> DEFINE w == Wanted(f, servers)
<1>1. Faultless("apply", f, servers, t, 21)
  BY DEF Stage
<1>2. /\ w = [e \in Entries |-> w[e]]
      /\ \A e \in Entries :
           w[e] = IF \/ e \in Chains \cup {"mark", "loopback", "tcp", "outTcp", "preTcp"}
                     \/ servers = {} /\ e \in {"dns", "outDns", "preRedirect", "preDns"}
                     \/ f \in servers /\ e = "bypass"
                  THEN 1 ELSE 0
  BY DEF Wanted
<1> HIDE DEF w
<1>3. \A e \in Entries : t[e] = w[e]
  BY <1>1, <1>2, EntriesAre DEF Faultless, Phase, Chains
<1> QED BY <1>2, <1>3 DEF w

-----------------------------------------------------------------------------
(* One command of a script.                                                *)

\* The script s is at position g.
Standing(mode, servers, s, t, fl, g) ==
    LET n == NextPos(mode, servers, g)
    IN  /\ FamOf(g) \in Families /\ RankOf(g) \in 1 .. 20
        /\ Head(s) = Command(FamOf(g), servers, RankOf(g))
        /\ Tail(s) \in Seq(Commands)
        /\ Path(mode, servers, Tail(s), n, 41)
        /\ n \in 1 .. 41
        /\ Stage(mode, FamOf(g), servers, t[FamOf(g)], RankOf(g), fl)
        /\ \A f \in Families : Stage(mode, f, servers, t[f], At(mode, f, g), fl)
        /\ At(mode, FamOf(g), n) = NextRank(mode, FamOf(g), servers, RankOf(g))
        /\ \A h \in Families : h # FamOf(g) => At(mode, h, n) = At(mode, h, g)

\* A script that is not over has a position, a family and a rank.
LEMMA ScriptAt ==
    ASSUME NEW mode \in Modes, NEW servers, NEW s \in Seq(Commands), s # << >>,
           NEW t, NEW fl \in Nat, ScriptOK(mode, servers, s, t, fl)
    PROVE  \E g \in 1 .. 40 : Standing(mode, servers, s, t, fl, g)
<1>1. PICK g \in 1 .. 41 :
        /\ Path(mode, servers, s, g, 41)
        /\ \A f \in Families : Stage(mode, f, servers, t[f], At(mode, f, g), fl)
  BY Zenon DEF ScriptOK
<1>2. /\ g \in 1 .. 40
      /\ Head(s) = Command(FamOf(g), servers, RankOf(g))
      /\ Path(mode, servers, Tail(s), NextPos(mode, servers, g), 41)
  BY <1>1, PathTail, Zenon
<1>3. FamOf(g) \in Families /\ RankOf(g) \in 1 .. 20 /\ At(mode, FamOf(g), g) = RankOf(g)
  BY <1>2, PositionIs, Zenon
<1>4. Stage(mode, FamOf(g), servers, t[FamOf(g)], RankOf(g), fl)
  BY <1>1, <1>3, Zenon
<1>5. Valid(mode, FamOf(g), servers, RankOf(g))
  BY <1>4, Zenon DEF Stage
<1>6. LET n == NextPos(mode, servers, g)
      IN  /\ n \in 1 .. 41
          /\ At(mode, FamOf(g), n) = NextRank(mode, FamOf(g), servers, RankOf(g))
          /\ \A h \in Families : h # FamOf(g) => At(mode, h, n) = At(mode, h, g)
  BY <1>2, <1>5, NextPosIs, Zenon
<1>7. Tail(s) \in Seq(Commands)
  OBVIOUS
<1> QED BY <1>1, <1>2, <1>3, <1>4, <1>6, <1>7, Zenon DEF Standing

\* Every rank is a natural number, at every position.
LEMMA StageRank ==
    ASSUME NEW mode, NEW f, NEW servers, NEW t, NEW p, NEW fl, Stage(mode, f, servers,
           t, p, fl)
    PROVE  p \in Nat /\ p \in 1 .. 21
BY DEF Stage, Valid

\* A command that succeeds.
LEMMA ScriptSucceeds ==
    ASSUME NEW mode \in Modes, NEW servers, NEW s \in Seq(Commands), s # << >>,
           NEW t \in [Families -> [Entries -> Nat]], NEW fl \in Nat,
           ScriptOK(mode, servers, s, t, fl), \A f \in Families : TableOK(t[f], fl),
           LET c == Head(s) IN ~Refused(t[c.fam], c.op, c.at)
    PROVE  LET c == Head(s)
               u == [t EXCEPT ![c.fam] = Effect(@, c.op, c.at)]
           IN  /\ ScriptOK(mode, servers, Tail(s), u, fl)
               /\ \A f \in Families : TableOK(u[f], fl)
<1> DEFINE c == Head(s)
           u == [t EXCEPT ![c.fam] = Effect(@, c.op, c.at)]
<1>a. PICK g \in 1 .. 40 : Standing(mode, servers, s, t, fl, g)
  BY ScriptAt, Zenon
<1>1. /\ FamOf(g) \in Families /\ RankOf(g) \in 1 .. 20
      /\ c = Command(FamOf(g), servers, RankOf(g))
      /\ Path(mode, servers, Tail(s), NextPos(mode, servers, g), 41)
      /\ NextPos(mode, servers, g) \in 1 .. 41
      /\ Stage(mode, FamOf(g), servers, t[FamOf(g)], RankOf(g), fl)
      /\ \A f \in Families : Stage(mode, f, servers, t[f], At(mode, f, g), fl)
      /\ At(mode, FamOf(g), NextPos(mode, servers, g))
           = NextRank(mode, FamOf(g), servers, RankOf(g))
      /\ \A h \in Families :
           h # FamOf(g) => At(mode, h, NextPos(mode, servers, g)) = At(mode, h, g)
  BY <1>a, Zenon DEF Standing
<1> DEFINE k == FamOf(g)
           r == RankOf(g)
           n == NextPos(mode, servers, g)
           v == Effect(t[k], c.op, c.at)
<1>2. c.fam = k
  <2>1. CommandFacts(k, servers, r, c)
    BY <1>1, CommandAt, Zenon
  <2> QED BY <2>1, Zenon DEF CommandFacts
<1>3. TableOK(v, fl) /\ Stage(mode, k, servers, v, NextRank(mode, k, servers, r), fl)
  <2> HIDE DEF k, r, c
  <2>1. ~Refused(t[k], c.op, c.at)
    BY <1>2, Zenon DEF c
  <2> QED BY <1>1, <2>1, SuccessStep, Zenon DEF k, r
<1>4. u = [t EXCEPT ![k] = v]
  BY <1>2
<1> HIDE DEF u, v, c, k, r, n
<1>5. u[k] = v /\ \A f \in Families : f # k => u[f] = t[f]
  BY <1>1, <1>4 DEF k
<1>6. \A f \in Families : TableOK(u[f], fl)
  BY <1>3, <1>5, Zenon
<1>7. \A f \in Families : Stage(mode, f, servers, u[f], At(mode, f, n), fl)
  <2> TAKE f \in Families
  <2>1. CASE f = k
    BY <1>1, <1>3, <1>5, <2>1, Zenon DEF k, r, n
  <2>2. CASE f # k
    BY <1>1, <1>5, <2>2, Zenon DEF k, n
  <2> QED BY <2>1, <2>2
<1>8. ScriptOK(mode, servers, Tail(s), u, fl)
  BY <1>1, <1>7, Zenon DEF ScriptOK, n
<1> QED BY <1>6, <1>8 DEF u, c

\* The tables of the other family as well are only weakened by a failure.
LEMMA AllWeaken ==
    ASSUME NEW mode, NEW servers, NEW t, NEW fl \in Nat, NEW fm \in Nat, fl <= fm,
           NEW f, NEW p, TableOK(t, fl), Stage(mode, f, servers, t, p, fl)
    PROVE  TableOK(t, fm) /\ Stage(mode, f, servers, t, p, fm)
BY StageRank, FailuresWeaken, Zenon

\* A command fails and the code goes on.
LEMMA ScriptFails ==
    ASSUME NEW mode \in Modes, NEW servers, NEW s \in Seq(Commands), s # << >>,
           NEW t, NEW fl \in Nat, NEW fm \in Nat,
           ScriptOK(mode, servers, s, t, fl), \A f \in Families : TableOK(t[f], fl),
           \/ fm = fl + 1
           \/ fm = fl /\ LET c == Head(s) IN Refused(t[c.fam], c.op, c.at),
           Head(s).onError # "abort"
    PROVE  LET c == Head(s)
               rest == CASE c.onError = "ignore" -> Tail(s)
                         [] c.onError = "owner" -> <<Cmd(c.fam, "A", "owner", "ignore")>> \o Tail(s)
                         [] c.onError = "skip" -> << >>
           IN  /\ rest \in Seq(Commands)
               /\ ScriptOK(mode, servers, rest, t, fm)
               /\ \A f \in Families : TableOK(t[f], fm)
<1> DEFINE c == Head(s)
           rest == CASE c.onError = "ignore" -> Tail(s)
                     [] c.onError = "owner" -> <<Cmd(c.fam, "A", "owner", "ignore")>> \o Tail(s)
                     [] c.onError = "skip" -> << >>
<1>a. PICK g \in 1 .. 40 : Standing(mode, servers, s, t, fl, g)
  BY ScriptAt, Zenon
<1>1. /\ FamOf(g) \in Families /\ RankOf(g) \in 1 .. 20
      /\ c = Command(FamOf(g), servers, RankOf(g))
      /\ Tail(s) \in Seq(Commands)
      /\ Path(mode, servers, Tail(s), NextPos(mode, servers, g), 41)
      /\ NextPos(mode, servers, g) \in 1 .. 41
      /\ Stage(mode, FamOf(g), servers, t[FamOf(g)], RankOf(g), fl)
      /\ \A f \in Families : Stage(mode, f, servers, t[f], At(mode, f, g), fl)
      /\ At(mode, FamOf(g), NextPos(mode, servers, g))
           = NextRank(mode, FamOf(g), servers, RankOf(g))
      /\ \A h \in Families :
           h # FamOf(g) => At(mode, h, NextPos(mode, servers, g)) = At(mode, h, g)
  BY <1>a, Zenon DEF Standing
<1> DEFINE k == FamOf(g)
           r == RankOf(g)
           n == NextPos(mode, servers, g)
<1>2. /\ c.fam = k
      /\ c.onError \in {"ignore", "owner", "skip", "abort"}
      /\ c.onError = "owner" <=> r = 11
      /\ c.onError = "skip" <=> r = 9 /\ k = "v6"
      /\ c.onError = "abort" <=> r \in {9, 15, 16} /\ k = "v4"
      /\ c.op = Command(k, servers, r).op /\ c.at = Command(k, servers, r).at
      /\ r = 11 => c.op = "A" /\ c.at = "mark"
      /\ r = 9 => c.op = "N" /\ c.at = "RULES"
  <2> HIDE DEF k, r, c
  <2>1. CommandFacts(k, servers, r, c) /\ c = Command(k, servers, r)
    BY <1>1, CommandAt, Zenon DEF k, r, c
  <2> QED BY <2>1 DEF CommandFacts, Adds
<1>3. \/ fm = fl + 1
      \/ fm = fl /\ Refused(t[k], c.op, c.at)
  <2> HIDE DEF k
  <2> QED BY <1>2 DEF c
<1>4. fl <= fm
  BY <1>3
<1> HIDE DEF c, k, r, n
<1>5. \A f \in Families : /\ TableOK(t[f], fm)
                          /\ Stage(mode, f, servers, t[f], At(mode, f, g), fm)
  BY <1>1, <1>4, AllWeaken, Zenon
<1>6. CASE c.onError = "ignore"
  <2>1. r \notin {9, 11} /\ r \in 1 .. 20 /\ k \in Families
    BY <1>1, <1>2, <1>6 DEF r, k, Families
  <2>2. /\ TableOK(t[k], fl) /\ Stage(mode, k, servers, t[k], r, fl)
        /\ \/ fm = fl + 1
           \/ fm = fl /\ LET d == Command(k, servers, r) IN Refused(t[k], d.op, d.at)
    BY <1>1, <1>2, <1>3, Zenon DEF k, r
  <2>3. Stage(mode, k, servers, t[k], NextRank(mode, k, servers, r), fm)
    BY <2>1, <2>2, IgnoredStep, Zenon
  <2>4. \A f \in Families : Stage(mode, f, servers, t[f], At(mode, f, n), fm)
    <3> TAKE f \in Families
    <3>1. CASE f = k
      BY <1>1, <2>3, <3>1, Zenon DEF k, r, n
    <3>2. CASE f # k
      BY <1>1, <1>5, <3>2, Zenon DEF k, n
    <3> QED BY <3>1, <3>2
  <2>5. rest = Tail(s)
    BY <1>6
  <2> HIDE DEF rest
  <2>6. ScriptOK(mode, servers, rest, t, fm)
    BY <1>1, <2>4, <2>5, Zenon DEF ScriptOK, n
  <2> QED BY <1>1, <1>5, <2>5, <2>6, Zenon DEF rest, c
<1>7. CASE c.onError = "owner"
  <2> DEFINE o == <<Cmd(k, "A", "owner", "ignore")>>
  <2>1. r = 11 /\ k \in Families
    BY <1>1, <1>2, <1>7, Zenon DEF k
  <2>2. /\ g + 1 \in 1 .. 40
        /\ FamOf(g + 1) = k /\ RankOf(g + 1) = 12
        /\ NextPos(mode, servers, g + 1) = n
        /\ At(mode, k, g + 1) = 12
        /\ \A h \in Families : h # k => At(mode, h, g + 1) = At(mode, h, g)
    BY <2>1, OwnerPosIs, Zenon DEF k, r, n
  <2>3. Stage(mode, k, servers, t[k], 12, fm)
    <3>1. TableOK(t[k], fl) /\ Stage(mode, k, servers, t[k], 11, fl)
      BY <1>1, <2>1, Zenon DEF k, r
    <3>2. fm = fl + 1 \/ (fm = fl /\ Refused(t[k], "A", "mark"))
      BY <1>2, <1>3, <2>1, Zenon
    <3> QED BY <2>1, <3>1, <3>2, OwnerStep, Zenon
  <2>4. \A f \in Families : Stage(mode, f, servers, t[f], At(mode, f, g + 1), fm)
    <3> TAKE f \in Families
    <3>1. CASE f = k
      BY <2>2, <2>3, <3>1, Zenon
    <3>2. CASE f # k
      BY <1>5, <2>2, <3>2, Zenon
    <3> QED BY <3>1, <3>2
  <2>5. o \in Seq(Commands) /\ Cmd(k, "A", "owner", "ignore") = Command(k, servers, 12)
    BY <2>1, CmdType, CommandIs, EntriesAre
  <2>6. Path(mode, servers, o, g + 1, n)
    <3> DEFINE pos == [i \in 1 .. 2 |-> IF i = 1 THEN g + 1 ELSE n]
    <3>0. n \in 1 .. 41 /\ g + 1 \in 1 .. 41 /\ g + 1 <= 40
      BY <1>1, <2>2, SMT DEF n
    <3>1. Len(o) = 1 /\ o[1] = Command(k, servers, 12)
      BY <2>5
    <3>2. pos \in [1 .. 2 -> 1 .. 41] /\ pos[1] = g + 1 /\ pos[2] = n
      BY <3>0
    <3> HIDE DEF pos, o
    <3>3. ASSUME NEW i \in 1 .. 1
          PROVE  /\ pos[i] <= 40
                 /\ o[i] = Command(FamOf(pos[i]), servers, RankOf(pos[i]))
                 /\ pos[i + 1] = NextPos(mode, servers, pos[i])
      <4>1. i = 1 /\ i + 1 = 2
        OBVIOUS
      <4> QED BY <2>2, <3>0, <3>1, <3>2, <4>1, Zenon
    <3> QED BY <3>1, <3>2, <3>3 DEF Path
  <2>7. rest = o \o Tail(s)
    <3>1. rest = <<Cmd(c.fam, "A", "owner", "ignore")>> \o Tail(s)
      BY <1>7
    <3> QED BY <1>2, <3>1, Zenon
  <2> HIDE DEF rest, o
  <2>8. Path(mode, servers, rest, g + 1, 41)
    BY <1>1, <2>5, <2>6, <2>7, PathConcat, Zenon DEF n
  <2>9. rest \in Seq(Commands)
    BY <1>1, <2>5, <2>7
  <2>10. g + 1 \in 1 .. 41
    BY <2>2
  <2>11. ScriptOK(mode, servers, rest, t, fm)
    BY <2>4, <2>8, <2>10, Zenon DEF ScriptOK
  <2> QED BY <1>5, <2>9, <2>11, Zenon DEF rest, c
<1>8. CASE c.onError = "skip"
  <2>1. r = 9 /\ k = "v6"
    BY <1>2, <1>8, Zenon
  <2>2. At(mode, "v6", 41) = 21 /\ At(mode, "v4", 41) = At(mode, "v4", g)
    BY <2>1, SkipPosIs, Zenon DEF k, r
  <2>3. Stage(mode, "v6", servers, t["v6"], 21, fm)
    <3>1. TableOK(t["v6"], fl) /\ Stage(mode, "v6", servers, t["v6"], 9, fl) /\ k \in Families
      BY <1>1, <2>1, Zenon DEF k, r
    <3>2. fm = fl + 1 \/ (fm = fl /\ Refused(t["v6"], "N", "RULES"))
      BY <1>2, <1>3, <2>1, Zenon
    <3> QED BY <2>1, <3>1, <3>2, SkipStep, Zenon
  <2>4. \A f \in Families : Stage(mode, f, servers, t[f], At(mode, f, 41), fm)
    <3> TAKE f \in Families
    <3>1. CASE f = "v6"
      BY <2>2, <2>3, <3>1, Zenon
    <3>2. CASE f = "v4"
      BY <1>5, <2>2, <3>2, Zenon
    <3> QED BY <3>1, <3>2 DEF Families
  <2>5. rest = << >>
    BY <1>8
  <2>6. 41 \in 1 .. 41
    OBVIOUS
  <2>7. Path(mode, servers, << >>, 41, 41)
    BY <2>6, EmptyPath, Zenon
  <2> HIDE DEF rest
  <2>8. rest \in Seq(Commands)
    BY <2>5
  <2>9. ScriptOK(mode, servers, rest, t, fm)
    BY <2>4, <2>5, <2>6, <2>7, Zenon DEF ScriptOK
  <2> QED BY <1>5, <2>8, <2>9, Zenon DEF rest, c
<1>9. c.onError # "abort"
  BY DEF c
<1> QED BY <1>2, <1>6, <1>7, <1>8, <1>9, Zenon

\* What a removal is made of.
LEMMA RemovalCommands ==
    ASSUME NEW servers, NEW s \in Seq(Commands), s # << >>, NEW t, NEW fl \in Nat,
           ScriptOK("remove", servers, s, t, fl)
    PROVE  /\ Head(s).op \in {"D", "F", "X"}
           /\ Head(s).op = "F" => Head(s).at \in Chains
           /\ Head(s).onError = "ignore"
<1>0. "remove" \in Modes
  BY DEF Modes
<1>a. PICK g \in 1 .. 40 : Standing("remove", servers, s, t, fl, g)
  BY <1>0, ScriptAt, Zenon
<1>1. /\ FamOf(g) \in Families /\ RankOf(g) \in 1 .. 20
      /\ Head(s) = Command(FamOf(g), servers, RankOf(g))
      /\ Stage("remove", FamOf(g), servers, t[FamOf(g)], RankOf(g), fl)
  BY <1>a, Zenon DEF Standing
<1>2. RankOf(g) \in 1 .. 8
  BY <1>1 DEF Stage, Valid
<1>3. CommandFacts(FamOf(g), servers, RankOf(g), Head(s))
  BY <1>1, CommandAt, Zenon
<1> DEFINE r == RankOf(g)
           c == Head(s)
<1> HIDE DEF r, c
<1>4. CommandFacts(FamOf(g), servers, r, c) /\ r \in 1 .. 8
  BY <1>2, <1>3, Zenon DEF r, c
<1>5. c.op \in {"D", "F", "X"} /\ (c.op = "F" => c.at \in Chains)
  BY <1>4 DEF CommandFacts, Chains
<1>6. c.onError = "ignore"
  BY <1>4 DEF CommandFacts
<1> QED BY <1>5, <1>6, Zenon DEF c

\* When the code gives up, nothing of its rules redirects yet.
LEMMA AbortIsQuiet ==
    ASSUME NEW mode \in Modes, NEW servers, NEW s \in Seq(Commands), s # << >>, NEW t,
           NEW fl \in Nat,
           ScriptOK(mode, servers, s, t, fl), \A f \in Families : TableOK(t[f], fl),
           Head(s).onError = "abort"
    PROVE  /\ mode = "apply"
           /\ fl <= 1 => \A f \in Families : RulesOff(t[f]) /\ PreOff(t[f])
<1>a. PICK g \in 1 .. 40 : Standing(mode, servers, s, t, fl, g)
  BY ScriptAt, Zenon
<1>1. /\ FamOf(g) \in Families /\ RankOf(g) \in 1 .. 20
      /\ Head(s) = Command(FamOf(g), servers, RankOf(g))
      /\ Stage(mode, FamOf(g), servers, t[FamOf(g)], RankOf(g), fl)
      /\ \A f \in Families : Stage(mode, f, servers, t[f], At(mode, f, g), fl)
  BY <1>a, Zenon DEF Standing
<1>2. RankOf(g) \in {9, 15, 16} /\ FamOf(g) = "v4"
  <2>1. CommandFacts(FamOf(g), servers, RankOf(g), Head(s))
    BY <1>1, CommandAt, Zenon
  <2> QED BY <2>1 DEF CommandFacts
<1>3. mode = "apply"
  BY <1>1, <1>2 DEF Stage, Valid
<1>4. g \in 17 .. 28
  BY <1>2, <1>3 DEF RankOf, FamOf
<1>5. At(mode, "v6", g) = 9
  BY <1>4 DEF At
<1>6. ASSUME fl <= 1
      PROVE  RulesOff(t["v4"]) /\ PreOff(t["v4"])
  <2>1. Stage(mode, "v4", servers, t["v4"], RankOf(g), fl)
    BY <1>1, <1>2, Zenon
  <2> QED BY <1>2, <1>3, <1>6, <2>1 DEF Stage, Removal, Building, RulesOff
<1>7. ASSUME fl <= 1
      PROVE  RulesOff(t["v6"]) /\ PreOff(t["v6"])
  <2>1. Stage(mode, "v6", servers, t["v6"], 9, fl)
    BY <1>1, <1>5, Zenon DEF Families
  <2> QED BY <1>7, <2>1 DEF Stage, Removal
<1> QED BY <1>3, <1>6, <1>7 DEF Families

-----------------------------------------------------------------------------
(* The steps.                                                              *)

\* The flags of main and of the reload callback.
LEMMA LifeStep ==
    ASSUME GatewayTypeOK, LifeOK, [GatewayNext]_gatewayVars
    PROVE  LifeOK'
<1> USE DEF LifeOK, Up
<1>1. CASE Launch
  BY <1>1 DEF Launch, process, redirector, callback, faults, Config
<1>2. CASE Signal
  BY <1>2 DEF Signal, process, redirector, callback, faults
<1>3. CASE Die
  BY <1>3 DEF Die, process, redirector, callback, faults, ProcessEnds
<1>4. CASE CleanupIPTables
  BY <1>4 DEF CleanupIPTables, process, redirector, callback, faults
<1>5. CASE Start
  <2>1. CASE main' = "started"
    BY <1>5, <2>1 DEF Start, process, redirector, callback, faults, ProcessEnds
  <2>2. CASE main' = "down"
    BY <1>5, <2>2 DEF Start, process, redirector, callback, faults, ProcessEnds
  <2>3. CASE main' = "applying"
    <3>1. dnsUDPConn' \/ dnsServers' # {}
      BY <1>5, <2>3, Zenon DEF Start, process, redirector, callback, faults, ProcessEnds
    <3> QED BY <1>5, <2>3, <3>1 DEF Start, process, redirector, callback, faults,
               ProcessEnds
  <2>4. main' \in {"started", "down", "applying"}
    BY <1>5 DEF Start, ProcessEnds
  <2> QED BY <2>1, <2>2, <2>3, <2>4
<1>6. CASE Started
  BY <1>6 DEF Started, process, redirector, callback, faults
<1>7. CASE Notify
  BY <1>7 DEF Notify, process, redirector, callback, faults
<1>8. CASE Close
  BY <1>8 DEF Close, process, redirector, callback, faults
<1>9. CASE Removed
  BY <1>9 DEF Removed, process, redirector, callback, faults
<1>10. CASE ServerClose
  BY <1>10 DEF ServerClose, process, redirector, callback, faults
<1>11. CASE Exit
  BY <1>11 DEF Exit, process, redirector, callback, faults, ProcessEnds
<1>12. CASE Reload
  <2>1. reloads' # 0
    BY <1>12, GatewayAssumption DEF Reload, GatewayTypeOK
  <2> QED BY <1>12, <2>1, Zenon DEF Reload, process, redirector, callback, faults
<1>13. CASE SetDNSServers
  BY <1>13 DEF SetDNSServers, process, redirector, callback, faults
<1>14. CASE Reapplied
  BY <1>14 DEF Reapplied, process, redirector, callback, faults
<1>15. CASE SetDryRun
  BY <1>15 DEF SetDryRun, process, redirector, callback, faults
<1>16. CASE execCmd
  BY <1>16 DEF execCmd, process, redirector, callback, faults
<1>17. CASE applyFails
  BY <1>17 DEF applyFails, process, redirector, callback, faults, ProcessEnds
<1>18. CASE UNCHANGED gatewayVars
  BY <1>18 DEF gatewayVars, process, redirector, callback, faults
<1> QED BY <1>1, <1>2, <1>3, <1>4, <1>5, <1>6, <1>7, <1>8, <1>9, <1>10, <1>11, <1>12,
           <1>13, <1>14, <1>15, <1>16, <1>17, <1>18 DEF GatewayNext, MainStep,
           ReloadStep

\* The types the step lemmas use.
LEMMA BasicTypes ==
    ASSUME TypesOK
    PROVE  /\ nat \in [Families -> [Entries -> Nat]]
           /\ failures \in Nat /\ cmds \in Seq(Commands)
           /\ Mode \in Modes
           /\ mu \in {"free", "main", "reload", "cleanup"}
BY GatewayAssumption DEF TypesOK, GatewayTypeOK, Mode, Modes

\* What a step leaves of the tables and of the script that changes them.
ScriptKept ==
    /\ nat' \in [Families -> [Entries -> Nat]]
    /\ failures' \in Nat
    /\ cmds' \in Seq(Commands)
    /\ TablesOK'
    /\ ProgressOK'

\* A step without a command keeps the tables, and the script if it goes on.
LEMMA NoCommand ==
    ASSUME GatewayInv, UNCHANGED <<nat, failures>>,
           \/ cmds' = << >> /\ mu' = "free"
           \/ UNCHANGED <<cmds, mu, dnsServers, Mode>>
           \/ cmds' = cmds /\ mu' = "free"
    PROVE  ScriptKept
<1>1. /\ nat' \in [Families -> [Entries -> Nat]] /\ failures' \in Nat
  BY BasicTypes DEF GatewayInv
<1>2. << >> \in Seq(Commands)
  OBVIOUS
<1>3. cmds' \in Seq(Commands)
  BY <1>2, BasicTypes, Zenon DEF GatewayInv
<1>4. TablesOK'
  BY Zenon DEF GatewayInv, TablesOK
<1>5. ProgressOK'
  BY Zenon DEF GatewayInv, ProgressOK
<1> QED BY <1>1, <1>3, <1>4, <1>5 DEF ScriptKept

\* A step that begins a script, with Mode' its mode.
LEMMA ScriptStarts ==
    ASSUME GatewayInv, UNCHANGED <<nat, failures>>,
           cmds' \in Seq(Commands),
           Mode' \in Modes,
           Path(Mode', dnsServers', cmds', 1, 41)
    PROVE  ScriptKept
<1>1. /\ nat' \in [Families -> [Entries -> Nat]] /\ failures' \in Nat
  BY BasicTypes DEF GatewayInv
<1>2. TablesOK'
  BY Zenon DEF GatewayInv, TablesOK
<1>3. \A f \in Families : TableOK(nat'[f], failures')
  BY <1>2, Zenon DEF TablesOK
<1>4. ScriptOK(Mode', dnsServers', cmds', nat', failures')
  BY <1>1, <1>3, ScriptBegins, Zenon
<1>5. ProgressOK'
  BY <1>4, Zenon DEF ProgressOK
<1> QED BY <1>1, <1>2, <1>5, Zenon DEF ScriptKept

\* A command that is run while somebody holds the mutex.
LEMMA CommandRuns ==
    ASSUME GatewayInv, execCmd
    PROVE  ScriptKept
<1>1. /\ nat \in [Families -> [Entries -> Nat]]
      /\ failures \in Nat /\ cmds \in Seq(Commands)
      /\ Mode \in Modes
  BY BasicTypes, Zenon DEF GatewayInv
<1>2. cmds # << >> /\ mu # "free"
  BY Zenon DEF execCmd, GatewayInv, LifeOK
<1>3. /\ ScriptOK(Mode, dnsServers, cmds, nat, failures)
      /\ \A f \in Families : TableOK(nat[f], failures)
  BY <1>2, Zenon DEF GatewayInv, ProgressOK, TablesOK
<1>4. UNCHANGED <<mu, dnsServers, Mode>>
  BY Zenon DEF execCmd, redirector, Mode
<1> DEFINE c == Head(cmds)
           u == [nat EXCEPT ![c.fam] = Effect(@, c.op, c.at)]
<1>5. CASE /\ ~Refused(nat[c.fam], c.op, c.at)
           /\ nat' = u
           /\ cmds' = Tail(cmds)
           /\ UNCHANGED failures
  <2>1. /\ ScriptOK(Mode, dnsServers, Tail(cmds), u, failures)
        /\ \A f \in Families : TableOK(u[f], failures)
    BY <1>1, <1>2, <1>3, <1>5, ScriptSucceeds, Zenon
  <2>2. nat' \in [Families -> [Entries -> Nat]]
    <3>1. \A f \in Families : u[f] \in [Entries -> Nat]
      BY <2>1, Zenon DEF TableOK, KernelOK
    <3>2. u = [f \in Families |-> u[f]]
      BY <1>1
    <3> HIDE DEF u
    <3> QED BY <1>5, <3>1, <3>2, Zenon
  <2>3. cmds' \in Seq(Commands)
    BY <1>1, <1>2, <1>5
  <2> HIDE DEF u, c
  <2> QED BY <1>1, <1>4, <1>5, <2>1, <2>2, <2>3, Zenon DEF ScriptKept, TablesOK,
             ProgressOK
<1>6. CASE /\ c.onError # "abort"
           /\ Fails(c)
           /\ cmds' = AfterFailure(c)
           /\ UNCHANGED nat
  <2>1. /\ failures' \in Nat
        /\ \/ failures' = failures + 1
           \/ failures' = failures /\ Refused(nat[c.fam], c.op, c.at)
    <3>1. failures + 1 \in Nat
      BY <1>1
    <3> QED BY <1>1, <1>6, <3>1, Zenon DEF Fails
  <2>2. /\ cmds' \in Seq(Commands)
        /\ ScriptOK(Mode, dnsServers, cmds', nat, failures')
        /\ \A f \in Families : TableOK(nat[f], failures')
    <3> DEFINE rest == CASE c.onError = "ignore" -> Tail(cmds)
                         [] c.onError = "owner" -> <<Cmd(c.fam, "A", "owner", "ignore")>> \o Tail(cmds)
                         [] c.onError = "skip" -> << >>
    <3>1. cmds' = rest
      BY <1>6 DEF AfterFailure
    <3>2. /\ rest \in Seq(Commands)
          /\ ScriptOK(Mode, dnsServers, rest, nat, failures')
          /\ \A f \in Families : TableOK(nat[f], failures')
      BY <1>1, <1>2, <1>3, <1>6, <2>1, ScriptFails, Zenon
    <3> HIDE DEF rest
    <3> QED BY <3>1, <3>2, Zenon
  <2> QED BY <1>1, <1>4, <1>6, <2>1, <2>2, Zenon DEF ScriptKept, TablesOK, ProgressOK
<1> QED BY <1>5, <1>6 DEF execCmd

\* The tables and the scripts, step by step.
LEMMA ScriptStep ==
    ASSUME GatewayInv, [GatewayNext]_gatewayVars
    PROVE  ScriptKept
<1>a. "apply" \in Modes /\ "remove" \in Modes
  BY DEF Modes
<1>b. /\ mu = "free" => cmds = << >> /\ main \notin {"applying", "removing", "cleaning"}
                        /\ reloader # "applying"
      /\ mu = "main" => main \in {"applying", "removing"}
      /\ mu = "reload" => reloader = "applying" /\ main \in {"started", "running", "closing"}
      /\ mu = "cleanup" => main = "cleaning"
      /\ mu \in {"free", "main", "reload", "cleanup"}
  BY BasicTypes DEF GatewayInv, LifeOK
<1>1. CASE execCmd
  BY <1>1, CommandRuns
<1>2. CASE applyFails
  <2>1. failures' \in Nat /\ failures <= failures' /\ failures \in Nat
    BY <1>2, BasicTypes DEF GatewayInv, applyFails, Fails
  <2>2. TablesOK'
    <3>1. UNCHANGED nat
      BY <1>2, Zenon DEF applyFails
    <3>2. ASSUME NEW f \in Families PROVE TableOK(nat'[f], failures')
      <4>1. TableOK(nat[f], failures)
        BY Zenon DEF GatewayInv, TablesOK
      <4> QED BY <2>1, <3>1, <4>1 DEF TableOK, KernelOK, Guarded, Single
    <3> QED BY <3>2 DEF TablesOK
  <2>3. mu' = "free" /\ cmds' = << >> /\ nat' = nat
    BY <1>2, Zenon DEF applyFails, ProcessEnds
  <2>4. ProgressOK' /\ cmds' \in Seq(Commands)
    BY <2>3 DEF ProgressOK
  <2> QED BY <2>1, <2>2, <2>3, <2>4, BasicTypes DEF ScriptKept, GatewayInv
<1>3. CASE Start
  <2>1. UNCHANGED <<nat, failures>>
    BY <1>3 DEF Start, faults
  <2>2. CASE main' = "applying"
    <3>1. cmds' = applyIPTablesRules(dnsServers) /\ dnsServers' = dnsServers
      BY <1>3, <2>2 DEF Start, ProcessEnds
    <3>2. Mode' = "apply"
      BY <2>2 DEF Mode
    <3>3. cmds' \in Seq(Commands) /\ Path(Mode', dnsServers', cmds', 1, 41)
      BY <3>1, <3>2, ApplyPath, Zenon
    <3> QED BY <1>a, <2>1, <3>2, <3>3, ScriptStarts, Zenon
  <2>3. CASE main' # "applying"
    <3>1. mu' = "free" /\ (cmds' = << >> \/ cmds' = cmds)
      BY <1>3, <2>3 DEF Start, ProcessEnds
    <3> QED BY <2>1, <3>1, NoCommand, Zenon
  <2> QED BY <2>2, <2>3
<1>4. CASE Close
  <2>1. UNCHANGED <<nat, failures>>
    BY <1>4 DEF Close, faults
  <2>2. CASE rulesApplied
    <3>1. cmds' = removeIPTablesRules /\ Mode' = "remove"
      BY <1>4, <2>2 DEF Close, Mode
    <3>2. cmds' \in Seq(Commands) /\ Path("remove", dnsServers', cmds', 1, 41)
      BY <1>a, <3>1, RemovePath
    <3> QED BY <1>a, <2>1, <3>1, <3>2, ScriptStarts, Zenon
  <2>3. CASE ~rulesApplied
    <3>1. cmds' = cmds /\ mu' = "free"
      BY <1>4, <2>3 DEF Close
    <3> QED BY <2>1, <3>1, NoCommand, Zenon
  <2> QED BY <2>2, <2>3
<1>5. CASE CleanupIPTables
  <2>1. UNCHANGED <<nat, failures>>
    BY <1>5 DEF CleanupIPTables, faults
  <2>2. CASE main' = "cleaning"
    <3>1. cmds' = removeIPTablesRules /\ Mode' = "remove"
      BY <1>5, <2>2 DEF CleanupIPTables, Mode
    <3>2. cmds' \in Seq(Commands) /\ Path("remove", dnsServers', cmds', 1, 41)
      BY <1>a, <3>1, RemovePath
    <3> QED BY <1>a, <2>1, <3>1, <3>2, ScriptStarts, Zenon
  <2>3. CASE main' # "cleaning"
    <3>1. cmds' = cmds /\ mu' = "free"
      BY <1>5, <2>3 DEF CleanupIPTables
    <3> QED BY <2>1, <3>1, NoCommand, Zenon
  <2> QED BY <2>2, <2>3
<1>6. CASE SetDNSServers
  <2>1. UNCHANGED <<nat, failures>>
    BY <1>6 DEF SetDNSServers, faults
  <2>2. CASE rulesApplied /\ ~closed
    <3>1. cmds' = applyIPTablesRules(newCfg.dns) /\ dnsServers' = newCfg.dns /\ UNCHANGED main
          /\ mu = "free"
      BY <1>6, <2>2 DEF SetDNSServers
    <3>2. Mode' = "apply"
      BY <1>b, <3>1 DEF Mode
    <3>3. cmds' \in Seq(Commands) /\ Path(Mode', dnsServers', cmds', 1, 41)
      BY <3>1, <3>2, ApplyPath, Zenon
    <3> QED BY <1>a, <2>1, <3>2, <3>3, ScriptStarts, Zenon
  <2>3. CASE ~(rulesApplied /\ ~closed)
    <3>1. cmds' = cmds /\ mu' = "free"
      BY <1>6, <2>3 DEF SetDNSServers
    <3> QED BY <2>1, <3>1, NoCommand, Zenon
  <2> QED BY <2>2, <2>3
<1>7. CASE Launch \/ Started \/ Removed \/ Reapplied \/ SetDryRun
  <2>1. UNCHANGED <<nat, failures>>
    BY <1>7 DEF Launch, Started, Removed, Reapplied, SetDryRun, faults
  <2>2. cmds' = cmds /\ mu' = "free"
    BY <1>b, <1>7 DEF Launch, Started, Removed, Reapplied, SetDryRun
  <2> QED BY <2>1, <2>2, NoCommand, Zenon
<1>8. CASE Die \/ Exit
  <2>1. UNCHANGED <<nat, failures>>
    BY <1>8 DEF Die, Exit, ProcessEnds, faults
  <2>2. cmds' = << >> /\ mu' = "free"
    BY <1>8 DEF Die, Exit, ProcessEnds
  <2> QED BY <2>1, <2>2, NoCommand, Zenon
<1>9. CASE Notify \/ Signal \/ ServerClose \/ Reload \/ UNCHANGED gatewayVars
  <2>1. UNCHANGED <<nat, failures>>
    BY <1>9 DEF Notify, Signal, ServerClose, Reload, faults, gatewayVars
  <2>2. UNCHANGED <<cmds, mu, dnsServers, Mode>>
    BY <1>9 DEF Notify, Signal, ServerClose, Reload, redirector, gatewayVars, Mode
  <2> QED BY <2>1, <2>2, NoCommand, Zenon
<1> QED BY <1>1, <1>2, <1>3, <1>4, <1>5, <1>6, <1>7, <1>8, <1>9
    DEF GatewayNext, MainStep, ReloadStep

\* The types of the variables other than the tables.
ScalarTypes ==
    /\ main \in MainStates
    /\ exit \in {"none", "graceful", "fatal", "interrupted", "killed", "cleaned"}
    /\ isDryRun \in BOOLEAN /\ listener \in BOOLEAN /\ early \in BOOLEAN /\ dryRun \in BOOLEAN
    /\ rulesApplied \in BOOLEAN /\ closed \in BOOLEAN /\ inherited \in BOOLEAN
    /\ dnsServers \in DnsChoices
    /\ dnsUDPConn \in BOOLEAN
    /\ mu \in {"free", "main", "reload", "cleanup"}
    /\ reloader \in {"idle", "dns", "applying", "dry"}
    /\ newCfg \in Config
    /\ reloads \in 0..MaxReloads
    /\ failures \in 0..MaxFailures
    /\ crashes \in 0..MaxCrashes

\* A configuration has servers and the dry run flag.
LEMMA ConfigFields ==
    ASSUME NEW c \in Config
    PROVE  c.dns \in DnsChoices /\ c.dry \in BOOLEAN
BY DEF Config

\* The types are kept.
LEMMA ScalarStep ==
    ASSUME ScalarTypes, [GatewayNext]_gatewayVars
    PROVE  ScalarTypes'
<1> USE GatewayAssumption DEF ScalarTypes, MainStates
<1>1. CASE Launch
  <2>1. PICK cfg \in Config, cli \in BOOLEAN :
          \/ /\ main' = "loaded" /\ exit' = "none"
             /\ isDryRun' = (cli \/ cfg.dry) /\ dryRun' = (cli \/ cfg.dry)
             /\ listener' = ~(cli \/ cfg.dry) /\ early' = FALSE
             /\ dnsServers' = cfg.dns
          \/ /\ exit' = "fatal"
             /\ UNCHANGED <<main, process, dryRun, dnsServers>>
    BY <1>1, Zenon DEF Launch
  <2>2. /\ isDryRun' \in BOOLEAN /\ dryRun' \in BOOLEAN /\ listener' \in BOOLEAN
        /\ early' \in BOOLEAN
        /\ dnsServers' \in DnsChoices
    BY <2>1, ConfigFields, Zenon DEF process
  <2>3. /\ main' \in MainStates
        /\ exit' \in {"none", "graceful", "fatal", "interrupted", "killed", "cleaned"}
    BY <2>1 DEF process
  <2> QED BY <1>1, <2>2, <2>3, Zenon DEF Launch, callback, faults
<1>2. CASE Signal
  BY <1>2 DEF Signal, process, redirector, callback, faults
<1>3. CASE Die
  <2>1. crashes' \in 0..MaxCrashes
    BY <1>3 DEF Die
  <2>2. inherited' \in BOOLEAN
    BY <1>3, Zenon DEF Die
  <2> QED BY <1>3, <2>1, <2>2, Zenon DEF Die, ProcessEnds
<1>4. CASE CleanupIPTables
  BY <1>4 DEF CleanupIPTables, process, redirector, callback, faults
<1>5. CASE Start
  <2>1. dnsUDPConn' \in BOOLEAN
    BY <1>5, Zenon DEF Start, ProcessEnds, redirector
  <2> QED BY <1>5, <2>1 DEF Start, process, redirector, callback, faults, ProcessEnds
<1>6. CASE Started
  BY <1>6 DEF Started, process, redirector, callback, faults
<1>7. CASE Notify
  BY <1>7 DEF Notify, process, redirector, callback, faults
<1>8. CASE Close
  BY <1>8 DEF Close, process, redirector, callback, faults
<1>9. CASE Removed
  BY <1>9 DEF Removed, process, redirector, callback, faults
<1>10. CASE ServerClose
  <2>1. main' = "drained" /\ listener' = FALSE
        /\ UNCHANGED <<exit, isDryRun, early, redirector, mu, callback, faults, inherited>>
    BY <1>10, Zenon DEF ServerClose
  <2>2. main' \in MainStates /\ listener' \in BOOLEAN
    BY <2>1
  <2> QED BY <2>1, <2>2 DEF redirector, callback, faults
<1>11. CASE Exit
  BY <1>11 DEF Exit, process, redirector, callback, faults, ProcessEnds
<1>12. CASE Reload
  <2>1. reloads' \in 0..MaxReloads
    BY <1>12 DEF Reload
  <2> QED BY <1>12, <2>1 DEF Reload, process, redirector, faults
<1>13. CASE SetDNSServers
  BY <1>13, ConfigFields DEF SetDNSServers, process, redirector, callback, faults
<1>14. CASE Reapplied
  BY <1>14 DEF Reapplied, process, redirector, callback, faults
<1>15. CASE SetDryRun
  <2>1. early' \in BOOLEAN /\ dryRun' \in BOOLEAN
    <3>1. newCfg.dry \in BOOLEAN
      BY ConfigFields, Zenon
    <3>2. CASE main = "loaded"
      BY <1>15, <3>1, <3>2 DEF SetDryRun
    <3>3. CASE main # "loaded"
      BY <1>15, <3>1, <3>3 DEF SetDryRun
    <3> QED BY <3>2, <3>3
  <2>2. /\ UNCHANGED <<main, exit, isDryRun, listener, dnsServers, dnsUDPConn, rulesApplied,
                       closed, mu, newCfg, reloads, failures, crashes, inherited>>
        /\ reloader' = "idle"
    BY <1>15, Zenon DEF SetDryRun, faults
  <2> QED BY <2>1, <2>2
<1>16. CASE execCmd
  <2>1. failures' \in 0..MaxFailures
    BY <1>16 DEF execCmd, Fails
  <2>2. inherited' \in BOOLEAN
    BY <1>16, Zenon DEF execCmd
  <2>3. UNCHANGED <<main, exit, process, redirector, mu, callback, crashes>>
    BY <1>16, Zenon DEF execCmd
  <2> QED BY <2>1, <2>2, <2>3 DEF process, redirector, callback
<1>17. CASE applyFails
  <2>1. failures' \in 0..MaxFailures
    BY <1>17 DEF applyFails, Fails
  <2>2. inherited' \in BOOLEAN
    BY <1>17, Zenon DEF applyFails
  <2> QED BY <1>17, <2>1, <2>2, Zenon DEF applyFails, process, redirector, callback,
             faults, ProcessEnds
<1>18. CASE UNCHANGED gatewayVars
  BY <1>18 DEF gatewayVars, process, redirector, callback, faults
<1> QED BY <1>1, <1>2, <1>3, <1>4, <1>5, <1>6, <1>7, <1>8, <1>9, <1>10, <1>11, <1>12,
           <1>13, <1>14, <1>15, <1>16, <1>17, <1>18 DEF GatewayNext, MainStep,
           ReloadStep

\* The type invariant in its parts.
LEMMA TypesAre ==
    /\ TypesOK => ScalarTypes
    /\ ScalarTypes /\ LifeOK /\ nat \in [Families -> [Entries -> Nat]] /\ cmds \in Seq(Commands)
         => TypesOK
<1>1. TypesOK => ScalarTypes
  BY Zenon DEF TypesOK, GatewayTypeOK, ScalarTypes
<1>2. ASSUME ScalarTypes, LifeOK, nat \in [Families -> [Entries -> Nat]], cmds \in Seq(Commands)
      PROVE  TypesOK
  <2>1. (mu = "free") = (cmds = << >> /\ main \notin {"applying", "removing", "cleaning"}
                                     /\ reloader # "applying")
    BY <1>2 DEF ScalarTypes, LifeOK
  <2> QED BY <1>2, <2>1, Zenon DEF TypesOK, GatewayTypeOK, ScalarTypes
<1> QED BY <1>1, <1>2

\* Where no command failed before, the kernel refuses none whose error counts.
LEMMA NeverRefused ==
    ASSUME NEW mode \in Modes, NEW servers, NEW s \in Seq(Commands), s # << >>, NEW t,
           ScriptOK(mode, servers, s, t, 0), \A f \in Families : TableOK(t[f], 0),
           Head(s).onError = "abort"
    PROVE  LET c == Head(s) IN ~Refused(t[c.fam], c.op, c.at)
<1>a. PICK g \in 1 .. 40 : Standing(mode, servers, s, t, 0, g)
  BY ScriptAt, Zenon, 0 \in Nat
<1>1. /\ FamOf(g) \in Families /\ RankOf(g) \in 1 .. 20
      /\ Head(s) = Command(FamOf(g), servers, RankOf(g))
      /\ Stage(mode, FamOf(g), servers, t[FamOf(g)], RankOf(g), 0)
  BY <1>a, Zenon DEF Standing
<1> DEFINE k == FamOf(g)
           r == RankOf(g)
           c == Head(s)
           u == t[k]
<1>2. /\ TableOK(u, 0) /\ Stage(mode, k, servers, u, r, 0)
      /\ CommandFacts(k, servers, r, c)
  BY <1>1, CommandAt, Zenon
<1> HIDE DEF k, r, c, u
<1>3. /\ c.fam = k
      /\ c.onError = "abort" => r \in {9, 15, 16}
      /\ r = 9 => c.op = "N" /\ c.at = "RULES"
      /\ r = 15 => c.op = "A" /\ c.at = "tcp"
      /\ r = 16 => c.op = "A" /\ c.at = "outTcp"
  BY <1>2 DEF CommandFacts, Adds
<1>4. u \in [Entries -> Nat]
  BY <1>2 DEF TableOK, KernelOK
<1>5. r = 9 => u["RULES"] = 0
  BY <1>2 DEF Stage, Faultless, Phase, Valid
<1>6. r \in {15, 16} => u["RULES"] = 1
  BY <1>2 DEF Stage, Building, Valid
<1>7. c.onError = "abort" => ~Refused(u, c.op, c.at)
  BY <1>3, <1>4, <1>5, <1>6, RefusalIs, ChainsAre, EntriesAre
<1> QED BY <1>3, <1>7, Zenon DEF c, u

\* A command that removes something makes no redirection of it.
LEMMA QuietShrinks ==
    ASSUME nat \in [Families -> [Entries -> Nat]], nat' \in [Families -> [Entries -> Nat]],
           \A f \in Families : \A x \in Entries : nat'[f][x] <= nat[f][x],
           Unredirected
    PROVE  Unredirected'
<1> SUFFICES ASSUME NEW f \in Families
             PROVE  (~TcpRedirected(f) /\ ~DnsRedirected(f) /\ ~PreRedirected(f))'
  BY Zenon DEF Unredirected
<1> DEFINE t == nat[f]
           u == nat'[f]
<1>1. t \in [Entries -> Nat] /\ u \in [Entries -> Nat] /\ \A x \in Entries : u[x] <= t[x]
  OBVIOUS
<1>2. /\ ~(t["outTcp"] > 0 /\ t["tcp"] > 0)
      /\ ~(t["outDns"] > 0 /\ t["dns"] > 0)
      /\ ~(t["preTcp"] > 0 /\ t["tcp"] > 0)
      /\ ~(t["preDns"] > 0 /\ t["preRedirect"] > 0)
  BY Zenon DEF Unredirected, TcpRedirected, DnsRedirected, PreRedirected
<1> HIDE DEF t, u
<1>3. /\ ~(u["outTcp"] > 0 /\ u["tcp"] > 0)
      /\ ~(u["outDns"] > 0 /\ u["dns"] > 0)
      /\ ~(u["preTcp"] > 0 /\ u["tcp"] > 0)
      /\ ~(u["preDns"] > 0 /\ u["preRedirect"] > 0)
  BY <1>1, <1>2, EntriesAre
<1> QED BY <1>3, Zenon DEF TcpRedirected, DnsRedirected, PreRedirected, u

\* Empty tables redirect nothing.
LEMMA EmptyIsQuiet ==
    ASSUME \A f \in Families : nat[f] = Empty
    PROVE  Unredirected
<1>1. \A e \in Entries : Empty[e] = 0
  BY DEF Empty
<1>2. \A f \in Families : /\ nat[f]["outTcp"] = 0 /\ nat[f]["outDns"] = 0
                          /\ nat[f]["preTcp"] = 0 /\ nat[f]["preDns"] = 0
  BY <1>1, EntriesAre
<1> QED BY <1>2 DEF Unredirected, TcpRedirected, DnsRedirected, PreRedirected

\* A command that is run during a cleanup removes something or fails.
LEMMA CleaningShrinks ==
    ASSUME GatewayInv, execCmd, main = "cleaning", ScriptKept
    PROVE  /\ inherited' = inherited
           /\ failures <= failures'
           /\ \A f \in Families : \A x \in Entries : nat'[f][x] <= nat[f][x]
<1> DEFINE c == Head(cmds)
           u == [nat EXCEPT ![c.fam] = Effect(@, c.op, c.at)]
<1>1. /\ nat \in [Families -> [Entries -> Nat]]
      /\ failures \in Nat /\ cmds \in Seq(Commands)
  BY BasicTypes, Zenon DEF GatewayInv
<1>2. cmds # << >> /\ mu # "free" /\ Mode = "remove"
  BY DEF execCmd, GatewayInv, LifeOK, Mode
<1>3. ScriptOK("remove", dnsServers, cmds, nat, failures)
  BY <1>2, Zenon DEF GatewayInv, ProgressOK
<1>4. c.op \in {"D", "F", "X"} /\ (c.op = "F" => c.at \in Chains)
  BY <1>1, <1>2, <1>3, RemovalCommands, Zenon
<1>5. c \in Commands /\ c.fam \in Families /\ c.at \in Entries
  <2>1. c \in Commands
    BY <1>1, <1>2
  <2> HIDE DEF c
  <2> QED BY <2>1 DEF Commands
<1> HIDE DEF c
<1>6. inherited' = inherited
  <2>1. c.op \notin {"N", "A"} /\ inherited' = (inherited /\ c.op \notin {"N", "A"})
    BY <1>4, Zenon DEF execCmd, c
  <2>2. inherited \in BOOLEAN /\ inherited' \in BOOLEAN
    BY <2>1, TypesAre, Zenon DEF GatewayInv, ScalarTypes
  <2> QED BY <2>1, <2>2, Zenon
<1>7. CASE /\ ~Refused(nat[c.fam], c.op, c.at)
           /\ nat' = u
           /\ UNCHANGED failures
  <2>1. nat[c.fam] \in [Entries -> Nat]
    BY <1>1, <1>5
  <2> DEFINE v == Effect(nat[c.fam], c.op, c.at)
  <2>2. \A x \in Entries : v[x] <= nat[c.fam][x]
    BY <1>4, <1>5, <1>7, <2>1, RemovalShrinks, Zenon
  <2>3. \A f \in Families : u[f] = IF f = c.fam THEN v ELSE nat[f]
    BY <1>1, <1>5
  <2> HIDE DEF u, v
  <2>4. ASSUME NEW f \in Families, NEW x \in Entries PROVE u[f][x] <= nat[f][x]
    <3>1. nat[f][x] \in Nat
      BY <1>1
    <3>2. CASE f = c.fam
      BY <2>2, <2>3, <3>2
    <3>3. CASE f # c.fam
      BY <2>3, <3>1, <3>3
    <3> QED BY <3>2, <3>3
  <2> QED BY <1>1, <1>6, <1>7, <2>4
<1>8. CASE UNCHANGED nat /\ Fails(c)
  <2>1. failures <= failures'
    BY <1>1, <1>8 DEF Fails
  <2>2. \A f \in Families : \A x \in Entries : nat'[f][x] <= nat[f][x]
    BY <1>1, <1>8
  <2> QED BY <1>6, <2>1, <2>2
<1> QED BY <1>7, <1>8, Zenon DEF execCmd, c

\* A gateway without rules goes on redirecting nothing.
LEMMA QuietStep ==
    ASSUME GatewayInv, [GatewayNext]_gatewayVars, ScriptKept, LifeOK'
    PROVE  QuietOK'
<1>0. /\ nat \in [Families -> [Entries -> Nat]] /\ nat' \in [Families -> [Entries -> Nat]]
      /\ failures \in Nat /\ failures' \in Nat /\ cmds \in Seq(Commands) /\ Mode \in Modes
      /\ mu \in {"free", "main", "reload", "cleanup"}
  BY BasicTypes, Zenon DEF GatewayInv, ScriptKept
<1>a. /\ mu = "main" => main \in {"applying", "removing"}
      /\ mu = "reload" => rulesApplied
      /\ mu = "cleanup" => main = "cleaning"
      /\ main = "removing" => rulesApplied /\ mu = "main"
      /\ main = "cleaning" => mu = "cleanup"
      /\ rulesApplied => main \in {"started", "running", "closing", "removing"}
  BY Zenon DEF GatewayInv, LifeOK
<1>b. /\ ~inherited /\ failures <= 1 /\ ~rulesApplied /\ main # "applying" => Unredirected
      /\ mu # "free" => ScriptOK(Mode, dnsServers, cmds, nat, failures)
      /\ \A f \in Families : TableOK(nat[f], failures)
  BY Zenon DEF GatewayInv, QuietOK, ProgressOK, TablesOK
<1>c. UNCHANGED nat => (Unredirected => Unredirected')
  BY Zenon DEF Unredirected, TcpRedirected, DnsRedirected, PreRedirected
<1>d. SUFFICES ASSUME ~inherited', failures' <= 1, ~rulesApplied', main' # "applying"
               PROVE  Unredirected'
  BY Zenon DEF QuietOK
<1>1. CASE execCmd
  <2>1. mu # "free" /\ UNCHANGED <<main, rulesApplied>>
    BY <1>1, Zenon DEF execCmd, GatewayInv, LifeOK, redirector
  <2>2. main = "cleaning" /\ ~rulesApplied
    BY <1>0, <1>a, <1>d, <2>1, Zenon
  <2>3. /\ inherited' = inherited /\ failures <= failures'
        /\ \A f \in Families : \A x \in Entries : nat'[f][x] <= nat[f][x]
    BY <1>1, <2>2, CleaningShrinks, Zenon
  <2>4. failures <= 1
    BY <1>0, <1>d, <2>3
  <2>5. Unredirected
    BY <1>b, <1>d, <2>1, <2>2, <2>3, <2>4, Zenon
  <2> QED BY <1>0, <2>3, <2>5, QuietShrinks, Zenon
<1>2. CASE applyFails
  <2>1. UNCHANGED nat /\ cmds # << >> /\ Head(cmds).onError = "abort"
    BY <1>2, Zenon DEF applyFails
  <2>2. failures <= 1
    BY <1>0, <1>2, <1>d DEF applyFails, Fails
  <2>3. mu # "free"
    BY <2>1, Zenon DEF GatewayInv, LifeOK
  <2>4. \A f \in Families : RulesOff(nat[f]) /\ PreOff(nat[f])
    BY <1>0, <1>b, <2>1, <2>2, <2>3, AbortIsQuiet, Zenon
  <2>5. \A f \in Families : nat[f] \in [Entries -> Nat]
    BY <1>0
  <2>6. Unredirected
    BY <2>4, <2>5, OffIsQuiet, Zenon DEF Unredirected
  <2> QED BY <1>c, <2>1, <2>6, Zenon
<1>3. CASE Die
  <2>1. UNCHANGED nat /\ ~(\E f \in Families : nat[f] # Empty)
    BY <1>3, <1>d, Zenon DEF Die
  <2>2. Unredirected
    BY <2>1, EmptyIsQuiet, Zenon
  <2> QED BY <1>c, <2>1, <2>2, Zenon
<1>4. CASE Removed \/ (CleanupIPTables /\ main = "cleaning")
  <2>1. /\ UNCHANGED <<nat, failures>> /\ cmds = << >> /\ main \in {"removing", "cleaning"}
    BY <1>4 DEF Removed, CleanupIPTables, faults
  <2>2. mu # "free" /\ Mode = "remove"
    BY <1>a, <2>1 DEF Mode
  <2>3. ScriptOK("remove", dnsServers, << >>, nat, failures)
    BY <1>b, <2>1, <2>2, Zenon
  <2>4. \A f \in Families : Stage("remove", f, dnsServers, nat[f], 21, failures)
    BY <1>0, <2>2, <2>3, ScriptEnds, Zenon
  <2>5. failures <= 1
    BY <1>d, <2>1, Zenon
  <2>6. Unredirected
    BY <1>0, <2>4, <2>5, RemovalIsQuiet, Zenon DEF GatewayInv
  <2> QED BY <1>c, <2>1, <2>6, Zenon
<1>5. CASE \/ Launch \/ Signal \/ (CleanupIPTables /\ main # "cleaning") \/ Start \/ Started
           \/ Notify \/ Close \/ ServerClose \/ Exit \/ Reload \/ ReloadStep
           \/ UNCHANGED gatewayVars
  <2>1. UNCHANGED <<nat, failures, inherited>>
    BY <1>5 DEF Launch, Signal, CleanupIPTables, Start, Started, Notify, Close,
       ServerClose, Exit,
                Reload, ReloadStep, SetDNSServers, Reapplied, SetDryRun, gatewayVars, faults,
                ProcessEnds
  <2>2. ~rulesApplied /\ main # "applying"
    BY <1>5, <1>a, <1>d
    DEF Launch, Signal, CleanupIPTables, Start, Started, Notify, Close, ServerClose, Exit,
        Reload, ReloadStep, SetDNSServers, Reapplied, SetDryRun, gatewayVars, redirector,
        ProcessEnds
  <2> QED BY <1>b, <1>c, <1>d, <2>1, <2>2, Zenon
<1> QED BY <1>1, <1>2, <1>3, <1>4, <1>5, Zenon DEF GatewayNext, MainStep

\* Without failures the rules go on matching the configuration.
LEMMA MatchStep ==
    ASSUME GatewayInv, [GatewayNext]_gatewayVars, ScriptKept, LifeOK'
    PROVE  MatchOK'
<1>0. /\ nat \in [Families -> [Entries -> Nat]]
      /\ failures \in Nat /\ Mode \in Modes
  BY BasicTypes, Zenon DEF GatewayInv
<1>a. /\ mu = "free" => main \notin {"applying", "removing", "cleaning"}
      /\ mu = "reload" => main \in {"started", "running", "closing"}
      /\ main = "applying" => mu = "main"
      /\ reloader = "applying" => mu = "reload"
      /\ closed => main \in {"removing", "closed", "drained"}
      /\ rulesApplied => main \in {"started", "running", "closing", "removing"}
  BY Zenon DEF GatewayInv, LifeOK
<1>b. /\ failures = 0 /\ rulesApplied /\ mu = "free" /\ main \in {"started", "running", "closing"}
           => \A f \in Families : nat[f] = Wanted(f, dnsServers)
      /\ mu # "free" => ScriptOK(Mode, dnsServers, cmds, nat, failures)
  BY Zenon DEF GatewayInv, MatchOK, ProgressOK
<1>d. SUFFICES ASSUME failures' = 0, rulesApplied', mu' = "free",
                      main' \in {"started", "running", "closing"}
               PROVE  \A f \in Families : nat'[f] = Wanted(f, dnsServers')
  BY Zenon DEF MatchOK
<1>1. CASE Started \/ Reapplied
  <2>1. UNCHANGED <<nat, failures, dnsServers>> /\ cmds = << >>
    BY <1>1 DEF Started, Reapplied, faults, redirector
  <2>2. mu # "free" /\ Mode = "apply"
    BY <1>1, <1>a DEF Started, Reapplied, Mode
  <2>3. ScriptOK("apply", dnsServers, << >>, nat, 0)
    BY <1>b, <1>d, <2>1, <2>2, Zenon
  <2>4. \A f \in Families : Stage("apply", f, dnsServers, nat[f], 21, 0)
    <3>1. 0 \in Nat /\ "apply" \in Modes
      BY DEF Modes
    <3> QED BY <2>3, <3>1, ScriptEnds, Zenon
  <2>5. \A f \in Families : nat[f] \in [Entries -> Nat]
    BY <1>0
  <2>6. \A f \in Families : nat[f] = Wanted(f, dnsServers)
    BY <2>4, <2>5, ApplicationMatches, Zenon
  <2> QED BY <2>1, <2>6, Zenon
<1>2. CASE applyFails
  <2>1. mu = "main" => main' = "down"
    BY <1>2, Zenon DEF applyFails, ProcessEnds
  <2>2. mu = "reload"
    BY <1>2, <1>d, <2>1 DEF applyFails
  <2>3. /\ cmds # << >> /\ Head(cmds).onError = "abort" /\ failures = 0
        /\ Refused(nat[Head(cmds).fam], Head(cmds).op, Head(cmds).at)
    BY <1>0, <1>2, <1>d DEF applyFails, Fails
  <2>4. \A f \in Families : TableOK(nat[f], 0)
    BY <2>3, Zenon DEF GatewayInv, TablesOK
  <2>5. ScriptOK(Mode, dnsServers, cmds, nat, 0)
    BY <1>b, <2>2, <2>3, Zenon
  <2> QED BY <1>0, <2>3, <2>4, <2>5, NeverRefused, BasicTypes, Zenon DEF GatewayInv
<1>3. CASE \/ Launch \/ Signal \/ Die \/ CleanupIPTables \/ Start \/ Removed
           \/ Notify \/ Close \/ ServerClose \/ Exit \/ Reload \/ SetDNSServers \/ SetDryRun
           \/ execCmd \/ UNCHANGED gatewayVars
  <2>1. /\ rulesApplied /\ mu = "free" /\ main \in {"started", "running", "closing"}
        /\ UNCHANGED <<nat, failures, dnsServers>>
    <3>1. CASE execCmd
      <4>1. mu # "free" /\ mu' = mu
        BY <3>1, Zenon DEF execCmd, GatewayInv, LifeOK
      <4> QED BY <1>d, <4>1, Zenon
    <3>2. CASE SetDNSServers
      BY <1>a, <1>d, <3>2 DEF SetDNSServers, faults
    <3>3. CASE \/ Launch \/ Signal \/ Die \/ CleanupIPTables \/ Start \/ Removed
      BY <1>a, <1>d, <3>3 DEF Launch, Signal, Die, CleanupIPTables, Start, Removed,
         ProcessEnds,
                              redirector, faults
    <3>4. CASE \/ Notify \/ Close \/ ServerClose \/ Exit \/ Reload \/ SetDryRun
               \/ UNCHANGED gatewayVars
      BY <1>a, <1>d, <3>4 DEF Notify, Close, ServerClose, Exit, Reload, SetDryRun,
         ProcessEnds,
                              redirector, faults, gatewayVars
    <3> QED BY <1>3, <3>1, <3>2, <3>3, <3>4, Zenon
  <2>2. failures = 0
    BY <1>d, <2>1, Zenon
  <2> QED BY <1>b, <2>1, <2>2, Zenon
<1> QED BY <1>1, <1>2, <1>3, Zenon DEF GatewayNext, MainStep, ReloadStep

-----------------------------------------------------------------------------
(* The theorems.                                                           *)

\* The invariant holds at the start.
LEMMA InvHoldsInitially == GatewayInit => GatewayInv
<1> SUFFICES ASSUME GatewayInit PROVE GatewayInv
  OBVIOUS
<1>1. \A e \in Entries : Empty[e] = 0
  BY DEF Empty
<1>2. /\ nat \in [Families -> [Entries -> Nat]] /\ cmds \in Seq(Commands)
      /\ \A f \in Families : nat[f] = Empty
  BY DEF GatewayInit, Empty
<1>3. ScalarTypes
  <2>1. newCfg \in Config
    <3>1. newCfg = [dns |-> dnsServers, dry |-> FALSE] /\ dnsServers \in DnsChoices
      BY Zenon DEF GatewayInit
    <3> QED BY <3>1 DEF Config
  <2>2. reloads \in 0..MaxReloads /\ failures \in 0..MaxFailures /\ crashes \in 0..MaxCrashes
    BY GatewayAssumption DEF GatewayInit
  <2>3. main \in MainStates
    BY DEF GatewayInit, MainStates
  <2> QED BY <2>1, <2>2, <2>3 DEF GatewayInit, ScalarTypes
<1>4. LifeOK
  BY DEF GatewayInit, LifeOK, Up
<1>5. TablesOK
  <2>1. Empty \in [Entries -> Nat]
    BY DEF Empty
  <2>2. \A fl : TableOK(Empty, fl)
    BY <1>1, <2>1, EntriesAre DEF TableOK, KernelOK, Guarded, Single
  <2> QED BY <1>2, <2>2, Zenon DEF TablesOK
<1>6. ProgressOK /\ MatchOK
  BY Zenon DEF GatewayInit, ProgressOK, MatchOK
<1>7. QuietOK
  BY <1>2, EmptyIsQuiet, Zenon DEF QuietOK
<1> QED BY <1>2, <1>3, <1>4, <1>5, <1>6, <1>7, TypesAre, Zenon DEF GatewayInv

\* Every step keeps the invariant.
LEMMA InvIsKept == GatewayInv /\ [GatewayNext]_gatewayVars => GatewayInv'
<1> SUFFICES ASSUME GatewayInv, [GatewayNext]_gatewayVars PROVE GatewayInv'
  OBVIOUS
<1>1. TypesOK /\ GatewayTypeOK /\ LifeOK /\ ScalarTypes
  BY TypesAre, Zenon DEF GatewayInv, TypesOK
<1>2. LifeOK'
  BY <1>1, LifeStep
<1>3. ScriptKept
  BY ScriptStep
<1>4. ScalarTypes'
  BY <1>1, ScalarStep
<1>5. QuietOK'
  BY <1>2, <1>3, QuietStep
<1>6. MatchOK'
  BY <1>2, <1>3, MatchStep
<1>7. (mu = "free")' = (cmds = << >> /\ main \notin {"applying", "removing", "cleaning"}
                                     /\ reloader # "applying")'
  BY <1>2, <1>4 DEF ScalarTypes, LifeOK
<1>8. TypesOK'
  BY <1>3, <1>4, <1>7, Zenon DEF TypesOK, GatewayTypeOK, ScalarTypes, ScriptKept
<1> QED BY <1>2, <1>3, <1>5, <1>6, <1>8, Zenon DEF GatewayInv, ScriptKept

\* The invariant is one of the specification, whatever commands fail, whenever
\* the process dies and however often the configuration is reloaded.
LEMMA GatewayInvariant == GatewaySpec => []GatewayInv
<1>1. GatewayInit => GatewayInv
  BY InvHoldsInitially
<1>2. GatewayInv /\ [GatewayNext]_gatewayVars => GatewayInv'
  BY InvIsKept
<1> QED BY <1>1, <1>2, PTL DEF GatewaySpec

\* NoSelfLoop for every number of failures, deaths and reloads: the first rule of
\* the chain keeps the gateway's own packets out before any other is added.
THEOREM NeverLoops == GatewaySpec => []NoSelfLoop
<1>1. GatewayInv => NoSelfLoop
  <2> SUFFICES ASSUME GatewayInv, failures <= 1, NEW f \in Families, TcpRedirected(f)
               PROVE  nat[f]["mark"] + nat[f]["owner"] > 0
    BY Zenon DEF NoSelfLoop
  <2>1. TableOK(nat[f], failures)
    BY Zenon DEF GatewayInv, TablesOK
  <2>2. nat[f]["tcp"] > 0
    BY Zenon DEF TcpRedirected
  <2> QED BY <2>1, <2>2 DEF TableOK, Guarded
<1> QED BY <1>1, GatewayInvariant, PTL

\* ExitRestoresNetwork in general: a shutdown, a start that gave up and -cleanup
\* leave no redirection behind, however the process got there.
THEOREM ExitsAreClean == GatewaySpec => []ExitRestoresNetwork
<1>1. GatewayInv => ExitRestoresNetwork
  <2> SUFFICES ASSUME GatewayInv, exit \in {"graceful", "fatal", "cleaned"}, ~inherited,
                      failures <= 1
               PROVE  Unredirected
    BY Zenon DEF ExitRestoresNetwork
  <2>1. ~rulesApplied /\ main # "applying"
    BY DEF GatewayInv, LifeOK, Up
  <2> QED BY <2>1, Zenon DEF GatewayInv, QuietOK
<1> QED BY <1>1, GatewayInvariant, PTL

\* RulesMatchConfig in general: without failures the tables hold exactly the
\* rules of the current servers, after any history of reloads and deaths.
THEOREM RulesFollowConfig == GatewaySpec => []RulesMatchConfig
<1>1. GatewayInv => RulesMatchConfig
  BY Zenon DEF GatewayInv, TypesOK, MatchOK, RulesMatchConfig
<1> QED BY <1>1, GatewayInvariant, PTL

\* RedirectIsServed in general: no TCP connection is redirected without the
\* listener, in a dry run and otherwise, unless a reload ended the dry run before
\* Start, and no query without the listeners Start opened.
THEOREM RedirectsAreServed == GatewaySpec => []RedirectIsServed
<1>1. GatewayInv => RedirectIsServed
  <2> SUFFICES ASSUME GatewayInv PROVE RedirectIsServed
    OBVIOUS
  <2>1. ASSUME Up, ~inherited, ~early, ~listener, failures <= 1
        PROVE  \A f \in Families : ~TcpRedirected(f)
    <3>1. CASE isDryRun
      <4>1. ~rulesApplied /\ main \notin {"applying", "removing"}
        BY <2>1, <3>1, Zenon DEF GatewayInv, LifeOK
      <4>2. main # "applying"
        BY <4>1
      <4> QED BY <2>1, <4>1, <4>2, Zenon DEF GatewayInv, QuietOK, Unredirected
    <3>2. CASE ~isDryRun
      <4>1. main = "drained"
        BY <2>1, <3>2, Zenon DEF GatewayInv, LifeOK
      <4>2. ~rulesApplied /\ main # "applying"
        BY <4>1 DEF GatewayInv, LifeOK
      <4> QED BY <2>1, <4>2, Zenon DEF GatewayInv, QuietOK, Unredirected
    <3> QED BY <3>1, <3>2
  <2>2. ASSUME Up, ~inherited, failures = 0, reloads = 0, ~dnsUDPConn, mu = "free"
        PROVE  \A f \in Families : ~DnsRedirected(f)
    <3>0. main # "applying" /\ main # "removing"
      BY <2>2, Zenon DEF GatewayInv, LifeOK
    <3>1. CASE ~rulesApplied
      BY <2>2, <3>0, <3>1, failures <= 1, Zenon DEF GatewayInv, QuietOK, Unredirected
    <3>2. CASE rulesApplied
      <4>1. dnsServers # {} /\ main \in {"started", "running", "closing"}
        BY <2>2, <3>0, <3>2 DEF GatewayInv, LifeOK
      <4>2. \A f \in Families : nat[f] = Wanted(f, dnsServers)
        BY <2>2, <3>2, <4>1, Zenon DEF GatewayInv, MatchOK
      <4>3. \A f \in Families : nat[f]["dns"] = 0
        <5>1. "dns" \in Entries
          BY EntriesAre
        <5>2. \A f \in Families : Wanted(f, dnsServers)["dns"] = 0
          BY <4>1, <5>1 DEF Wanted, Chains
        <5> QED BY <4>2, <5>2, Zenon
      <4> QED BY <4>3 DEF DnsRedirected
    <3> QED BY <3>1, <3>2
  <2> QED BY <2>1, <2>2, Zenon DEF RedirectIsServed
<1> QED BY <1>1, GatewayInvariant, PTL

-----------------------------------------------------------------------------
(* The NAT session table.                                                  *)

USE ConstantsAssumption, NoneIsNoSession

-----------------------------------------------------------------------------
(* The inductive invariant.                                                *)

\* A connection the proxy's stack or server has heard of, or is about to.
Seen(c) ==
    \/ leg[c] # "none" \/ handler[c] # "none"
    \/ \E r \in rewritten : r.packet.conn = c /\ r.packet.dir = "out"

\* An endpoint belongs to the connection opened from it last.
LiveIsLatest ==
    \A c \in Conns : Live(c) => latest[KeyOf[c]] = c

\* Nothing is known of a connection before it is opened.
IdleIsUnknown ==
    \A c \in Conns : client[c] = "idle" =>
        /\ ~Seen(c)
        /\ orig[c] = None
        /\ latest[KeyOf[c]] # c
        /\ \A p \in captured : p.conn # c
        /\ \A r \in rewritten : r.packet.conn # c

\* Without stragglers the session of an endpoint whose latest connection has
\* reached the proxy names the destination of that connection.
SessionOfLatest ==
    \A c \in Conns :
        /\ latest[KeyOf[c]] = c
        /\ KeyOf[c] \notin straggler
        /\ Seen(c)
        /\ sessions[KeyOf[c]] # None
        => sessions[KeyOf[c]].dst = DstOf[c]

\* What has removed, or may remove, the session of an endpoint under c.
Excused(c) ==
    \/ KeyOf[c] \in aged
    \/ \E d \in Conns \ {c} : /\ KeyOf[d] = KeyOf[c]
                              /\ handler[d] \in {"deleted", "done"}

\* Only endpoints that have been idle for a TTL interest the collector.
ExpiredIsAged ==
    /\ \A k \in Keys :
          sessions[k] # None => (sessions[k].stale => k \in aged)
    /\ gc # None => gc \in aged

\* From the first redirected packet to the lookup a session exists.
SeenHasSession ==
    \A c \in Conns :
        Seen(c) /\ handler[c] \in {"none", "accepted"} /\ ~Excused(c)
            => sessions[KeyOf[c]] # None

RoutingInv ==
    /\ TypeOK
    /\ LiveIsLatest
    /\ IdleIsUnknown
    /\ SessionOfLatest
    /\ MisrouteNeedsStraggler

\* A half-open connection has no handler yet.
HalfOpenIsUnserved ==
    \A c \in Conns : leg[c] = "synrcvd" => handler[c] = "none"

LookupInv ==
    /\ TypeOK
    /\ HalfOpenIsUnserved
    /\ ExpiredIsAged
    /\ SeenHasSession
    /\ MissNeedsDeletion

-----------------------------------------------------------------------------
(* Type correctness.                                                       *)

\* Capturing a packet keeps the captured set a set of packets.
LEMMA CaptureType ==
    ASSUME NEW p \in Packet, TypeOK, Capture(p)
    PROVE  /\ captured' \in SUBSET Packet
           /\ \A q \in captured' : q \in captured \/ q = p
BY DEF Capture, TypeOK

\* The packets a client sends are packets.
LEMMA OutType ==
    ASSUME NEW c \in Conns, NEW kind \in {"syn", "seg", "fin", "rst"}
    PROVE  Out(c, kind) \in Packet /\ Out(c, kind).conn = c
BY DEF Out, Packet

\* So are the packets the proxy's stack sends.
LEMMA BackType ==
    ASSUME NEW c \in Conns, NEW kind \in {"synack", "seg", "fin", "rst"}
    PROVE  Back(c, kind) \in Packet /\ Back(c, kind).conn = c
BY DEF Back, Packet

\* An injected packet adds the packets it provokes.
LEMMA AnswerType ==
    ASSUME TypeOK, NEW replies \in SUBSET Packet, Answer(replies)
    PROVE  /\ captured' \in SUBSET Packet
           /\ \A q \in captured' : q \in captured \/ q \in replies
BY DEF TypeOK, Answer

\* A rewritten packet goes from the captured ones to those to be sent.
LEMMA RewriteType ==
    ASSUME TypeOK, NEW p \in captured, NEW from \in Dsts \cup {None}, Rewrite(p, from)
    PROVE  /\ captured' \in SUBSET Packet /\ captured' \subseteq captured
           /\ rewritten' \in SUBSET Rewritten
           /\ \A r \in rewritten' : r \in rewritten \/ r.packet = p
<1>1. [packet |-> p, from |-> from] \in Rewritten
  BY DEF TypeOK, Rewritten
<1> QED BY <1>1 DEF TypeOK, Rewrite

\* The proxy's stack moves only the socket of the packet's connection, and
\* those it displaces; only a connection with a socket gets a handler.
LEMMA ProxyStackEffect ==
    ASSUME TypeOK, NEW p \in Packet, ProxyStack(p)
    PROVE  /\ leg' \in [Conns -> LegStates]
           /\ handler' \in [Conns -> HandlerStates]
           /\ captured' \in SUBSET Packet
           /\ \A q \in captured' : q \in captured \/ q.conn = p.conn
           /\ \A d \in Conns \ {p.conn} : leg'[d] \in {leg[d], "none"}
           /\ \A d \in Conns \ {p.conn} : handler'[d] = handler[d]
           /\ \/ /\ handler'[p.conn] = handler[p.conn]
                 /\ leg'[p.conn] = "synrcvd"
                       => leg[p.conn] = "synrcvd" \/ handler[p.conn] = "none"
              \/ /\ leg[p.conn] = "synrcvd" /\ leg'[p.conn] = "estab"
                 /\ handler'[p.conn] = "accepted"
<1> DEFINE c == p.conn
<1>0. c \in Conns /\ leg \in [Conns -> LegStates] /\ handler \in [Conns -> HandlerStates]
  BY DEF TypeOK, Packet
<1>a. Displaced(c) \in [Conns -> LegStates]
      /\ \A d \in Conns \ {c} : Displaced(c)[d] \in {leg[d], "none"}
  BY <1>0 DEF Displaced, LegStates
<1> HIDE DEF c
<1>b. Back(c, "synack") \in Packet /\ Back(c, "rst") \in Packet
      /\ Back(c, "synack").conn = c /\ Back(c, "rst").conn = c
  BY <1>0, BackType
<1>c. ASSUME Answer({}) \/ Answer({Back(c, "synack")}) \/ Answer({Back(c, "rst")})
      PROVE  captured' \in SUBSET Packet
             /\ \A q \in captured' : q \in captured \/ q.conn = c
  BY <1>b, <1>c, AnswerType
<1>1. CASE ProxySyn(c)
  <2>1. leg' \in [Conns -> LegStates]
        /\ \A d \in Conns \ {c} : leg'[d] \in {leg[d], "none"}
    BY <1>0, <1>1, <1>a DEF ProxySyn, LegStates
  <2>2. handler' = handler
        /\ (leg'[c] = "synrcvd" => leg[c] = "synrcvd" \/ handler[c] = "none")
    BY <1>1 DEF ProxySyn
  <2>3. Answer({}) \/ Answer({Back(c, "synack")})
    BY <1>1 DEF ProxySyn
  <2> QED BY <1>0, <1>c, <2>1, <2>2, <2>3 DEF c
<1>2. CASE ProxySegment(c)
  <2>1. leg' \in [Conns -> LegStates]
        /\ \A d \in Conns \ {c} : leg'[d] \in {leg[d], "none"}
    BY <1>0, <1>2, <1>a DEF ProxySegment, LegStates
  <2>2. \/ handler' = handler /\ (leg'[c] = "synrcvd" => leg[c] = "synrcvd")
        \/ /\ leg[c] = "synrcvd" /\ leg'[c] = "estab"
           /\ handler' = [handler EXCEPT ![c] = "accepted"]
    BY <1>0, <1>2, <1>a DEF ProxySegment
  <2>3. Answer({}) \/ Answer({Back(c, "rst")})
    BY <1>2 DEF ProxySegment
  <2> QED BY <1>0, <1>c, <2>1, <2>2, <2>3 DEF c, HandlerStates
<1>3. CASE ProxyFin(c) \/ ProxyReset(c)
  <2>1. leg' \in [Conns -> LegStates] /\ \A d \in Conns \ {c} : leg'[d] = leg[d]
    BY <1>0, <1>3 DEF ProxyFin, ProxyReset, LegStates
  <2>2. handler' = handler /\ Answer({}) /\ leg'[c] # "synrcvd"
    BY <1>0, <1>3 DEF ProxyFin, ProxyReset
  <2> QED BY <1>0, <1>c, <2>1, <2>2 DEF c
<1>4. QED
  BY <1>1, <1>2, <1>3 DEF ProxyStack, c

\* The client's stack closes or opens the packet's connection and no other.
LEMMA ClientStackEffect ==
    ASSUME TypeOK, NEW p \in Packet, ClientStack(p, p.conn)
    PROVE  /\ client' \in [Conns -> ClientStates]
           /\ captured' \in SUBSET Packet
           /\ \A q \in captured' : q \in captured \/ q.conn = p.conn
           /\ \A d \in Conns \ {p.conn} : client'[d] = client[d]
           /\ \/ client'[p.conn] \in {client[p.conn], "closed"}
              \/ client[p.conn] = "syn" /\ client'[p.conn] = "open"
<1> DEFINE c == p.conn
<1>0. c \in Conns /\ client \in [Conns -> ClientStates]
  BY DEF TypeOK, Packet
<1> HIDE DEF c
<1>b. \A kind \in {"seg", "rst", "fin"} :
          Out(c, kind) \in Packet /\ Out(c, kind).conn = c
  BY <1>0, OutType
<1>c. ASSUME NEW kind \in {"seg", "rst", "fin"}, Answer({}) \/ Answer({Out(c, kind)})
      PROVE  captured' \in SUBSET Packet
             /\ \A q \in captured' : q \in captured \/ q.conn = c
  BY <1>b, <1>c, AnswerType
<1>1. \E kind \in {"seg", "rst", "fin"} : Answer({}) \/ Answer({Out(c, kind)})
  BY DEF ClientStack, c
<1>2. captured' \in SUBSET Packet /\ \A q \in captured' : q \in captured \/ q.conn = c
  BY <1>1, <1>c
<1>3. /\ client' \in [Conns -> ClientStates]
      /\ \A d \in Conns \ {c} : client'[d] = client[d]
      /\ \/ client'[c] \in {client[c], "closed"}
         \/ client[c] = "syn" /\ client'[c] = "open"
  BY <1>0 DEF ClientStack, ClientStates, c
<1> QED BY <1>2, <1>3 DEF c

\* Touching LastSeen leaves the destination alone.
LEMMA Touched ==
    ASSUME TypeOK, NEW k \in Keys, sessions[k] # None, NEW v \in BOOLEAN
    PROVE  LET t == [sessions EXCEPT ![k].stale = v]
           IN  /\ t \in [Keys -> SessionInfo \cup {None}]
               /\ t[k] # None /\ t[k].dst = sessions[k].dst /\ t[k].stale = v
               /\ \A j \in Keys \ {k} : t[j] = sessions[j]
<1> DEFINE s == sessions[k]
<1>1. s \in SessionInfo /\ sessions \in [Keys -> SessionInfo \cup {None}]
  BY DEF TypeOK
<1>2. [s EXCEPT !.stale = v] \in SessionInfo
      /\ [s EXCEPT !.stale = v].dst = s.dst /\ [s EXCEPT !.stale = v].stale = v
  BY <1>1 DEF SessionInfo
<1>3. [sessions EXCEPT ![k].stale = v] = [sessions EXCEPT ![k] = [s EXCEPT !.stale = v]]
  BY <1>1
<1> HIDE DEF s
<1> QED BY <1>1, <1>2, <1>3 DEF s

\* A refreshed session is not stale.
LEMMA Refreshed ==
    ASSUME TypeOK, NEW k \in Keys, sessions[k] # None,
           sessions' = [sessions EXCEPT ![k].stale = FALSE]
    PROVE  /\ \A j \in Keys : sessions[j] # None => sessions'[j] # None
           /\ \A j \in Keys : sessions'[j] # None =>
                  (sessions'[j].stale => sessions[j] # None /\ sessions[j].stale)
<1>1. /\ sessions'[k] # None /\ sessions'[k].stale = FALSE
      /\ \A j \in Keys \ {k} : sessions'[j] = sessions[j]
  BY Touched
<1>2. ~sessions'[k].stale
  BY <1>1
<1> QED BY <1>1, <1>2

\* A processed client packet leaves a session to its own destination.
LEMMA SessionAfterEffect ==
    ASSUME TypeOK, NEW k \in Keys, NEW p \in Packet
    PROVE  LET t == SessionAfter(sessions[k], p)
           IN  t \in SessionInfo /\ t.dst = DstOf[p.conn] /\ ~t.stale
<1> DEFINE s == sessions[k]
<1>1. s \in SessionInfo \cup {None} /\ DstOf[p.conn] \in Dsts
  BY DEF TypeOK, Packet
<1>2. CASE s # None /\ p.kind # "syn" /\ s.dst = DstOf[p.conn]
  <2>1. s \in SessionInfo
    BY <1>1, <1>2
  <2>2. [s EXCEPT !.stale = FALSE] \in SessionInfo
        /\ [s EXCEPT !.stale = FALSE].dst = s.dst /\ ~[s EXCEPT !.stale = FALSE].stale
    BY <2>1 DEF SessionInfo
  <2>3. SessionAfter(s, p) = [s EXCEPT !.stale = FALSE]
    BY <1>2 DEF SessionAfter
  <2> QED BY <1>2, <2>2, <2>3 DEF SessionInfo
<1>3. CASE ~(s # None /\ p.kind # "syn" /\ s.dst = DstOf[p.conn])
  <2>1. SessionAfter(s, p) = [dst |-> DstOf[p.conn], stale |-> FALSE]
    BY <1>3 DEF SessionAfter
  <2> QED BY <1>1, <2>1 DEF SessionInfo
<1> QED BY <1>2, <1>3

\* Every reachable state is well typed.
THEOREM TypeCorrect == Spec => []TypeOK
<1>1. Init => TypeOK
  BY DEF Init, TypeOK, ClientStates, LegStates, HandlerStates
<1>2. TypeOK /\ [Next]_vars => TypeOK'
  <2> SUFFICES ASSUME TypeOK, [Next]_vars PROVE TypeOK'
    OBVIOUS
  <2>1. ASSUME NEW c \in Conns, ClientConnect(c) PROVE TypeOK'
    BY <2>1, CaptureType, OutType DEF ClientConnect, TypeOK, ClientStates
  <2>2. ASSUME NEW c \in Conns, ClientSend(c) PROVE TypeOK'
    BY <2>2, CaptureType, OutType DEF ClientSend, TypeOK
  <2>3. ASSUME NEW c \in Conns, ClientClose(c) PROVE TypeOK'
    BY <2>3, CaptureType, OutType DEF ClientClose, TypeOK, ClientStates
  <2>4. ASSUME NEW c \in Conns, ClientLate(c) PROVE TypeOK'
    <3>1. rare + 1 \in 0..MaxRare
      BY <2>4, ConstantsAssumption DEF ClientLate, TypeOK
    <3>2. captured' \in SUBSET Packet
      BY <2>4, CaptureType, OutType DEF ClientLate
    <3> QED BY <2>4, <3>1, <3>2 DEF ClientLate, TypeOK
  <2>5. ASSUME NEW p \in captured, ForwardNAT(p) PROVE TypeOK'
    <3>1. p \in Packet /\ p.conn \in Conns /\ KeyOf[p.conn] \in Keys
      BY DEF TypeOK, Packet
    <3>2. SessionAfter(sessions[KeyOf[p.conn]], p) \in SessionInfo
      BY <3>1, SessionAfterEffect
    <3>3. sessions' \in [Keys -> SessionInfo \cup {None}] /\ straggler' \in SUBSET Keys
      BY <2>5, <3>1, <3>2 DEF ForwardNAT, TypeOK
    <3>4. captured' \in SUBSET Packet /\ rewritten' \in SUBSET Rewritten
      BY <2>5, RewriteType DEF ForwardNAT
    <3> QED BY <2>5, <3>3, <3>4 DEF ForwardNAT, TypeOK
  <2>6. ASSUME NEW p \in captured, ReverseNAT(p) PROVE TypeOK'
    <3> DEFINE k == KeyOf[p.conn]
    <3>1. p.conn \in Conns /\ k \in Keys
      BY DEF TypeOK, Packet
    <3>2. sessions' \in [Keys -> SessionInfo \cup {None}]
      <4>1. CASE sessions[k] # None
        <5>1. sessions' = [sessions EXCEPT ![k].stale = FALSE]
          BY <2>6, <4>1 DEF ReverseNAT
        <5> QED BY <3>1, <4>1, <5>1, Touched
      <4>2. CASE sessions[k] = None
        BY <2>6, <4>2 DEF ReverseNAT, TypeOK
      <4> QED BY <4>1, <4>2
    <3>3. captured' \in SUBSET Packet /\ rewritten' \in SUBSET Rewritten
      <4>1. CASE sessions[k] # None
        <5>1. Rewrite(p, sessions[k].dst) /\ sessions[k].dst \in Dsts
          BY <2>6, <3>1, <4>1 DEF ReverseNAT, TypeOK, SessionInfo
        <5> QED BY <5>1, RewriteType
      <4>2. CASE sessions[k] = None
        <5>1. Rewrite(p, None)
          BY <2>6, <4>2 DEF ReverseNAT
        <5> QED BY <5>1, RewriteType
      <4> QED BY <4>1, <4>2
    <3> QED BY <2>6, <3>2, <3>3 DEF ReverseNAT, TypeOK
  <2>7. ASSUME NEW r \in rewritten, Send(r) PROVE TypeOK'
    <3>1. r.packet \in Packet /\ r.packet.conn \in Conns
          /\ rewritten' \in SUBSET Rewritten
      BY <2>7 DEF Send, TypeOK, Rewritten, Packet
    <3>2. CASE SendForward(r)
      <4>1. ProxyStack(r.packet)
        BY <3>2 DEF SendForward
      <4> QED BY <3>1, <3>2, <4>1, ProxyStackEffect DEF SendForward, TypeOK
    <3>3. CASE SendReverse(r)
      <4>1. client' \in [Conns -> ClientStates] /\ captured' \in SUBSET Packet
        <5>1. CASE ClientStack(r.packet, r.packet.conn)
          BY <3>1, <5>1, ClientStackEffect
        <5>2. CASE Answer({}) /\ UNCHANGED client
          BY <5>2, AnswerType DEF TypeOK
        <5> QED BY <3>3, <5>1, <5>2 DEF SendReverse
      <4>2. leg' \in [Conns -> LegStates]
        BY <3>1, <3>3 DEF SendReverse, TypeOK, LegStates
      <4> QED BY <3>1, <3>3, <4>1, <4>2 DEF SendReverse, TypeOK
    <3> QED BY <2>7, <3>2, <3>3 DEF Send
  <2>8. ASSUME NEW c \in Conns, LookupOriginalDestination(c) PROVE TypeOK'
    <3>1. sessions' \in [Keys -> SessionInfo \cup {None}]
      <4>0. KeyOf[c] \in Keys
        OBVIOUS
      <4>1. CASE sessions[KeyOf[c]] # None
        <5>1. sessions' = [sessions EXCEPT ![KeyOf[c]].stale = FALSE]
          BY <2>8, <4>1 DEF LookupOriginalDestination
        <5> QED BY <4>0, <4>1, <5>1, Touched
      <4>2. CASE sessions[KeyOf[c]] = None
        BY <2>8, <4>2 DEF LookupOriginalDestination, TypeOK
      <4> QED BY <4>1, <4>2
    <3>2. sessions[KeyOf[c]] # None => sessions[KeyOf[c]].dst \in Dsts
      BY DEF TypeOK, SessionInfo
    <3> QED BY <2>8, <3>1, <3>2 DEF LookupOriginalDestination, HandlerStates, TypeOK
  <2>9. ASSUME NEW c \in Conns, Respond(c) PROVE TypeOK'
    BY <2>9, CaptureType, BackType DEF Respond, TypeOK
  <2>10. ASSUME NEW c \in Conns, ReturnEarly(c) PROVE TypeOK'
    BY <2>10 DEF ReturnEarly, HandlerStates, TypeOK
  <2>11. ASSUME NEW c \in Conns, ReturnFromRelay(c) PROVE TypeOK'
    BY <2>11, CaptureType, BackType
    DEF ReturnFromRelay, CloseConn, LegStates, HandlerStates, TypeOK
  <2>12. ASSUME NEW c \in Conns, DeleteSession(c) PROVE TypeOK'
    BY <2>12 DEF DeleteSession, HandlerStates, TypeOK
  <2>13. ASSUME NEW c \in Conns, DeferredClose(c) PROVE TypeOK'
    BY <2>13, CaptureType, BackType
    DEF DeferredClose, CloseConn, LegStates, HandlerStates, TypeOK
  <2>14. ASSUME NEW c \in Conns, FinRetransmit(c) PROVE TypeOK'
    BY <2>14, CaptureType, BackType DEF FinRetransmit, TypeOK
  <2>15. ASSUME NEW c \in Conns, LegTimeout(c) PROVE TypeOK'
    BY <2>15 DEF LegTimeout, LegStates, TypeOK
  <2>16. ASSUME NEW k \in Keys, Age(k) PROVE TypeOK'
    <3>1. rare + 1 \in 0..MaxRare
      BY <2>16, ConstantsAssumption DEF Age, TypeOK
    <3>2. sessions' \in [Keys -> SessionInfo \cup {None}]
      BY <2>16, Touched DEF Age
    <3> QED BY <2>16, <3>1, <3>2 DEF Age, TypeOK
  <2>17. ASSUME NEW k \in Keys, GcFindExpired(k) PROVE TypeOK'
    BY <2>17 DEF GcFindExpired, TypeOK
  <2>18. CASE GcDelete
    BY <2>18 DEF GcDelete, TypeOK
  <2>19. CASE UNCHANGED vars
    BY <2>19 DEF vars, TypeOK
  <2>20. QED
    BY <2>1, <2>2, <2>3, <2>4, <2>5, <2>6, <2>7, <2>8, <2>9, <2>10, <2>11,
       <2>12, <2>13, <2>14, <2>15, <2>16, <2>17, <2>18, <2>19
    DEF Next, ClientStep, HandlerStep, HandlerProgress, Process, GcStep
<1>3. QED
  BY <1>1, <1>2, PTL DEF Spec

-----------------------------------------------------------------------------
(* Routing: no misrouting without stragglers.                              *)

\* Steps that only capture packets of connections already opened, take legs
\* away, or move a handler that exists.
LEMMA RoutingPreserved ==
    ASSUME RoutingInv, TypeOK',
           UNCHANGED <<latest, straggler>>,
           \A c \in Conns : orig'[c] \in {orig[c], None},
           \A c \in Conns : client[c] = "idle" <=> client'[c] = "idle",
           \A c \in Conns : Live(c)' => Live(c),
           \A c \in Conns : Seen(c)' => Seen(c),
           \A k \in Keys : sessions'[k] # None =>
               sessions[k] # None /\ sessions'[k].dst = sessions[k].dst,
           \A q \in captured' : q \in captured \/
               \E c \in Conns : q.conn = c /\ client[c] # "idle",
           \A r \in rewritten' : r \in rewritten \/
               \E c \in Conns : r.packet.conn = c /\ client[c] # "idle"
    PROVE  RoutingInv'
<1>1. LiveIsLatest'
  BY DEF RoutingInv, LiveIsLatest
<1>2. IdleIsUnknown'
  BY DEF RoutingInv, IdleIsUnknown
<1>3. SessionOfLatest'
  BY DEF RoutingInv, SessionOfLatest, TypeOK
<1>4. MisrouteNeedsStraggler'
  BY DEF RoutingInv, MisrouteNeedsStraggler
<1> QED BY <1>1, <1>2, <1>3, <1>4 DEF RoutingInv

\* Every step keeps the routing invariant.
LEMMA RoutingStep == RoutingInv /\ TypeOK' /\ [Next]_vars => RoutingInv'
<1> SUFFICES ASSUME RoutingInv, TypeOK', [Next]_vars PROVE RoutingInv'
  OBVIOUS
<1>0. TypeOK
  BY DEF RoutingInv
<1>1. ASSUME NEW c \in Conns, ClientConnect(c) PROVE RoutingInv'
  <2> DEFINE k == KeyOf[c]
  <2>1. /\ client' = [client EXCEPT ![c] = "syn"]
        /\ latest' = [latest EXCEPT ![k] = c]
        /\ UNCHANGED <<leg, handler, orig, sessions, rewritten, straggler>>
        /\ \A d \in Conns : KeyOf[d] = k => ~Live(d)
        /\ ~Seen(c) /\ orig[c] = None
    BY <1>1 DEF ClientConnect, RoutingInv, IdleIsUnknown
  <2>2. \A d \in Conns : d # c => client'[d] = client[d]
    BY <1>0, <2>1 DEF TypeOK
  <2>3. client'[c] = "syn" /\ latest'[k] = c
        /\ \A j \in Keys : j # k => latest'[j] = latest[j]
    BY <1>0, <2>1 DEF TypeOK
  <2>4. \A q \in captured' : q \in captured \/ q.conn = c
    BY <1>0, <1>1, CaptureType, OutType DEF ClientConnect
  <2> HIDE DEF k
  <2>5. LiveIsLatest'
    <3> SUFFICES ASSUME NEW d \in Conns, Live(d)' PROVE latest'[KeyOf[d]] = d
      BY DEF LiveIsLatest
    <3>1. CASE d = c
      BY <2>3, <3>1 DEF k
    <3>2. CASE d # c
      <4>1. Live(d)
        BY <2>2, <3>2 DEF Live
      <4> QED BY <2>1, <2>3, <3>2, <4>1 DEF RoutingInv, LiveIsLatest
    <3> QED BY <3>1, <3>2
  <2>6. IdleIsUnknown'
    <3> SUFFICES ASSUME NEW d \in Conns, client'[d] = "idle"
                 PROVE  /\ ~Seen(d)'
                        /\ orig'[d] = None
                        /\ latest'[KeyOf[d]] # d
                        /\ \A q \in captured' : q.conn # d
                        /\ \A r \in rewritten' : r.packet.conn # d
      BY DEF IdleIsUnknown
    <3>1. d # c /\ client[d] = "idle"
      BY <2>2, <2>3
    <3> QED BY <2>1, <2>3, <2>4, <3>1 DEF RoutingInv, IdleIsUnknown, Seen
  <2>7. SessionOfLatest'
    <3> SUFFICES ASSUME NEW d \in Conns, latest'[KeyOf[d]] = d,
                        KeyOf[d] \notin straggler', Seen(d)',
                        sessions'[KeyOf[d]] # None
                 PROVE  sessions'[KeyOf[d]].dst = DstOf[d]
      BY DEF SessionOfLatest
    <3>1. d # c
      BY <2>1 DEF Seen
    <3>2. latest[KeyOf[d]] = d
      BY <2>3, <3>1
    <3> QED BY <2>1, <3>2 DEF RoutingInv, SessionOfLatest, Seen
  <2>8. MisrouteNeedsStraggler'
    BY <2>1, <2>2 DEF RoutingInv, MisrouteNeedsStraggler, Live
  <2> QED BY <2>5, <2>6, <2>7, <2>8 DEF RoutingInv
<1>2. ASSUME NEW p \in captured, ForwardNAT(p) PROVE RoutingInv'
  <2> DEFINE c == p.conn
             k == KeyOf[c]
  <2>1. p \in Packet /\ c \in Conns /\ k \in Keys
    BY <1>0 DEF TypeOK, Packet
  <2>2. /\ sessions' = [sessions EXCEPT ![k] = SessionAfter(sessions[k], p)]
        /\ straggler' = IF c # latest[k] THEN straggler \cup {k} ELSE straggler
        /\ Rewrite(p, None)
        /\ UNCHANGED <<client, latest, leg, handler, orig>>
    BY <1>2 DEF ForwardNAT
  <2>3. client[c] # "idle"
    BY <2>1 DEF RoutingInv, IdleIsUnknown
  <2>4. /\ captured' \subseteq captured
        /\ \A r \in rewritten' : r \in rewritten \/ r.packet.conn = c
    BY <1>0, <2>2, RewriteType
  <2>5. sessions'[k].dst = DstOf[c] /\ \A j \in Keys \ {k} : sessions'[j] = sessions[j]
    BY <1>0, <2>1, <2>2, SessionAfterEffect DEF TypeOK
  <2> HIDE DEF k, c
  <2>6. LiveIsLatest'
    BY <2>2 DEF RoutingInv, LiveIsLatest, Live
  <2>7. IdleIsUnknown'
    <3> SUFFICES ASSUME NEW d \in Conns, client[d] = "idle"
                 PROVE  /\ ~Seen(d)' /\ \A q \in captured' : q.conn # d
                        /\ \A r \in rewritten' : r.packet.conn # d
      BY <2>2 DEF RoutingInv, IdleIsUnknown
    <3>1. d # c
      BY <2>3
    <3> QED BY <2>2, <2>4, <3>1 DEF RoutingInv, IdleIsUnknown, Seen
  <2>8. SessionOfLatest'
    <3> SUFFICES ASSUME NEW d \in Conns, latest[KeyOf[d]] = d,
                        KeyOf[d] \notin straggler', Seen(d)',
                        sessions'[KeyOf[d]] # None
                 PROVE  sessions'[KeyOf[d]].dst = DstOf[d]
      BY <2>2 DEF SessionOfLatest
    <3>1. CASE KeyOf[d] = k
      BY <2>2, <2>5, <3>1
    <3>2. CASE KeyOf[d] # k
      <4>1. d # c /\ KeyOf[d] \notin straggler
        BY <2>2, <3>2 DEF k
      <4>2. Seen(d)
        BY <2>2, <2>4, <4>1 DEF Seen
      <4> QED BY <2>5, <3>2, <4>1, <4>2 DEF RoutingInv, SessionOfLatest
    <3> QED BY <3>1, <3>2
  <2>9. MisrouteNeedsStraggler'
    BY <2>2 DEF RoutingInv, MisrouteNeedsStraggler, Live
  <2> QED BY <2>6, <2>7, <2>8, <2>9 DEF RoutingInv
<1>3. ASSUME NEW c \in Conns, LookupOriginalDestination(c) PROVE RoutingInv'
  <2> DEFINE k == KeyOf[c]
  <2>1. k \in Keys /\ Seen(c) /\ handler[c] = "accepted"
    BY <1>3 DEF LookupOriginalDestination, Seen
  <2>2. /\ UNCHANGED <<client, latest, leg, captured, rewritten, straggler>>
        /\ \A d \in Conns : d # c => orig'[d] = orig[d] /\ handler'[d] = handler[d]
        /\ handler'[c] # "none"
    BY <1>0, <1>3 DEF LookupOriginalDestination, TypeOK
  <2>3. \A j \in Keys : sessions'[j] # None =>
            sessions[j] # None /\ sessions'[j].dst = sessions[j].dst
    <3>1. CASE sessions[k] # None
      <4>1. sessions' = [sessions EXCEPT ![k].stale = FALSE]
        BY <1>3, <3>1 DEF LookupOriginalDestination
      <4> QED BY <1>0, <2>1, <3>1, <4>1, Touched
    <3>2. CASE sessions[k] = None
      BY <1>3, <3>2 DEF LookupOriginalDestination
    <3> QED BY <3>1, <3>2
  <2>4. \/ sessions[k] # None /\ orig'[c] = sessions[k].dst
        \/ orig'[c] = orig[c]
    BY <1>0, <1>3 DEF LookupOriginalDestination, TypeOK
  <2>5. LiveIsLatest'
    BY <2>2 DEF RoutingInv, LiveIsLatest, Live
  <2>6. client[c] # "idle"
    BY <2>1 DEF RoutingInv, IdleIsUnknown
  <2>7. IdleIsUnknown'
    BY <2>2, <2>6 DEF RoutingInv, IdleIsUnknown, Seen
  <2>8. \A d \in Conns : Seen(d)' => Seen(d)
    BY <2>1, <2>2 DEF Seen
  <2>9. SessionOfLatest'
    BY <2>2, <2>3, <2>8 DEF RoutingInv, SessionOfLatest
  <2>10. MisrouteNeedsStraggler'
    <3> SUFFICES ASSUME NEW d \in Conns, Live(d), orig'[d] # None,
                        KeyOf[d] \notin straggler
                 PROVE  orig'[d] = DstOf[d]
      BY <2>2 DEF MisrouteNeedsStraggler, Live
    <3>1. latest[KeyOf[d]] = d
      BY DEF RoutingInv, LiveIsLatest
    <3>2. CASE d = c /\ sessions[k] # None /\ orig'[c] = sessions[k].dst
      BY <2>1, <3>1, <3>2 DEF RoutingInv, SessionOfLatest
    <3>3. CASE orig'[d] = orig[d]
      BY <3>3 DEF RoutingInv, MisrouteNeedsStraggler
    <3> QED BY <2>2, <2>4, <3>2, <3>3
  <2> QED BY <2>5, <2>7, <2>9, <2>10 DEF RoutingInv
<1>4. ASSUME NEW c \in Conns,
             ClientSend(c) \/ ClientClose(c) \/ ClientLate(c)
      PROVE  RoutingInv'
  <2>1. client[c] # "idle"
        /\ UNCHANGED <<latest, straggler, orig, leg, handler, sessions, rewritten>>
    BY <1>4 DEF ClientSend, ClientClose, ClientLate, Live
  <2>2. client' = client \/ client' = [client EXCEPT ![c] = "closed"]
    BY <1>4 DEF ClientSend, ClientClose, ClientLate
  <2>3. \E kind \in {"syn", "seg", "fin", "rst"} : Capture(Out(c, kind))
    BY <1>4 DEF ClientSend, ClientClose, ClientLate
  <2>4. \A q \in captured' : q \in captured \/ q.conn = c
    BY <1>0, <2>3, CaptureType, OutType
  <2>5. \A d \in Conns : /\ client[d] = "idle" <=> client'[d] = "idle"
                         /\ Live(d)' => Live(d)
    BY <1>0, <2>1, <2>2 DEF TypeOK, Live
  <2> QED BY <2>1, <2>4, <2>5, RoutingPreserved DEF Seen
<1>5. ASSUME NEW p \in captured, ReverseNAT(p) PROVE RoutingInv'
  <2> DEFINE k == KeyOf[p.conn]
  <2>1. p.conn \in Conns /\ k \in Keys
    BY <1>0 DEF TypeOK, Packet
  <2>2. client[p.conn] # "idle"
    BY <2>1 DEF RoutingInv, IdleIsUnknown
  <2>3. UNCHANGED <<client, latest, straggler, orig, leg, handler>> /\ p.dir = "back"
    BY <1>5 DEF ReverseNAT
  <2>4. \A j \in Keys : sessions'[j] # None =>
            sessions[j] # None /\ sessions'[j].dst = sessions[j].dst
    <3>1. CASE sessions[k] # None
      <4>1. sessions' = [sessions EXCEPT ![k].stale = FALSE]
        BY <1>5, <3>1 DEF ReverseNAT
      <4> QED BY <1>0, <2>1, <3>1, <4>1, Touched
    <3>2. CASE sessions[k] = None
      BY <1>5, <3>2 DEF ReverseNAT
    <3> QED BY <3>1, <3>2
  <2>5. /\ captured' \subseteq captured
        /\ \A r \in rewritten' : r \in rewritten \/ r.packet = p
    BY <1>5 DEF ReverseNAT, Rewrite
  <2>6. \A d \in Conns : Seen(d)' => Seen(d)
    BY <2>3, <2>5 DEF Seen
  <2> QED BY <2>1, <2>2, <2>3, <2>4, <2>5, <2>6, RoutingPreserved DEF Live
<1>6. ASSUME NEW r \in rewritten, Send(r) PROVE RoutingInv'
  <2> DEFINE p == r.packet
             c == p.conn
  <2>1. p \in Packet /\ c \in Conns /\ rewritten' \subseteq rewritten
    BY <1>0, <1>6 DEF Send, TypeOK, Rewritten, Packet
  <2>2. client[c] # "idle"
    BY <2>1 DEF RoutingInv, IdleIsUnknown
  <2>3. CASE SendForward(r)
    <3>1. /\ UNCHANGED <<client, latest, straggler, orig, sessions>>
          /\ ProxyStack(p) /\ p.dir = "out"
      BY <2>3 DEF SendForward
    <3>2. Seen(c)
      BY <3>1 DEF Seen
    <3> HIDE DEF p
    <3>3. /\ \A q \in captured' : q \in captured \/ q.conn = c
          /\ \A d \in Conns \ {c} : leg'[d] \in {leg[d], "none"}
          /\ \A d \in Conns \ {c} : handler'[d] = handler[d]
      BY <1>0, <2>1, <3>1, ProxyStackEffect
    <3> HIDE DEF c
    <3>4. \A d \in Conns : Seen(d)' => Seen(d)
      BY <2>1, <3>2, <3>3 DEF Seen
    <3> QED BY <2>1, <2>2, <3>1, <3>3, <3>4, RoutingPreserved DEF Live
  <2>4. CASE SendReverse(r)
    <3>1. /\ UNCHANGED <<latest, straggler, orig, handler, sessions>>
          /\ leg' \in {leg, [leg EXCEPT ![c] = "none"]}
      BY <2>4 DEF SendReverse
    <3>2. \A d \in Conns : Seen(d)' => Seen(d)
      BY <1>0, <2>1, <3>1 DEF Seen, TypeOK
    <3>3. CASE ClientStack(p, c)
      <4> HIDE DEF p
      <4>1. /\ \A q \in captured' : q \in captured \/ q.conn = c
            /\ \A d \in Conns \ {c} : client'[d] = client[d]
            /\ \/ client'[c] \in {client[c], "closed"}
               \/ client[c] = "syn" /\ client'[c] = "open"
        BY <1>0, <2>1, <3>3, ClientStackEffect
      <4> HIDE DEF c
      <4>2. \A d \in Conns : /\ client[d] = "idle" <=> client'[d] = "idle"
                             /\ Live(d)' => Live(d)
        BY <2>1, <2>2, <4>1 DEF Live
      <4> QED BY <2>1, <2>2, <3>1, <3>2, <4>1, <4>2, RoutingPreserved
    <3>4. CASE Answer({}) /\ UNCHANGED client
      <4>1. \A q \in captured' : q \in captured
        BY <3>4 DEF Answer
      <4> QED BY <2>1, <3>1, <3>2, <3>4, <4>1, RoutingPreserved DEF Live
    <3> QED BY <2>4, <3>3, <3>4 DEF SendReverse
  <2> QED BY <1>6, <2>3, <2>4 DEF Send
<1>7. ASSUME NEW c \in Conns,
             \/ Respond(c) \/ ReturnEarly(c) \/ ReturnFromRelay(c)
             \/ DeleteSession(c) \/ DeferredClose(c)
             \/ FinRetransmit(c) \/ LegTimeout(c)
      PROVE  RoutingInv'
  <2> USE DEF Respond, ReturnEarly, ReturnFromRelay, DeleteSession,
              DeferredClose, FinRetransmit, LegTimeout, CloseConn
  <2>1. /\ Seen(c) /\ UNCHANGED <<client, latest, straggler, rewritten>>
        /\ \A d \in Conns : orig'[d] \in {orig[d], None}
    BY <1>0, <1>7 DEF Seen, TypeOK
  <2>2. client[c] # "idle"
    BY <2>1 DEF RoutingInv, IdleIsUnknown
  <2>3. UNCHANGED captured \/ \E kind \in {"seg", "fin"} : Capture(Back(c, kind))
    BY <1>7
  <2>4. \A q \in captured' : q \in captured \/ q.conn = c
    BY <1>0, <2>3, CaptureType, BackType
  <2>5. \A d \in Conns : Seen(d)' => Seen(d)
    <3>1. \A d \in Conns : d # c => leg'[d] = leg[d] /\ handler'[d] = handler[d]
      BY <1>0, <1>7 DEF TypeOK
    <3> QED BY <2>1, <3>1 DEF Seen
  <2>6. \A k \in Keys : sessions'[k] \in {sessions[k], None}
    BY <1>0, <1>7 DEF TypeOK
  <2> QED BY <2>1, <2>2, <2>4, <2>5, <2>6, RoutingPreserved DEF Live
<1>8. CASE GcStep
  <2>1. UNCHANGED <<client, latest, straggler, orig, leg, handler, captured, rewritten>>
    BY <1>8 DEF GcStep, GcDelete, Age, GcFindExpired
  <2>2. \A j \in Keys : sessions'[j] # None =>
            sessions[j] # None /\ sessions'[j].dst = sessions[j].dst
    <3>1. ASSUME NEW k \in Keys, Age(k)
          PROVE  \A j \in Keys : sessions'[j] # None =>
                     sessions[j] # None /\ sessions'[j].dst = sessions[j].dst
      BY <1>0, <3>1, Touched DEF Age
    <3>2. CASE GcDelete \/ \E k \in Keys : GcFindExpired(k)
      BY <1>0, <3>2 DEF GcDelete, GcFindExpired, TypeOK
    <3> QED BY <1>8, <3>1, <3>2 DEF GcStep
  <2> QED BY <2>1, <2>2, RoutingPreserved DEF Seen, Live
<1>9. CASE UNCHANGED vars
  BY <1>9, RoutingPreserved DEF vars, Seen, Live
<1>10. QED
  BY <1>1, <1>2, <1>3, <1>4, <1>5, <1>6, <1>7, <1>8, <1>9
  DEF Next, ClientStep, HandlerStep, HandlerProgress, Process

\* Whatever the connections, endpoints, destinations and bounds: a handler
\* serving a live connection has looked up the destination its client
\* dialled, unless a superseded connection's packet was processed after the
\* endpoint was reused.
THEOREM RoutingCorrect == Spec => []MisrouteNeedsStraggler
<1>1. Init => RoutingInv
  <2>1. Init => TypeOK
    BY DEF Init, TypeOK, ClientStates, LegStates, HandlerStates
  <2>2. Init => /\ LiveIsLatest /\ IdleIsUnknown /\ SessionOfLatest
                /\ MisrouteNeedsStraggler
    BY DEF Init, LiveIsLatest, IdleIsUnknown, SessionOfLatest,
           MisrouteNeedsStraggler, Live, Seen
  <2> QED BY <2>1, <2>2 DEF RoutingInv
<1>2. RoutingInv => MisrouteNeedsStraggler
  BY DEF RoutingInv
<1>3. QED
  BY <1>1, <1>2, RoutingStep, TypeCorrect, PTL DEF Spec

-----------------------------------------------------------------------------
(* Lookups: a session is only missed when something has deleted it.        *)

\* An excuse lasts: an endpoint's age is never forgotten, and a handler past
\* its DeleteSession never comes back.
LEMMA ExcuseLasts ==
    ASSUME NEW c \in Conns, Excused(c),
           \A k \in Keys : k \in aged => k \in aged',
           \A d \in Conns : handler[d] \in {"deleted", "done"}
                                => handler'[d] \in {"deleted", "done"}
    PROVE  Excused(c)'
BY DEF Excused

\* Steps that take away no session that may still be looked up.
LEMMA LookupPreserved ==
    ASSUME LookupInv, TypeOK', HalfOpenIsUnserved',
           gc' # None => gc' \in aged',
           \A k \in Keys : k \in aged => k \in aged',
           \A k \in Keys : sessions'[k] # None =>
               (sessions'[k].stale => k \in aged'),
           \A d \in Conns : handler[d] \in {"deleted", "done"}
                                => handler'[d] \in {"deleted", "done"},
           \A c \in Conns : handler'[c] = "explicit" => handler[c] = "explicit",
           \A c \in Conns : Seen(c)' /\ handler'[c] \in {"none", "accepted"} =>
               \/ sessions'[KeyOf[c]] # None
               \/ Excused(c)'
               \/ /\ Seen(c) /\ handler[c] \in {"none", "accepted"}
                  /\ sessions[KeyOf[c]] # None => sessions'[KeyOf[c]] # None
    PROVE  LookupInv'
<1>1. ExpiredIsAged'
  BY DEF ExpiredIsAged
<1>2. SeenHasSession'
  <2> SUFFICES ASSUME NEW c \in Conns, Seen(c)',
                      handler'[c] \in {"none", "accepted"}, ~Excused(c)'
               PROVE  sessions'[KeyOf[c]] # None
    BY DEF SeenHasSession
  <2>1. ~Excused(c)
    BY ExcuseLasts
  <2> QED BY <2>1 DEF LookupInv, SeenHasSession
<1>3. MissNeedsDeletion'
  <2> SUFFICES ASSUME NEW c \in Conns, handler'[c] = "explicit"
               PROVE  Excused(c)'
    BY DEF MissNeedsDeletion, Excused
  <2>1. Excused(c)
    BY DEF LookupInv, MissNeedsDeletion, Excused
  <2> QED BY <2>1, ExcuseLasts
<1> QED BY <1>1, <1>2, <1>3 DEF LookupInv

\* Every step keeps the lookup invariant.
LEMMA LookupStep == LookupInv /\ TypeOK' /\ [Next]_vars => LookupInv'
<1> SUFFICES ASSUME LookupInv, TypeOK', [Next]_vars PROVE LookupInv'
  OBVIOUS
<1>0. TypeOK /\ HalfOpenIsUnserved /\ SeenHasSession
      /\ (gc # None => gc \in aged)
      /\ \A k \in Keys : sessions[k] # None => (sessions[k].stale => k \in aged)
  BY DEF LookupInv, ExpiredIsAged
<1>1. ASSUME NEW c \in Conns,
             ClientConnect(c) \/ ClientSend(c) \/ ClientClose(c) \/ ClientLate(c)
      PROVE  LookupInv'
  <2>1. UNCHANGED <<leg, handler, sessions, rewritten, gc, aged>>
    BY <1>1 DEF ClientConnect, ClientSend, ClientClose, ClientLate
  <2> QED BY <1>0, <2>1, LookupPreserved DEF Seen, HalfOpenIsUnserved
<1>2. ASSUME NEW p \in captured, ForwardNAT(p) PROVE LookupInv'
  <2> DEFINE c == p.conn
             k == KeyOf[c]
  <2>1. p \in Packet /\ c \in Conns /\ k \in Keys
    BY <1>0 DEF TypeOK, Packet
  <2>2. /\ sessions' = [sessions EXCEPT ![k] = SessionAfter(sessions[k], p)]
        /\ Rewrite(p, None)
        /\ UNCHANGED <<leg, handler, gc, aged>>
    BY <1>2 DEF ForwardNAT
  <2>3. /\ sessions'[k] # None /\ ~sessions'[k].stale
        /\ \A j \in Keys \ {k} : sessions'[j] = sessions[j]
    BY <1>0, <2>1, <2>2, SessionAfterEffect DEF TypeOK
  <2>4. \A r \in rewritten' : r \in rewritten \/ r.packet.conn = c
    BY <1>0, <2>2, RewriteType
  <2> HIDE DEF c
  <2>5. HalfOpenIsUnserved'
    BY <1>0, <2>2 DEF HalfOpenIsUnserved
  <2>6. \A d \in Conns : Seen(d)' /\ handler'[d] \in {"none", "accepted"} =>
            \/ sessions'[KeyOf[d]] # None
            \/ /\ Seen(d) /\ handler[d] \in {"none", "accepted"}
               /\ sessions[KeyOf[d]] # None => sessions'[KeyOf[d]] # None
    <3> SUFFICES ASSUME NEW d \in Conns, Seen(d)',
                        handler'[d] \in {"none", "accepted"}
                 PROVE  \/ sessions'[KeyOf[d]] # None
                        \/ /\ Seen(d) /\ handler[d] \in {"none", "accepted"}
                           /\ sessions[KeyOf[d]] # None => sessions'[KeyOf[d]] # None
      OBVIOUS
    <3>1. CASE KeyOf[d] = k
      BY <2>3, <3>1
    <3>2. CASE KeyOf[d] # k
      BY <2>2, <2>3, <2>4, <3>2 DEF Seen
    <3> QED BY <3>1, <3>2
  <2>7. \A j \in Keys : sessions'[j] # None => (sessions'[j].stale => j \in aged')
    BY <1>0, <2>2, <2>3
  <2> QED BY <1>0, <2>2, <2>5, <2>6, <2>7, LookupPreserved
<1>3. ASSUME NEW c \in Conns, LookupOriginalDestination(c) PROVE LookupInv'
  <2> DEFINE k == KeyOf[c]
  <2>1. /\ k \in Keys /\ handler[c] = "accepted" /\ Seen(c)
        /\ UNCHANGED <<leg, rewritten, gc, aged>>
        /\ \A d \in Conns : d # c => handler'[d] = handler[d]
    BY <1>0, <1>3 DEF LookupOriginalDestination, Seen, TypeOK
  <2>2. HalfOpenIsUnserved'
    BY <1>0, <2>1 DEF HalfOpenIsUnserved
  <2>3. CASE sessions[k] # None
    <3>1. sessions' = [sessions EXCEPT ![k].stale = FALSE] /\ handler'[c] = "serving"
      BY <1>0, <1>3, <2>3 DEF LookupOriginalDestination, TypeOK
    <3>2. /\ \A j \in Keys : sessions[j] # None => sessions'[j] # None
          /\ \A j \in Keys : sessions'[j] # None => (sessions'[j].stale => j \in aged)
      BY <1>0, <2>1, <2>3, <3>1, Refreshed
    <3> QED BY <1>0, <2>1, <2>2, <3>1, <3>2, LookupPreserved DEF Seen
  <2>4. CASE sessions[k] = None
    <3>1. UNCHANGED sessions /\ handler'[c] = "explicit"
      BY <1>0, <1>3, <2>4 DEF LookupOriginalDestination, TypeOK
    <3>2. Excused(c)
      BY <1>0, <2>1, <2>4 DEF SeenHasSession
    <3>3. \A d \in Conns : handler[d] \in {"deleted", "done"}
                               => handler'[d] \in {"deleted", "done"}
      BY <2>1
    <3>4. \A d \in Conns : Excused(d) => Excused(d)'
      BY <2>1, <3>3, ExcuseLasts
    <3>5. MissNeedsDeletion'
      BY <2>1, <3>1, <3>2, <3>4 DEF LookupInv, MissNeedsDeletion, Excused
    <3>6. ExpiredIsAged'
      BY <1>0, <2>1, <3>1 DEF ExpiredIsAged
    <3>7. SeenHasSession'
      BY <1>0, <2>1, <3>1, <3>4 DEF SeenHasSession, Seen
    <3> QED BY <2>2, <3>5, <3>6, <3>7 DEF LookupInv
  <2> QED BY <2>3, <2>4
<1>4. ASSUME NEW p \in captured, ReverseNAT(p) PROVE LookupInv'
  <2> DEFINE k == KeyOf[p.conn]
  <2>1. p.conn \in Conns /\ k \in Keys
    BY <1>0 DEF TypeOK, Packet
  <2>2. UNCHANGED <<leg, handler, gc, aged>> /\ p.dir = "back"
    BY <1>4 DEF ReverseNAT
  <2>3. /\ \A j \in Keys : sessions[j] # None => sessions'[j] # None
        /\ \A j \in Keys : sessions'[j] # None => (sessions'[j].stale => j \in aged)
    <3>1. CASE sessions[k] # None
      <4>1. sessions' = [sessions EXCEPT ![k].stale = FALSE]
        BY <1>4, <3>1 DEF ReverseNAT
      <4> QED BY <1>0, <2>1, <3>1, <4>1, Refreshed
    <3>2. CASE sessions[k] = None
      BY <1>0, <1>4, <3>2 DEF ReverseNAT
    <3> QED BY <3>1, <3>2
  <2>4. \A r \in rewritten' : r \in rewritten \/ r.packet = p
    BY <1>4 DEF ReverseNAT, Rewrite
  <2>5. \A d \in Conns : Seen(d)' => Seen(d)
    BY <2>2, <2>4 DEF Seen
  <2>6. HalfOpenIsUnserved'
    BY <1>0, <2>2 DEF HalfOpenIsUnserved
  <2> QED BY <1>0, <2>2, <2>3, <2>5, <2>6, LookupPreserved
<1>5. ASSUME NEW r \in rewritten, Send(r) PROVE LookupInv'
  <2> DEFINE p == r.packet
             c == p.conn
  <2>1. p \in Packet /\ c \in Conns /\ rewritten' \subseteq rewritten
    BY <1>0, <1>5 DEF Send, TypeOK, Rewritten, Packet
  <2>2. CASE SendForward(r)
    <3>1. UNCHANGED <<sessions, gc, aged>> /\ ProxyStack(p) /\ p.dir = "out"
      BY <2>2 DEF SendForward
    <3>2. Seen(c)
      BY <3>1 DEF Seen
    <3> HIDE DEF p
    <3>3. /\ \A d \in Conns \ {c} : leg'[d] \in {leg[d], "none"}
          /\ \A d \in Conns \ {c} : handler'[d] = handler[d]
          /\ \/ /\ handler'[c] = handler[c]
                /\ leg'[c] = "synrcvd" => leg[c] = "synrcvd" \/ handler[c] = "none"
             \/ /\ leg[c] = "synrcvd" /\ leg'[c] = "estab"
                /\ handler'[c] = "accepted"
      BY <1>0, <2>1, <3>1, ProxyStackEffect
    <3> HIDE DEF c
    <3>4. HalfOpenIsUnserved'
      BY <1>0, <3>3 DEF HalfOpenIsUnserved
    <3>5. \A d \in Conns : handler[d] \in {"deleted", "done"}
                               => handler'[d] \in {"deleted", "done"}
      BY <1>0, <3>3 DEF HalfOpenIsUnserved
    <3>6. \A d \in Conns : handler'[d] = "explicit" => handler[d] = "explicit"
      BY <3>3
    <3>7. \A d \in Conns : Seen(d)' /\ handler'[d] \in {"none", "accepted"} =>
              Seen(d) /\ handler[d] \in {"none", "accepted"}
      <4> SUFFICES ASSUME NEW d \in Conns, Seen(d)', handler'[d] \in {"none", "accepted"}
                   PROVE  Seen(d) /\ handler[d] \in {"none", "accepted"}
        OBVIOUS
      <4>1. CASE d = c
        BY <1>0, <2>1, <3>2, <3>3, <4>1 DEF HalfOpenIsUnserved
      <4>2. CASE d # c
        BY <2>1, <3>3, <4>2 DEF Seen
      <4> QED BY <4>1, <4>2
    <3> QED BY <1>0, <3>1, <3>4, <3>5, <3>6, <3>7, LookupPreserved
  <2>3. CASE SendReverse(r)
    <3>1. UNCHANGED <<handler, sessions, gc, aged>>
          /\ leg' \in {leg, [leg EXCEPT ![c] = "none"]}
      BY <2>3 DEF SendReverse
    <3>2. \A d \in Conns : leg'[d] \in {leg[d], "none"}
      BY <1>0, <2>1, <3>1 DEF TypeOK
    <3>3. \A d \in Conns : Seen(d)' => Seen(d)
      BY <2>1, <3>1, <3>2 DEF Seen
    <3> QED BY <1>0, <3>1, <3>2, <3>3, LookupPreserved DEF HalfOpenIsUnserved
  <2> QED BY <1>5, <2>2, <2>3 DEF Send
<1>6. ASSUME NEW c \in Conns,
             \/ Respond(c) \/ ReturnEarly(c) \/ ReturnFromRelay(c)
             \/ DeferredClose(c) \/ FinRetransmit(c) \/ LegTimeout(c)
      PROVE  LookupInv'
  <2> USE DEF Respond, ReturnEarly, ReturnFromRelay, DeferredClose,
              FinRetransmit, LegTimeout, CloseConn
  <2>1. UNCHANGED <<sessions, rewritten, gc, aged>>
    BY <1>6
  <2>2. \A d \in Conns : leg'[d] \in {leg[d], "none"} \/
            (leg[d] # "none" /\ leg'[d] = "finwait")
    BY <1>0, <1>6 DEF TypeOK
  <2>3. \A d \in Conns :
            \/ handler'[d] = handler[d]
            \/ handler[d] \in {"serving", "explicit"} /\ handler'[d] = "returned"
            \/ handler[d] = "deleted" /\ handler'[d] = "done"
    BY <1>0, <1>6 DEF TypeOK
  <2>4. HalfOpenIsUnserved'
    BY <1>0, <2>2, <2>3 DEF HalfOpenIsUnserved
  <2> QED BY <1>0, <2>1, <2>2, <2>3, <2>4, LookupPreserved DEF Seen
<1>7. ASSUME NEW c \in Conns, DeleteSession(c) PROVE LookupInv'
  <2> DEFINE k == KeyOf[c]
  <2>1. /\ k \in Keys /\ handler[c] = "returned" /\ handler'[c] = "deleted"
        /\ UNCHANGED <<leg, rewritten, gc, aged>>
        /\ \A d \in Conns : d # c => handler'[d] = handler[d]
        /\ sessions' = [sessions EXCEPT ![k] = None]
    BY <1>0, <1>7 DEF DeleteSession, TypeOK
  <2>2. sessions'[k] = None /\ \A j \in Keys : j # k => sessions'[j] = sessions[j]
    BY <1>0, <2>1 DEF TypeOK
  <2>3. \A d \in Conns : d # c /\ KeyOf[d] = k => Excused(d)'
    BY <2>1 DEF Excused
  <2>4. HalfOpenIsUnserved'
    BY <1>0, <2>1 DEF HalfOpenIsUnserved
  <2>5. \A d \in Conns : Seen(d)' /\ handler'[d] \in {"none", "accepted"} =>
            \/ Excused(d)'
            \/ /\ Seen(d) /\ handler[d] \in {"none", "accepted"}
               /\ sessions[KeyOf[d]] # None => sessions'[KeyOf[d]] # None
    BY <2>1, <2>2, <2>3 DEF Seen
  <2> QED BY <1>0, <2>1, <2>2, <2>4, <2>5, LookupPreserved
<1>8. ASSUME NEW k \in Keys, Age(k) PROVE LookupInv'
  <2>1. UNCHANGED <<leg, handler, rewritten, gc>> /\ aged' = aged \cup {k}
    BY <1>0, <1>8 DEF Age, TypeOK
  <2>2. /\ k \in aged'
        /\ \A j \in Keys : j \in aged => j \in aged'
    BY <1>0, <2>1 DEF TypeOK
  <2>3. /\ \A j \in Keys : sessions[j] # None => sessions'[j] # None
        /\ \A j \in Keys : j # k => sessions'[j] = sessions[j]
    BY <1>0, <1>8, Touched DEF Age
  <2>4. \A j \in Keys : sessions'[j] # None => (sessions'[j].stale => j \in aged')
    BY <1>0, <2>2, <2>3
  <2>5. gc' # None => gc' \in aged'
    BY <1>0, <2>1, <2>2 DEF TypeOK
  <2>6. \A j \in Keys : j \in aged => j \in aged'
    BY <2>2
  <2> QED BY <1>0, <2>1, <2>3, <2>4, <2>5, <2>6, LookupPreserved
          DEF Seen, HalfOpenIsUnserved
<1>9. ASSUME NEW k \in Keys, GcFindExpired(k) PROVE LookupInv'
  <2>1. UNCHANGED <<leg, handler, sessions, rewritten, aged>> /\ gc' = k /\ k \in aged
    BY <1>0, <1>9 DEF GcFindExpired
  <2> QED BY <1>0, <2>1, LookupPreserved DEF Seen, HalfOpenIsUnserved
<1>10. CASE GcDelete
  <2>1. /\ gc \in Keys /\ gc \in aged /\ gc' = None
        /\ sessions' = [sessions EXCEPT ![gc] = None]
        /\ UNCHANGED <<leg, handler, rewritten, aged>>
    BY <1>0, <1>10 DEF GcDelete, TypeOK
  <2>2. sessions'[gc] = None /\ \A j \in Keys : j # gc => sessions'[j] = sessions[j]
    BY <1>0, <2>1 DEF TypeOK
  <2>3. \A d \in Conns : KeyOf[d] = gc => Excused(d)'
    BY <2>1 DEF Excused
  <2> QED BY <1>0, <2>1, <2>2, <2>3, LookupPreserved DEF Seen, HalfOpenIsUnserved
<1>11. CASE UNCHANGED vars
  BY <1>0, <1>11, LookupPreserved DEF vars, Seen, HalfOpenIsUnserved
<1>12. QED
  BY <1>1, <1>2, <1>3, <1>4, <1>5, <1>6, <1>7, <1>8, <1>9, <1>10, <1>11
  DEF Next, ClientStep, HandlerStep, HandlerProgress, Process, GcStep

\* Whatever the connections, endpoints, destinations and bounds: handleClient
\* takes an intercepted connection for an explicit proxy request only after
\* another handler of the same endpoint, or the collector after a whole idle
\* TTL, may have deleted the session.
THEOREM LookupCorrect == Spec => []MissNeedsDeletion
<1>1. Init => LookupInv
  <2>1. Init => TypeOK
    BY DEF Init, TypeOK, ClientStates, LegStates, HandlerStates
  <2>2. Init => /\ HalfOpenIsUnserved /\ ExpiredIsAged /\ SeenHasSession
                /\ MissNeedsDeletion
    BY DEF Init, HalfOpenIsUnserved, ExpiredIsAged, SeenHasSession,
           MissNeedsDeletion, Seen
  <2> QED BY <2>1, <2>2 DEF LookupInv
<1>2. LookupInv => MissNeedsDeletion
  BY DEF LookupInv
<1>3. QED
  BY <1>1, <1>2, LookupStep, TypeCorrect, PTL DEF Spec

=============================================================================
