------------------------------- MODULE Filter -------------------------------
(***************************************************************************)
(* The filter engine (internal/filter/engine.go): compiling the lists of   *)
(* the configuration into a rule set, and deciding from a rule set whether *)
(* a destination is blocked.  The engine's one piece of state, the atomic  *)
(* pointer to the active rule set, is a variable of ConfigReload.          *)
(*                                                                         *)
(* A host name or a domain rule is a sequence of characters.  A            *)
(* destination is a record [name, ip]: ip is NoIP unless the text is an IP *)
(* literal, in which case it is the parsed address, an integer of          *)
(* AddrBits bits.  A rule of the IP list is [base, bits]: a single address *)
(* has bits = AddrBits and a text that parses as neither has bits = -1.    *)
(***************************************************************************)
EXTENDS Integers, Sequences, SequencesExt

CONSTANTS
    AddrBits,   \* width of an IP address
    Chars,      \* the characters of names and rules
    Patterns,   \* patterns and texts matchWildcard is tried on
    Texts

ASSUME AddrBitsAssumption ==
    AddrBits \in Nat /\ \A b \in 0 .. AddrBits : 2^b \in Nat \ {0}

ASSUME CharsAssumption ==
    /\ {"a", "b", "*", "."} \subseteq Chars
    /\ Patterns \subseteq Seq(Chars) /\ Texts \subseteq Seq(Chars)

NoIP == -1
Addresses == 0 .. 2^AddrBits - 1

-----------------------------------------------------------------------------
(* strings.ToLower, of a character, of a name and of a mode.               *)
LowerChar(c) == CASE c = "A" -> "a" [] c = "B" -> "b" [] OTHER -> c
ToLower(s) == [i \in DOMAIN s |-> LowerChar(s[i])]
LowerMode(m) == CASE m = "Blacklist" -> "blacklist"
                  [] m = "Whitelist" -> "whitelist"
                  [] m = "Off" -> "off"
                  [] OTHER -> m

AllPassModes == {"none", "off", "disabled", "all", "passthrough"}

(* net.SplitHostPort drops the port of a text with a single colon; a text  *)
(* it cannot split is kept.                                                *)
SplitHostPort(s) ==
  LET colons == {i \in DOMAIN s : s[i] = ":"}
  IN  IF \E i \in colons : colons = {i}
      THEN SubSeq(s, 1, (CHOOSE i \in colons : TRUE) - 1)
      ELSE s

TrimDot(s) == IF s # <<>> /\ Last(s) = "." THEN Front(s) ELSE s

-----------------------------------------------------------------------------
(* UpdateRules: the rule set compiled from a mode and two lists.  A rule   *)
(* "*.root" stands for root and its subdomains, as the plain "root" does;  *)
(* any other rule with a star is a pattern.                                *)
UpdateRules(mode, domains, ips) ==
  LET rule == {ToLower(d) : d \in domains} \ {<<>>}
      IsSub(d) == Len(d) >= 2 /\ d[1] = "*" /\ d[2] = "."
      HasStar(d) == \E i \in DOMAIN d : d[i] = "*"
      roots == {IF IsSub(d) THEN SubSeq(d, 3, Len(d)) ELSE d :
                  d \in {e \in rule : IsSub(e) \/ ~HasStar(e)}}
  IN  [mode             |-> IF mode = "" THEN "whitelist" ELSE LowerMode(mode),
       exactDomains     |-> roots,
       suffixRoots      |-> roots,
       wildcardPatterns |-> {d \in rule : HasStar(d) /\ ~IsSub(d)},
       ips              |-> {r.base : r \in {q \in ips : q.bits = AddrBits}},
       cidrs            |-> {r \in ips : r.bits \in 0 .. AddrBits - 1}]

(* net.IPNet.Contains: the address and the base agree under the mask.      *)
CIDRContains(cidr, ip) ==
  LET host == 2^(AddrBits - cidr.bits) IN ip \div host = cidr.base \div host

(* matchWildcard, with the pattern and the text read from positions i and  *)
(* j on: the two heads advance together, and a star tries every rest of    *)
(* the text in turn.                                                       *)
matchWildcard(pattern, s) ==
  LET n == Len(pattern)
      m[i \in 1 .. n + 1] ==
        [j \in 1 .. Len(s) + 1 |->
           IF i > n THEN j > Len(s)
           ELSE IF pattern[i] = "*"
                THEN IF i < n /\ pattern[i + 1] = "*" THEN m[i + 1][j]
                     ELSE i = n \/ \E k \in j .. Len(s) + 1 : m[i + 1][k]
           ELSE /\ j <= Len(s)
                /\ pattern[i] \in {"?", s[j]}
                /\ m[i + 1][j + 1]]
  IN  m[1][1]

\* Mutant: a suffix need not start after a dot.
MatchAnySuffix(rs, host) ==
  IF host.ip # NoIP
  THEN \/ host.ip \in rs.ips
       \/ \E c \in rs.cidrs : CIDRContains(c, host.ip)
  ELSE LET domain == ToLower(TrimDot(SplitHostPort(host.name)))
       IN  \/ domain \in rs.exactDomains
           \/ \E i \in DOMAIN domain : SubSeq(domain, i + 1, Len(domain)) \in rs.suffixRoots
           \/ \E p \in rs.wildcardPatterns : matchWildcard(p, domain)

(* match: an IP literal is looked up among the addresses and the CIDRs     *)
(* only; a name is looked up whole, then after each of its dots, then      *)
(* against every pattern.                                                  *)
match(rs, host) ==
  IF host.ip # NoIP
  THEN \/ host.ip \in rs.ips
       \/ \E c \in rs.cidrs : CIDRContains(c, host.ip)
  ELSE LET domain == ToLower(TrimDot(SplitHostPort(host.name)))
       IN  \/ domain \in rs.exactDomains
           \/ \E i \in DOMAIN domain :
                /\ domain[i] = "."
                /\ SubSeq(domain, i + 1, Len(domain)) \in rs.suffixRoots
           \/ \E p \in rs.wildcardPatterns : matchWildcard(p, domain)

(* ShouldBlock: an empty destination is blocked in every mode.             *)
ShouldBlock(rs, host) ==
  IF host.ip = NoIP /\ host.name = <<>> THEN TRUE
  ELSE CASE rs.mode \in AllPassModes -> FALSE
         [] rs.mode = "blacklist" -> match(rs, host)
         [] OTHER -> ~match(rs, host)

-----------------------------------------------------------------------------
(* What the engine is meant to compute, stated without its algorithms.     *)

(* A pattern matches a text when the text can be cut into one piece per    *)
(* character of the pattern: any piece for a star, one character for the   *)
(* rest.  cut[i] is the length of the first i pieces.                      *)
WildcardSpec(pattern, s) ==
  \E cut \in [0 .. Len(pattern) -> 0 .. Len(s)] :
     /\ cut[0] = 0
     /\ cut[Len(pattern)] = Len(s)
     /\ \A i \in DOMAIN pattern :
          IF pattern[i] = "*" THEN cut[i - 1] <= cut[i]
          ELSE cut[i] = cut[i - 1] + 1 /\ pattern[i] \in {"?", s[cut[i]]}

(* A rule covers a name: a rule without a star covers its domain and every *)
(* name that ends in a dot and the domain, "*.root" the same, a pattern    *)
(* what it matches.                                                        *)
CoversName(rule, name) ==
  LET Covers(root) == \/ name = root
                      \/ IsSuffix(<<".">> \o root, name)
  IN  /\ rule # <<>>
      /\ IF IsPrefix(<<"*", ".">>, rule) THEN Covers(SubSeq(rule, 3, Len(rule)))
         ELSE IF (\E i \in DOMAIN rule : rule[i] = "*") THEN WildcardSpec(rule, name)
         ELSE Covers(rule)

CoversIP(rule, ip) ==
  /\ rule.bits >= 0
  /\ LET size == 2^(AddrBits - rule.bits)
     IN  \E k \in Addresses : /\ rule.base \in k * size .. k * size + size - 1
                              /\ ip \in k * size .. k * size + size - 1
=============================================================================
