------------------------------ MODULE MCConfig ------------------------------
(* Instances of ConfigReload: five configurations that differ in mode,     *)
(* lists and dry run, and destinations on both sides of every rule.        *)
EXTENDS ConfigReload

Cfg(mode, ad, ai, bd, bi, dry) ==
  [FilterMode |-> mode, AllowedDomains |-> ad, AllowedIPs |-> ai,
   BlockedDomains |-> bd, BlockedIPs |-> bi, DryRun |-> dry]

IPRule(base, bits) == [base |-> base, bits |-> bits]

MCChars == {"a", "b", "A", "B", ".", "*", "?", ":"}

MCTexts == UNION {[1 .. n -> {"a", "."}] : n \in 0 .. 3}

MCConfigs ==
  { Cfg("", {<<"a">>, <<"*", ".", "B">>, <<>>}, {IPRule(5, 3), IPRule(0, 2)}, {}, {}, FALSE),
    Cfg("blacklist", {<<"a">>}, {},
        {<<"a", "*", ".", "*", "b">>, <<"b", "?">>, <<"*", "a", "*", "*", "?">>},
        {IPRule(6, 1), IPRule(1, -1)}, TRUE),
    Cfg("Blacklist", {<<"a">>}, {}, {<<"b">>}, {}, FALSE),
    Cfg("Off", {}, {}, {<<"a">>}, {IPRule(1, 3)}, FALSE) }

\* Short patterns, and the rules of the configurations.
MCPatterns == UNION {[1 .. n -> {"a", "*", "?"}] : n \in 0 .. 4}
                \cup UNION {c.AllowedDomains \cup c.BlockedDomains : c \in MCConfigs}

MCOptions == {[isDryRun |-> b, log |-> b] : b \in BOOLEAN}

Name(s) == [name |-> s, ip |-> NoIP]

MCHosts ==
  {[name |-> <<>>, ip |-> i] : i \in {NoIP} \cup 0 .. 7} \cup
  {Name(s) : s \in UNION {[1 .. n -> {"a", "b", "."}] : n \in 1 .. 2}} \cup
  {Name(s) : s \in {<<"a", "A", ".", "b", "B">>, <<"a", ".", "B", ".">>, <<"b", ":", "a">>,
                    <<"b", "a", ".", "a", "b">>, <<"a", ".", "b">>, <<"b", ".", "a">>,
                    <<"b", ".", "b">>, <<"b", ":", "a", ":">>}}
=============================================================================
