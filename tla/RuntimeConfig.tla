--------------------------- MODULE RuntimeConfig ---------------------------
(***************************************************************************)
(* config.Runtime: the process-wide settings that `inception set` changes   *)
(* while audits run.  The level of a rule may be set under its RuleID       *)
(* (cfg.Rules) or under its legacy er_ name (cfg.IncLevel); Policy combines *)
(* the two into the value copy a request works with.  backup_* and          *)
(* max_allowed_packet can be set too, but main and serveConn go on with the *)
(* values read at start: no part of a request depends on what is set.       *)
(***************************************************************************)
EXTENDS Integers

CONSTANTS Codes,    \* RuleIDs
          Legacy,   \* legacy level names
          ruleOf,   \* legacyLevelRule: no two names share a RuleID
          DefaultLevel, \* the catalog's default of a rule that is configured in neither way
          Requests, \* audit requests
          Limits,   \* integers a client may try to set a limit to
          Unset     \* no entry in cfg.Rules

Levels == 0 .. 2

ASSUME RuleOfAssumption ==
  /\ ruleOf \in [Legacy -> Codes]
  /\ \A m, n \in Legacy : ruleOf[m] = ruleOf[n] => m = n
ASSUME DefaultLevelAssumption == DefaultLevel \in [Codes -> {1, 2}]
ASSUME LimitsAssumption == Limits \subseteq Int /\ 0 \in Limits
ASSUME UnsetAssumption == Unset \notin Levels

VARIABLES
  incLevel,  \* cfg.IncLevel
  rules,     \* cfg.Rules
  limit,     \* cfg.Inc: one of its numeric limits
  request,   \* each request: not begun, or what it works with
  lastLevel  \* what each rule's level was last set to (history)

vars == <<incLevel, rules, limit, request, lastLevel>>

(* Config.Policy over all RuleIDs, from the two maps it is given.           *)
LegacyAuthoritative(inc, over, code) ==
  IF \E n \in Legacy : ruleOf[n] = code
  THEN inc[CHOOSE n \in Legacy : ruleOf[n] = code]
  ELSE IF over[code] # Unset THEN over[code] ELSE DefaultLevel[code]
EffectiveLevel(inc, over, code) ==
  IF over[code] # Unset THEN over[code]
  ELSE IF \E n \in Legacy : ruleOf[n] = code
       THEN inc[CHOOSE n \in Legacy : ruleOf[n] = code]
       ELSE DefaultLevel[code]

Policy == [level |-> [c \in Codes |-> EffectiveLevel(incLevel, rules, c)],
           limit |-> limit]

NotBegun == [state |-> "new"]

Init ==
  /\ incLevel \in [Legacy -> Levels]
  /\ rules \in [Codes -> Levels \cup {Unset}]
  /\ limit = 0
  /\ request = [r \in Requests |-> NotBegun]
  /\ lastLevel = [c \in Codes |-> EffectiveLevel(incLevel, rules, c)]

----------------------------------------------------------------------------
(* SetLevel with a RuleID.                                                  *)
SetLevelByCode(code, v) ==
  /\ rules' = [rules EXCEPT ![code] = v]
  /\ lastLevel' = [lastLevel EXCEPT ![code] = v]
  /\ UNCHANGED <<incLevel, limit, request>>

(* SetLevel with a legacy name: into cfg.Rules if that overrides the rule.  *)
SetLevelUnderOverride(name, v) ==
  /\ incLevel' = [incLevel EXCEPT ![name] = v]
  /\ lastLevel' = [lastLevel EXCEPT ![ruleOf[name]] = v]
  /\ UNCHANGED <<rules, limit, request>>
SetLevelByName(name, v) ==
  /\ \/ /\ rules[ruleOf[name]] # Unset
        /\ rules' = [rules EXCEPT ![ruleOf[name]] = v]
        /\ UNCHANGED incLevel
     \/ /\ rules[ruleOf[name]] = Unset
        /\ incLevel' = [incLevel EXCEPT ![name] = v]
        /\ UNCHANGED rules
  /\ lastLevel' = [lastLevel EXCEPT ![ruleOf[name]] = v]
  /\ UNCHANGED <<limit, request>>

(* SetVariable of a limit works on a copy, which becomes the configuration  *)
(* only if validateIncRuntime accepts it.                                   *)
validateIncRuntimeAlways(v) == TRUE
validateIncRuntime(v) == v >= 0

SetVariable(v) ==
  /\ validateIncRuntime(v)
  /\ limit' = v
  /\ UNCHANGED <<incLevel, rules, request, lastLevel>>

(* Session.Audit takes its policy once.                                     *)
Begin(r) ==
  /\ request[r] = NotBegun
  /\ request' = [request EXCEPT ![r] = [state |-> "running", policy |-> Policy]]
  /\ UNCHANGED <<incLevel, rules, limit, lastLevel>>

End(r) ==
  /\ request[r].state = "running"
  /\ request' = [request EXCEPT ![r] = NotBegun]
  /\ UNCHANGED <<incLevel, rules, limit, lastLevel>>

Next ==
  \/ \E v \in Levels : \/ \E c \in Codes : SetLevelByCode(c, v)
                       \/ \E n \in Legacy : SetLevelByName(n, v)
  \/ \E v \in Limits : SetVariable(v)
  \/ \E r \in Requests : Begin(r) \/ End(r)

Spec == Init /\ [][Next]_vars

----------------------------------------------------------------------------
Policies == [level : [Codes -> Levels], limit : Nat]
Running  == [state : {"running"}, policy : Policies]

TypeOK ==
  /\ incLevel \in [Legacy -> Levels]
  /\ rules \in [Codes -> Levels \cup {Unset}]
  /\ limit \in Nat
  /\ request \in [Requests -> Running \cup {NotBegun}]
  /\ lastLevel \in [Codes -> Levels]

(* Whichever of its two names a level was set under, and in whatever order  *)
(* the names were used before, the last successful `inception set level`    *)
(* decides what the next request audits with.                               *)
LastSetWins == \A c \in Codes : Policy.level[c] = lastLevel[c]
=============================================================================
