-------------------------- MODULE EmergencyRouting --------------------------
(***************************************************************************)
(* Which emergency profile takes an alert, and what a loaded configuration *)
(* must offer the receipts it opens: topics to publish to, a fallback tier *)
(* and a lease that outlasts one attempt over all of its channels.         *)
(*                                                                         *)
(* A list of exact names is the set "severities" of a profile, its regular *)
(* expressions are the set "pattern" of the severities they match; sources *)
(* and label matchers are the sets of what they accept, empty for any.     *)
(* Telegram and SMTP are one fallback tier: complete, partly configured or *)
(* absent for the deployment, enabled or not in a profile.                 *)
(***************************************************************************)
EXTENDS Integers, FiniteSets, Sequences

CONSTANTS
  Severity,      \* severities other than "resolved"
  Origin,        \* ingest sources
  Event,         \* what the label matchers tell apart
  Profile,       \* emergency profiles
  Topic,         \* ntfy topics
  FallbackTime,  \* timeout of the fallback tier
  Margin,        \* EMERGENCY_LEASE_MARGIN_SECONDS
  None

ProfileType == [id : STRING, enabled : BOOLEAN, priority : Int,
                severities : SUBSET Severity, pattern : SUBSET Severity,
                sources : SUBSET Origin, events : SUBSET Event,
                retry : Nat, expire : Nat, attempts : Nat, lease : Nat,
                fallback : BOOLEAN, after : Nat]

TopicType == [name : STRING, token : BOOLEAN, handles : SUBSET Severity]

ASSUME RoutingAssumption ==
  /\ Profile \subseteq ProfileType /\ Topic \subseteq TopicType /\ IsFiniteSet(Topic)
  /\ FallbackTime \in Nat /\ Margin \in Nat
  /\ None \notin Nat

\* allow_ntfy_only is "alone", exclude_sources "excluded".
EmergencySettings == [on : BOOLEAN, alone : BOOLEAN, excluded : SUBSET Origin,
                      fallback : STRING, profiles : Seq(Profile)]

Alert == [severity : Severity, origin : Origin, event : Event,
          flag : {"absent", "true", "false"}]

-----------------------------------------------------------------------------
(* select_emergency_profile.                                                *)

ListMatches(expected, actual) == expected = {} \/ actual \in expected

Matches(p, a) ==
  /\ ListMatches(p.severities \cup p.pattern, a.severity)
  /\ ListMatches(p.sources, a.origin)
  /\ ListMatches(p.events, a.event)

MatchingProfiles(e, a) ==
  {k \in DOMAIN e.profiles : e.profiles[k].enabled /\ Matches(e.profiles[k], a)}

\* The highest priority wins, of equal ones the first.
Before(e, k, n) == \/ e.profiles[k].priority > e.profiles[n].priority
                   \/ e.profiles[k].priority = e.profiles[n].priority /\ k < n

Winner(e, a) == CHOOSE k \in MatchingProfiles(e, a) :
                  \A n \in MatchingProfiles(e, a) : k = n \/ Before(e, k, n)

FallbackProfiles(e) ==
  {k \in DOMAIN e.profiles : e.profiles[k].enabled /\ e.profiles[k].id = e.fallback}

Routable(e, a) == e.on /\ a.origin \notin e.excluded /\ a.flag # "false"

\* The index of the profile that takes the alert, None if it is delivered as
\* any other.
Selected(e, a) ==
  IF ~Routable(e, a) THEN None
  ELSE IF MatchingProfiles(e, a) # {} THEN Winner(e, a)
  ELSE IF a.flag = "true" /\ FallbackProfiles(e) # {}
       THEN CHOOSE k \in FallbackProfiles(e) : \A n \in FallbackProfiles(e) : k <= n
  ELSE None

-----------------------------------------------------------------------------
(* validate_emergency_config.                                               *)

ValidProfile(p) ==
  /\ p.severities # {} \/ p.pattern # {} \/ p.sources # {} \/ p.events # {}
  /\ p.retry > 0 /\ p.attempts > 0 /\ p.lease > 0
  /\ p.expire >= p.retry
  /\ p.after \in 1..p.attempts

ValidEmergency(e) ==
  /\ e.profiles # <<>>
  /\ \A k \in DOMAIN e.profiles : ValidProfile(e.profiles[k])
  /\ \A k, n \in DOMAIN e.profiles : e.profiles[k].id = e.profiles[n].id => k = n
  /\ \E k \in DOMAIN e.profiles : e.profiles[k].id = e.fallback
  /\ e.on => FallbackProfiles(e) # {}

-----------------------------------------------------------------------------
(* validate_runtime_config, of settings c that have the fields timeout,     *)
(* fallback, topics and emergency.                                          *)

TopicsFor(c, s) == {t \in c.topics : s \in t.handles}

\* The topics of a severity that can be published to.
Targets(c, s) == Cardinality({t \in TopicsFor(c, s) : t.token})

KnownSeverities(c) == UNION {t.handles : t \in c.topics}

EnabledProfiles(c) == {c.emergency.profiles[k] : k \in
  {n \in DOMAIN c.emergency.profiles : c.emergency.profiles[n].enabled}}

\* Names are taken as they are, a regular expression stands for the known
\* severities it matches, and no name at all for every known one.
\* mutant: a profile without severities is not looked at.
RoutedByName(c, p) == p.severities \cup (p.pattern \cap KnownSeverities(c))
RoutedSeverities(c, p) ==
  IF p.severities \cup p.pattern = {} THEN KnownSeverities(c)
  ELSE p.severities \cup (p.pattern \cap KnownSeverities(c))

Routed(c) == UNION {RoutedSeverities(c, p) : p \in EnabledProfiles(c)}

\* The time one attempt takes that publishes to n topics.
RequiredLease(c, p, n) ==
  c.timeout * n + (IF p.fallback /\ c.fallback = "ready" THEN FallbackTime ELSE 0) + Margin

TargetsValid(c) == \A s \in Routed(c) : Targets(c, s) > 0

FallbacksValid(c) ==
  /\ c.fallback # "partial"
  /\ \A p \in EnabledProfiles(c) : c.emergency.alone \/ (p.fallback /\ c.fallback = "ready")

LeasesValid(c) == \A p \in EnabledProfiles(c) :
  \A n \in {0} \cup {Targets(c, s) : s \in Routed(c)} : p.lease >= RequiredLease(c, p, n)

Valid(c) == /\ ValidEmergency(c.emergency)
            /\ c.emergency.on => TargetsValid(c) /\ FallbacksValid(c) /\ LeasesValid(c)

-----------------------------------------------------------------------------
(* What that is for.                                                        *)

\* The receipt that the profile p would open for the alert a can be sent.
Deliverable(c, p, a) ==
  /\ Targets(c, a.severity) > 0
  /\ c.emergency.alone \/ (p.fallback /\ c.fallback = "ready")
  /\ p.lease >= RequiredLease(c, p, Targets(c, a.severity))

\* An accepted alert that a profile matches is taken by one whose receipt can
\* be sent; one that is labelled an emergency is taken by some profile even
\* if none matches.
Covered(c, a) ==
  LET k == Selected(c.emergency, a)
  IN  a.severity \in KnownSeverities(c) /\ Routable(c.emergency, a) =>
        /\ a.flag = "true" \/ MatchingProfiles(c.emergency, a) # {} => k # None
        /\ k # None /\ MatchingProfiles(c.emergency, a) # {} =>
             Deliverable(c, c.emergency.profiles[k], a)

-----------------------------------------------------------------------------
(* The diagnostics of the editor.                                           *)

\* shadowed_profiles: the profiles with the matchers of one before them.
Shadowed(e) == {n \in DOMAIN e.profiles :
  /\ e.profiles[n].enabled
  /\ \E k \in DOMAIN e.profiles :
       /\ e.profiles[k].enabled /\ Before(e, k, n)
       /\ \A x \in {"severities", "pattern", "sources", "events"} :
            e.profiles[k][x] = e.profiles[n][x]}
=============================================================================
