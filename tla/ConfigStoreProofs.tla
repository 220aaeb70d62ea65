------------------------- MODULE ConfigStoreProofs --------------------------
(* The settings in force never let an emergency down, for any files,       *)
(* processes, handlers, failures and crashes: what the validation accepts  *)
(* covers every alert, and no handler gets by it.  And the only process on *)
(* a directory accepts no TOTP code twice, and has on disk and in memory   *)
(* what it answered with ok.                                               *)
EXTENDS ConfigStore, WellFoundedInduction, TLAPS

LEMMA SmallestOf ==
  ASSUME NEW T, T \subseteq Nat, T # {}
  PROVE  \E m \in T : \A n \in T : m <= n
  <1> DEFINE R == OpToRel(<, Nat)
  <1>1. R = {ss \in Nat \X Nat : ss[1] < ss[2]}
    BY DEF OpToRel
  <1>2. IsWellFoundedOn(R, Nat)
    BY NatLessThanWellFounded
  <1> HIDE DEF R
  <1>3. PICK m \in T : \A n \in T : ~(<<n, m>> \in R)
    BY <1>2, WFMin
  <1>4. \A n \in T : ~(n < m)
    BY <1>1, <1>3
  <1>5. QED
    BY <1>4

-----------------------------------------------------------------------------
(* What Valid is for: EmergencyRouting.                                    *)

(* Among the matching profiles one comes before all others: if that were   *)
(* false of the first n profiles, but true of fewer, the n-th profile or   *)
(* the winner of those before it would come first.                         *)
LEMMA WinnerExists ==
  ASSUME NEW e \in EmergencySettings, NEW a, MatchingProfiles(e, a) # {}
  PROVE  \E k \in MatchingProfiles(e, a) :
           \A n \in MatchingProfiles(e, a) : k = n \/ Before(e, k, n)
  <1> DEFINE M == MatchingProfiles(e, a)
             L == Len(e.profiles)
             pr(k) == e.profiles[k].priority
             Wins(k, n) == k \in M /\ k <= n /\ \A i \in M : i <= n => k = i \/ Before(e, k, i)
             Some(n) == (\A i \in M : i > n) \/ \E k \in M : Wins(k, n)
             Bad == {n \in 0..L : ~Some(n)}
  <1>1. e.profiles \in Seq(Profile)
    BY DEF EmergencySettings
  <1>2. L \in Nat /\ DOMAIN e.profiles = 1..L
    BY <1>1
  <1>3. M \subseteq 1..L
    BY <1>2 DEF MatchingProfiles
  <1>4. \A k \in 1..L : pr(k) \in Int
    <2>1. \A k \in 1..L : e.profiles[k] \in ProfileType
      BY <1>1, <1>2, RoutingAssumption
    <2>2. QED
      BY <2>1 DEF ProfileType
  <1>5. \A k, n \in M : Before(e, k, n) <=> pr(k) > pr(n) \/ (pr(k) = pr(n) /\ k < n)
    BY DEF Before
  <1> HIDE DEF M, L, pr
  <1>6. Bad = {}
    <2>1. SUFFICES ASSUME Bad # {} PROVE FALSE
      OBVIOUS
    <2>2. Bad \subseteq Nat
      BY <1>2
    <2>3. PICK n \in Bad : \A i \in Bad : n <= i
      <3> HIDE DEF Bad
      <3>1. QED
        BY <2>1, <2>2, SmallestOf
    <2>4. n \in 0..L /\ ~Some(n)
      BY <2>3
    <2>5. n # 0
      BY <1>2, <1>3, <2>4
    <2>6. n - 1 \in 0..L /\ n - 1 \notin Bad
      BY <1>2, <2>3, <2>4, <2>5
    <2>7. Some(n - 1)
      BY <2>6
    <2>8. CASE n \notin M
      <3>0. n \in Int /\ \A i \in M : i \in Int /\ i # n
        BY <1>2, <1>3, <2>4, <2>8
      <3>1. \A i \in M : i <= n <=> i <= n - 1
        BY <3>0
      <3>2. QED
        BY <1>2, <1>3, <2>4, <2>7, <3>1
    <2>9. CASE n \in M /\ \A i \in M : i > n - 1
      <3>1. \A i \in M : i <= n => i = n
        BY <1>2, <1>3, <2>4, <2>9
      <3>2. Wins(n, n)
        BY <1>2, <2>4, <2>9, <3>1
      <3>3. QED
        BY <2>4, <2>9, <3>2
    <2>10. CASE n \in M /\ \E k \in M : Wins(k, n - 1)
      <3>1. PICK k \in M : Wins(k, n - 1)
        BY <2>10
      <3>2. /\ n \in Int /\ k \in Int /\ k <= n - 1
            /\ pr(n) \in Int /\ pr(k) \in Int
        BY <1>2, <1>3, <1>4, <2>4, <3>1
      <3>3. \A i \in M : i \in Int /\ pr(i) \in Int
        BY <1>2, <1>3, <1>4
      <3>4. \A i \in M : i <= n => i = n \/ i <= n - 1
        BY <3>2, <3>3
      <3>5. CASE pr(n) > pr(k)
        <4>1. ASSUME NEW i \in M, i <= n - 1
              PROVE  Before(e, n, i)
          <5>1. k = i \/ Before(e, k, i)
            BY <3>1, <4>1
          <5>2. pr(n) > pr(i)
            BY <1>5, <3>1, <3>2, <3>3, <3>5, <4>1, <5>1
          <5>3. QED
            BY <1>5, <2>10, <4>1, <5>2
        <4>2. Wins(n, n)
          BY <2>10, <3>2, <3>4, <4>1
        <4>3. QED
          BY <2>4, <2>10, <4>2
      <3>6. CASE ~(pr(n) > pr(k))
        <4>1. Before(e, k, n)
          BY <1>5, <2>10, <3>1, <3>2, <3>6
        <4>2. Wins(k, n)
          BY <3>1, <3>2, <3>4, <4>1
        <4>3. QED
          BY <2>4, <3>1, <4>2
      <3>7. QED
        BY <3>5, <3>6
    <2>11. QED
      BY <2>7, <2>8, <2>9, <2>10
  <1>7. Some(L)
    <2>1. L \in 0..L
      BY <1>2
    <2>2. QED
      BY <1>6, <2>1
  <1>8. \A i \in M : i <= L /\ ~(i > L)
    BY <1>2, <1>3
  <1>9. M # {}
    BY DEF M
  <1>10. PICK k \in M : Wins(k, L)
    BY <1>7, <1>8, <1>9
  <1>11. k \in M /\ \A n \in M : k = n \/ Before(e, k, n)
    BY <1>8, <1>10
  <1>12. QED
    BY <1>11 DEF M

LEMMA WinnerMatches ==
  ASSUME NEW e \in EmergencySettings, NEW a, MatchingProfiles(e, a) # {}
  PROVE  Winner(e, a) \in MatchingProfiles(e, a)
  BY WinnerExists DEF Winner

LEMMA FallbackFound ==
  ASSUME NEW e \in EmergencySettings, FallbackProfiles(e) # {}
  PROVE  (CHOOSE k \in FallbackProfiles(e) : \A n \in FallbackProfiles(e) : k <= n)
           \in FallbackProfiles(e)
  <1>1. e.profiles \in Seq(Profile)
    BY DEF EmergencySettings
  <1>2. FallbackProfiles(e) \subseteq Nat
    BY <1>1 DEF FallbackProfiles
  <1>3. \E k \in FallbackProfiles(e) : \A n \in FallbackProfiles(e) : k <= n
    BY <1>2, SmallestOf
  <1>4. QED
    BY <1>3

LEMMA IndexIsNotNone ==
  ASSUME NEW e \in EmergencySettings, NEW k \in DOMAIN e.profiles
  PROVE  k # None
  <1>1. e.profiles \in Seq(Profile)
    BY DEF EmergencySettings
  <1>2. k \in Nat
    BY <1>1
  <1>3. QED
    BY <1>2, RoutingAssumption

(* A severity that a matching profile takes is among the routed ones.      *)
LEMMA MatchedIsRouted ==
  ASSUME NEW c, NEW a, NEW k \in MatchingProfiles(c.emergency, a),
         a.severity \in KnownSeverities(c)
  PROVE  /\ c.emergency.profiles[k] \in EnabledProfiles(c)
         /\ a.severity \in Routed(c)
  <1> DEFINE p == c.emergency.profiles[k]
  <1>1. k \in DOMAIN c.emergency.profiles /\ p.enabled /\ Matches(p, a)
    BY DEF MatchingProfiles
  <1>2. p \in EnabledProfiles(c)
    BY <1>1 DEF EnabledProfiles
  <1>3. p.severities \cup p.pattern = {} \/ a.severity \in p.severities \cup p.pattern
    BY <1>1 DEF Matches, ListMatches
  <1>4. a.severity \in RoutedSeverities(c, p)
    BY <1>3 DEF RoutedSeverities
  <1>5. QED
    BY <1>2, <1>4 DEF Routed

(* What the validation accepts covers every alert.                         *)
THEOREM ValidCovers ==
  ASSUME NEW c, c.emergency \in EmergencySettings, Valid(c), NEW a \in Alert
  PROVE  Covered(c, a)
  <1> DEFINE e == c.emergency
             k == Selected(e, a)
             M == MatchingProfiles(e, a)
  <1>1. SUFFICES ASSUME a.severity \in KnownSeverities(c), Routable(e, a)
                 PROVE  /\ a.flag = "true" \/ M # {} => k # None
                        /\ k # None /\ M # {} => Deliverable(c, e.profiles[k], a)
    BY DEF Covered
  <1>2. ValidEmergency(e) /\ TargetsValid(c) /\ FallbacksValid(c) /\ LeasesValid(c)
    BY <1>1 DEF Valid, Routable
  <1>3. CASE M # {}
    <2>1. k = Winner(e, a) /\ k \in M
      BY <1>1, <1>3, WinnerMatches DEF Selected
    <2>2. k # None
      BY <2>1, IndexIsNotNone DEF MatchingProfiles
    <2>3. e.profiles[k] \in EnabledProfiles(c) /\ a.severity \in Routed(c)
      BY <1>1, <2>1, MatchedIsRouted
    <2>4. Deliverable(c, e.profiles[k], a)
      <3>1. Targets(c, a.severity) > 0
        BY <1>2, <2>3 DEF TargetsValid
      <3>2. e.alone \/ (e.profiles[k].fallback /\ c.fallback = "ready")
        BY <1>2, <2>3 DEF FallbacksValid
      <3>3. e.profiles[k].lease >= RequiredLease(c, e.profiles[k], Targets(c, a.severity))
        BY <1>2, <2>3 DEF LeasesValid
      <3>4. QED
        BY <3>1, <3>2, <3>3 DEF Deliverable
    <2>5. QED
      BY <2>2, <2>4
  <1>4. CASE M = {} /\ a.flag = "true"
    <2>1. FallbackProfiles(e) # {}
      BY <1>1, <1>2 DEF ValidEmergency, Routable
    <2>2. k \in FallbackProfiles(e)
      BY <1>1, <1>4, <2>1, FallbackFound DEF Selected
    <2>3. k # None
      BY <2>2, IndexIsNotNone DEF FallbackProfiles
    <2>4. QED
      BY <1>4, <2>3
  <1>5. QED
    BY <1>3, <1>4

(* A profile that the editor's diagnostics call shadowed takes an alert    *)
(* only as the fallback of those that no profile matches.                  *)
THEOREM ShadowedTakesNothing ==
  ASSUME NEW e \in EmergencySettings, NEW a, NEW n \in Shadowed(e),
         MatchingProfiles(e, a) # {}
  PROVE  Selected(e, a) # n
  <1>1. n \in DOMAIN e.profiles
    BY DEF Shadowed
  <1>2. PICK k \in DOMAIN e.profiles :
          /\ e.profiles[k].enabled /\ Before(e, k, n)
          /\ \A x \in {"severities", "pattern", "sources", "events"} :
               e.profiles[k][x] = e.profiles[n][x]
    BY DEF Shadowed
  <1>3. SUFFICES ASSUME Selected(e, a) = n
                 PROVE  FALSE
    OBVIOUS
  <1>4. n = Winner(e, a)
    BY <1>1, <1>3, IndexIsNotNone DEF Selected
  <1>5. n \in MatchingProfiles(e, a)
    BY <1>4, WinnerMatches
  <1>6. \A i \in MatchingProfiles(e, a) : n = i \/ Before(e, n, i)
    BY <1>4, WinnerExists DEF Winner
  <1>7. k \in MatchingProfiles(e, a)
    BY <1>2, <1>5 DEF MatchingProfiles, Matches
  <1>8. e.profiles \in Seq(Profile)
    BY DEF EmergencySettings
  <1>9. k \in Int /\ n \in Int /\ e.profiles[k].priority \in Int /\ e.profiles[n].priority \in Int
    <2>1. k \in Int /\ n \in Int
      BY <1>1, <1>8
    <2>2. \A i \in DOMAIN e.profiles : e.profiles[i] \in ProfileType
      BY <1>8, RoutingAssumption
    <2>3. QED
      BY <1>1, <2>1, <2>2 DEF ProfileType
  <1>10. ~Before(e, n, k) /\ n # k
    BY <1>2, <1>9 DEF Before
  <1>11. QED
    BY <1>6, <1>7, <1>10

-----------------------------------------------------------------------------
(* The fields of the settings.                                             *)

LEMMA FieldList ==
  /\ Field = {"timeout", "fallback", "emergency", "delivery", "inhibitions", "schedules",
              "display", "history", "sources", "secrets", "dashboards", "topics", "tuned",
              "settings", "tokens", "passkeys", "basic", "factor"}
  /\ Fields("toml") = TomlField /\ Fields("render") = {"dashboards"} /\ Fields("topics") = {"topics"}
  /\ Fields("dedup") = {"tuned"} /\ Fields("auth") = AuthField
  BY DEF Field, Fields, File, TomlField, AuthField

Counter == 0..MaxCode

Values == [timeout |-> Timeout, fallback |-> {"none", "partial", "ready"}, emergency |-> DOMAIN Policy,
           delivery |-> Val, inhibitions |-> Val, schedules |-> Val, display |-> Val,
           history |-> Store, sources |-> SUBSET Source, secrets |-> SUBSET Source,
           dashboards |-> Val, topics |-> DOMAIN TopicSet, tuned |-> SUBSET Source,
           settings |-> Val, tokens |-> SUBSET Token, passkeys |-> SUBSET Passkey,
           basic |-> Counter, factor |-> Counter]

LEMMA ConfigFields ==
  ASSUME NEW c \in Config
  PROVE  /\ c = [x \in Field |-> c[x]]
         /\ \A x \in Field : c[x] \in Values[x]
  <1>1. DOMAIN c = Field
    BY FieldList DEF Config
  <1>2. c = [x \in Field |-> c[x]]
    BY <1>1 DEF Config
  <1>3. \A x \in Field : c[x] \in Values[x]
    <2>1. /\ c.timeout \in Timeout /\ c.fallback \in {"none", "partial", "ready"}
          /\ c.emergency \in DOMAIN Policy /\ c.delivery \in Val /\ c.inhibitions \in Val
          /\ c.schedules \in Val /\ c.display \in Val /\ c.history \in Store
          /\ c.sources \in SUBSET Source /\ c.secrets \in SUBSET Source
      BY DEF Config
    <2>2. /\ c.dashboards \in Val /\ c.topics \in DOMAIN TopicSet /\ c.tuned \in SUBSET Source
          /\ c.settings \in Val /\ c.tokens \in SUBSET Token /\ c.passkeys \in SUBSET Passkey
          /\ c.basic \in Counter /\ c.factor \in Counter
      BY DEF Config, Counter
    <2>3. /\ c.timeout \in Values.timeout /\ c.fallback \in Values.fallback
          /\ c.emergency \in Values.emergency /\ c.delivery \in Values.delivery
          /\ c.inhibitions \in Values.inhibitions /\ c.schedules \in Values.schedules
          /\ c.display \in Values.display /\ c.history \in Values.history
          /\ c.sources \in Values.sources /\ c.secrets \in Values.secrets
      BY <2>1 DEF Values
    <2>4. /\ c.dashboards \in Values.dashboards /\ c.topics \in Values.topics
          /\ c.tuned \in Values.tuned /\ c.settings \in Values.settings
          /\ c.tokens \in Values.tokens /\ c.passkeys \in Values.passkeys
          /\ c.basic \in Values.basic /\ c.factor \in Values.factor
      BY <2>2 DEF Values
    <2>5. QED
      BY <2>3, <2>4, FieldList
  <1>4. QED
    BY <1>2, <1>3

LEMMA ConfigOf ==
  ASSUME NEW c, c = [x \in Field |-> c[x]], \A x \in Field : c[x] \in Values[x]
  PROVE  c \in Config
  <1>1. c = [timeout |-> c.timeout, fallback |-> c.fallback, emergency |-> c.emergency,
             delivery |-> c.delivery, inhibitions |-> c.inhibitions, schedules |-> c.schedules,
             display |-> c.display, history |-> c.history, sources |-> c.sources,
             secrets |-> c.secrets, dashboards |-> c.dashboards, topics |-> c.topics,
             tuned |-> c.tuned, settings |-> c.settings, tokens |-> c.tokens,
             passkeys |-> c.passkeys, basic |-> c.basic, factor |-> c.factor]
    BY FieldList
  <1>2. QED
    BY <1>1, FieldList DEF Config, Values, Counter

Proper(e) == DOMAIN e \subseteq Field /\ \A x \in DOMAIN e : e[x] \in Values[x]

LEMMA OverConfig ==
  ASSUME NEW c \in Config, NEW e, Proper(e)
  PROVE  Over(e, c) \in Config
  <1>1. \A x \in Field : Over(e, c)[x] \in Values[x]
    BY ConfigFields DEF Over, Proper
  <1>2. Over(e, c) = [x \in Field |-> Over(e, c)[x]]
    BY DEF Over
  <1>3. QED
    BY <1>1, <1>2, ConfigOf

LEMMA PutConfig ==
  ASSUME NEW c \in Config, NEW d \in Config, NEW f
  PROVE  Put(f, d, c) \in Config
  <1>1. \A x \in Field : Put(f, d, c)[x] \in Values[x]
    BY ConfigFields DEF Put
  <1>2. Put(f, d, c) = [x \in Field |-> Put(f, d, c)[x]]
    BY DEF Put
  <1>3. QED
    BY <1>1, <1>2, ConfigOf

LEMMA EffectiveConfig ==
  ASSUME NEW c \in Config
  PROVE  /\ Effective(c) \in Config
         /\ \A x \in Field : x # "tuned" => Effective(c)[x] = c[x]
         /\ Guarded(Effective(c)) = Guarded(c)
  <1>1. c = [x \in Field |-> c[x]] /\ \A x \in Field : c[x] \in Values[x]
    BY ConfigFields
  <1>2. Effective(c) = [x \in Field |-> IF x = "tuned" THEN Tuned(c) ELSE c[x]]
    BY <1>1 DEF Effective
  <1>3. Tuned(c) \in Values["tuned"]
    BY DEF Tuned, Config, Values
  <1>4. \A x \in Field : Effective(c)[x] \in Values[x]
    BY <1>1, <1>2, <1>3
  <1>5. Effective(c) = [x \in Field |-> Effective(c)[x]]
    BY <1>2
  <1>6. Effective(c) \in Config
    BY <1>4, <1>5, ConfigOf
  <1>7. \A x \in Field : x # "tuned" => Effective(c)[x] = c[x]
    BY <1>2
  <1>8. Guarded(Effective(c)) = Guarded(c)
    BY <1>7, FieldList DEF Guarded, GuardField
  <1>9. QED
    BY <1>6, <1>7, <1>8

-----------------------------------------------------------------------------
(* What every handler has in common, once it has the lock.                 *)

Counters == {"basic", "factor"}

(* Every file that has a setting of the edit e is among the files.         *)
Covers(files, e) ==
  \A f \in File : Fields(f) \cap DOMAIN e # {} => \E n \in DOMAIN files : files[n] = f

Asks(i, how, c, e, files, undo) ==
  /\ how \in {"reload", "staged", "direct", "code"}
  /\ c = IF how = "staged" THEN disk ELSE mem[i]
  /\ Proper(e)
  /\ files \in Seq(File) /\ undo \in Seq(File)
  /\ how \in {"direct", "code"} => DOMAIN e \cap GuardField = {}
  /\ how = "staged" => Validated(Effective(Over(e, c)))
  /\ how = "reload" => DOMAIN e \cap Counters = {}
  /\ Covers(files, e)
  /\ how = "code" => \A o \in DOMAIN e \cap Counters : Beyond(e[o], c[o])
  /\ how = "reload" => "tuned" \notin DOMAIN e /\ \A n \in DOMAIN files : files[n] # "dedup"
  /\ how \in {"direct", "code"} =>
       /\ "sources" \notin DOMAIN e
       /\ "tuned" \in DOMAIN e => e.tuned \subseteq c.tuned \cup c.sources
  /\ waiting' \subseteq waiting
  /\ Take(i, how, c, e, files, undo)

Asked(i) == \E how, c, e, files, undo : Asks(i, how, c, e, files, undo)

LEMMA SomeFiles ==
  /\ <<>> \in Seq(File) /\ \A f \in File : <<f>> \in Seq(File)
  /\ \A f, g \in File : <<f, g>> \in Seq(File)
  /\ <<"toml", "render", "topics", "dedup", "auth">> \in Seq(File)
  /\ {"toml", "render", "topics", "dedup", "auth"} = File
  BY DEF File

LEMMA FileFields ==
  /\ \A x \in Field : \E f \in File : x \in Fields(f)
  /\ \A f, g \in File : \A x \in Fields(f) : x \in Fields(g) => f = g
  /\ \A f \in File : Fields(f) \subseteq Field
  <1>1. Field = UNION {Fields(f) : f \in File}
    BY DEF Field
  <1>2. \A f, g \in File : \A x \in Fields(f) : x \in Fields(g) => f = g
    BY FieldList DEF File, TomlField, AuthField
  <1>3. QED
    BY <1>1, <1>2

(* The files that an edit of the fields of one file, or of two, has to     *)
(* write.                                                                  *)
LEMMA OneFileCovers ==
  ASSUME NEW f \in File, NEW e, DOMAIN e \subseteq Fields(f)
  PROVE  Covers(<<f>>, e)
  <1>1. 1 \in DOMAIN <<f>> /\ <<f>>[1] = f
    OBVIOUS
  <1>2. QED
    BY <1>1, FileFields DEF Covers

LEMMA TwoFilesCover ==
  ASSUME NEW f \in File, NEW g \in File, NEW e, DOMAIN e \subseteq Fields(f) \cup Fields(g)
  PROVE  Covers(<<f, g>>, e)
  <1>1. /\ 1 \in DOMAIN <<f, g>> /\ <<f, g>>[1] = f
        /\ 2 \in DOMAIN <<f, g>> /\ <<f, g>>[2] = g
    OBVIOUS
  <1>2. \A h \in File : Fields(h) \cap DOMAIN e # {} => h = f \/ h = g
    BY FileFields
  <1>3. QED
    BY <1>1, <1>2 DEF Covers

LEMMA CounterValues ==
  /\ Values["basic"] = Counter /\ Values["factor"] = Counter
  /\ \A n \in Counter : Proper([basic |-> n]) /\ Proper([factor |-> n])
  <1>1. Values["basic"] = Counter /\ Values["factor"] = Counter
    BY DEF Values
  <1>2. QED
    BY <1>1, FieldList DEF Proper

LEMMA TomlAsked ==
  ASSUME NEW i, NEW e, Proper(e), DOMAIN e \subseteq TomlField, SaveToml(i, e)
  PROVE  Asked(i)
  <1>1. Covers(<<"toml">>, e)
    BY OneFileCovers, SomeFiles, FieldList
  <1>2. DOMAIN e \cap Counters = {} /\ "tuned" \notin DOMAIN e
    BY DEF TomlField, Counters
  <1>3. \A n \in DOMAIN <<"toml">> : <<"toml">>[n] # "dedup"
    OBVIOUS
  <1>4. Asks(i, "reload", mem[i], e, <<"toml">>, <<"toml">>)
    BY <1>1, <1>2, <1>3, SomeFiles DEF SaveToml, Hold, Asks
  <1>5. QED
    BY <1>4 DEF Asked

LEMMA SidecarAsked ==
  ASSUME NEW i, NEW f \in {"dedup", "auth"}, NEW e, Proper(e), DOMAIN e \subseteq Fields(f),
         f = "dedup" => e.tuned \subseteq mem[i].tuned \cup mem[i].sources,
         SaveSidecar(i, f, e)
  PROVE  Asked(i)
  <1>1. Covers(<<f>>, e)
    BY OneFileCovers, SomeFiles
  <1>2. DOMAIN e \cap GuardField = {} /\ "sources" \notin DOMAIN e
    BY FieldList DEF GuardField, AuthField
  <1>3. f = "auth" => "tuned" \notin DOMAIN e
    BY FieldList DEF AuthField
  <1>4. Asks(i, "direct", mem[i], e, <<f>>, <<>>)
    BY <1>1, <1>2, <1>3, SomeFiles DEF SaveSidecar, Hold, Asks
  <1>5. QED
    BY <1>4 DEF Asked

LEMMA AuthAsked ==
  ASSUME NEW i, NEW e, Proper(e), DOMAIN e \subseteq AuthField, SaveAuth(i, e)
  PROVE  Asked(i)
  BY SidecarAsked, FieldList DEF SaveAuth

LEMMA StageAsked ==
  ASSUME NEW i, NEW e, Proper(e), NEW files \in Seq(File), Covers(files, e), Stage(i, e, files)
  PROVE  Asked(i)
  <1>1. Asks(i, "staged", disk, e, files, files)
    BY DEF Stage, Asks
  <1>2. QED
    BY <1>1 DEF Asked

LEMMA EditAsked ==
  ASSUME TypeOK, NEW i \in Instance, Edit(i)
  PROVE  Asked(i)
  <1>1. mem[i] \in Config
    BY DEF TypeOK, Edit, Up
  <1>2. \A x \in Field : mem[i][x] \in Values[x]
    BY <1>1, ConfigFields
  <1>3. CASE SaveCascade(i)
    <2>1. PICK t \in Timeout : SaveToml(i, [timeout |-> t])
      BY <1>3 DEF SaveCascade
    <2>2. Proper([timeout |-> t])
      BY FieldList DEF Proper, Values
    <2>3. QED
      BY <2>1, <2>2, TomlAsked DEF TomlField
  <1>4. CASE SaveChannels(i)
    <2>1. PICK b \in {"none", "partial", "ready"} : SaveToml(i, [fallback |-> b])
      BY <1>4 DEF SaveChannels
    <2>2. Proper([fallback |-> b])
      BY FieldList DEF Proper, Values
    <2>3. QED
      BY <2>1, <2>2, TomlAsked DEF TomlField
  <1>5. CASE SaveDelivery(i) \/ SaveInhibitions(i) \/ SaveSchedules(i) \/ SaveDisplay(i)
    <2>1. \A v \in Val : /\ Proper([delivery |-> v]) /\ Proper([inhibitions |-> v])
                         /\ Proper([schedules |-> v]) /\ Proper([display |-> v])
      BY FieldList DEF Proper, Values
    <2>2. QED
      BY <1>5, <2>1, TomlAsked DEF TomlField, SaveDelivery, SaveInhibitions, SaveSchedules, SaveDisplay
  <1>6. CASE SaveEmergency(i)
    <2>1. PICK m \in DOMAIN Policy : SaveToml(i, [emergency |-> m])
      BY <1>6 DEF SaveEmergency
    <2>2. Proper([emergency |-> m])
      BY FieldList DEF Proper, Values
    <2>3. QED
      BY <2>1, <2>2, TomlAsked DEF TomlField
  <1>7. CASE SaveHistory(i)
    <2>1. PICK t \in Store : SaveToml(i, [history |-> t])
      BY <1>7 DEF SaveHistory
    <2>2. Proper([history |-> t])
      BY FieldList DEF Proper, Values
    <2>3. QED
      BY <2>1, <2>2, TomlAsked DEF TomlField
  <1>8. CASE SaveDashboards(i)
    <2>1. PICK v \in Val : Hold(i, "reload", [dashboards |-> v], <<"render", "toml">>, <<"toml">>)
      BY <1>8 DEF SaveDashboards
    <2>2. Proper([dashboards |-> v])
      BY FieldList DEF Proper, Values
    <2>3. Covers(<<"render", "toml">>, [dashboards |-> v])
      BY TwoFilesCover, SomeFiles, FieldList
    <2>4. \A n \in DOMAIN <<"render", "toml">> : <<"render", "toml">>[n] # "dedup"
      OBVIOUS
    <2>5. Asks(i, "reload", mem[i], [dashboards |-> v], <<"render", "toml">>, <<"toml">>)
      BY <2>1, <2>2, <2>3, <2>4, SomeFiles DEF Hold, Asks, Counters
    <2>6. QED
      BY <2>5 DEF Asked
  <1>9. CASE SaveTopics(i)
    <2>1. PICK t \in DOMAIN TopicSet : Hold(i, "reload", [topics |-> t], <<"topics">>, <<>>)
      BY <1>9 DEF SaveTopics
    <2>2. Proper([topics |-> t])
      BY FieldList DEF Proper, Values
    <2>3. Covers(<<"topics">>, [topics |-> t])
      BY OneFileCovers, SomeFiles, FieldList
    <2>4. \A n \in DOMAIN <<"topics">> : <<"topics">>[n] # "dedup"
      OBVIOUS
    <2>5. Asks(i, "reload", mem[i], [topics |-> t], <<"topics">>, <<>>)
      BY <2>1, <2>2, <2>3, <2>4, SomeFiles DEF Hold, Asks, Counters
    <2>6. QED
      BY <2>5 DEF Asked
  <1>10. CASE SaveDedup(i)
    <2>1. PICK s \in mem[i].sources : SaveSidecar(i, "dedup", [tuned |-> mem[i].tuned \cup {s}])
      BY <1>10 DEF SaveDedup
    <2>2. mem[i].tuned \cup {s} \in SUBSET Source
      BY <1>1 DEF Config
    <2>3. Proper([tuned |-> mem[i].tuned \cup {s}])
      BY <2>2, FieldList DEF Proper, Values
    <2>4. QED
      BY <2>1, <2>3, SidecarAsked, FieldList
  <1>11. CASE SaveSource(i)
    <2>1. PICK w \in waiting :
            /\ waiting' = waiting \ {w}
            /\ Take(i, "reload", mem[i], SourceEdit(mem[i], w.action, w.source), <<"toml">>, <<"toml">>)
      BY <1>11 DEF SaveSource
    <2>2. w.source \in Source /\ w.action \in {"add", "remove", "set", "clear"}
      BY <2>1 DEF TypeOK
    <2>3. mem[i].sources \in SUBSET Source /\ mem[i].secrets \in SUBSET Source
      BY <1>1 DEF Config
    <2>4. PICK e : e = SourceEdit(mem[i], w.action, w.source)
      OBVIOUS
    <2>5. Proper(e)
      <3>1. CASE w.action \in {"add", "remove"}
        <4>1. PICK A \in SUBSET Source, B \in SUBSET Source : e = [sources |-> A, secrets |-> B]
          BY <2>2, <2>3, <2>4, <3>1 DEF SourceEdit
        <4>2. QED
          BY <4>1, FieldList DEF Proper, Values
      <3>2. CASE w.action \in {"set", "clear"}
        <4>1. PICK B \in SUBSET Source : e = [secrets |-> B]
          BY <2>2, <2>3, <2>4, <3>2 DEF SourceEdit
        <4>2. QED
          BY <4>1, FieldList DEF Proper, Values
      <3>3. QED
        BY <2>2, <3>1, <3>2
    <2>6. DOMAIN e \subseteq TomlField /\ DOMAIN e \cap Counters = {} /\ "tuned" \notin DOMAIN e
      BY <2>2, <2>4 DEF SourceEdit, TomlField, Counters
    <2>7. Covers(<<"toml">>, e)
      BY <2>6, OneFileCovers, SomeFiles, FieldList
    <2>8. \A n \in DOMAIN <<"toml">> : <<"toml">>[n] # "dedup"
      OBVIOUS
    <2>9. Asks(i, "reload", mem[i], e, <<"toml">>, <<"toml">>)
      BY <2>1, <2>4, <2>5, <2>6, <2>7, <2>8, SomeFiles DEF Asks
    <2>10. QED
      BY <2>9 DEF Asked
  <1>12. CASE SaveAuthSettings(i)
    <2>1. PICK v \in Val : SaveAuth(i, [settings |-> v])
      BY <1>12 DEF SaveAuthSettings
    <2>2. Proper([settings |-> v])
      BY FieldList DEF Proper, Values
    <2>3. QED
      BY <2>1, <2>2, AuthAsked DEF AuthField
  <1>13. CASE CreateToken(i) \/ RevokeToken(i) \/ UseToken(i)
    <2>1. PICK T : T \in SUBSET Token /\ SaveAuth(i, [tokens |-> T])
      <3>1. mem[i].tokens \in SUBSET Token
        BY <1>1 DEF Config
      <3>2. QED
        BY <1>13, <3>1 DEF CreateToken, RevokeToken, UseToken
    <2>2. Proper([tokens |-> T])
      BY <2>1, FieldList DEF Proper, Values
    <2>3. QED
      BY <2>1, <2>2, AuthAsked DEF AuthField
  <1>14. CASE RegisterPasskey(i) \/ DeletePasskey(i) \/ UsePasskey(i)
    <2>1. PICK P : P \in SUBSET Passkey /\ SaveAuth(i, [passkeys |-> P])
      <3>1. mem[i].passkeys \in SUBSET Passkey
        BY <1>1 DEF Config
      <3>2. QED
        BY <1>14, <3>1 DEF RegisterPasskey, DeletePasskey, UsePasskey
    <2>2. Proper([passkeys |-> P])
      BY <2>1, FieldList DEF Proper, Values
    <2>3. QED
      BY <2>1, <2>2, AuthAsked DEF AuthField
  <1>15. CASE EnableTotp(i) \/ DisableTotp(i)
    <2>1. PICK n \in Counter : SaveAuth(i, [basic |-> n])
      <3>1. 0 \in Counter /\ 1..MaxCode \subseteq Counter
        BY ValueAssumption DEF Counter
      <3>2. QED
        BY <1>15, <3>1 DEF EnableTotp, DisableTotp
    <2>2. Proper([basic |-> n])
      BY <2>1, CounterValues
    <2>3. QED
      BY <2>1, <2>2, AuthAsked DEF AuthField
  <1>16. CASE SetUpFactor(i)
    <2>1. PICK n \in Counter : SaveAuth(i, [factor |-> n])
      BY <1>16, ValueAssumption DEF SetUpFactor, Counter
    <2>2. Proper([factor |-> n])
      BY <2>1, CounterValues
    <2>3. QED
      BY <2>1, <2>2, AuthAsked DEF AuthField
  <1>17. CASE ConsumeBasic(i)
    <2>1. PICK n \in Counter : /\ Beyond(n, mem[i].basic)
                               /\ Hold(i, "code", [basic |-> n], <<"auth">>, <<>>)
      BY <1>17, ValueAssumption DEF ConsumeBasic, Counter
    <2>2. Proper([basic |-> n])
      BY <2>1, CounterValues
    <2>3. Covers(<<"auth">>, [basic |-> n])
      BY OneFileCovers, SomeFiles, FieldList DEF AuthField
    <2>4. DOMAIN [basic |-> n] = {"basic"} /\ [basic |-> n]["basic"] = n
      OBVIOUS
    <2>5. Asks(i, "code", mem[i], [basic |-> n], <<"auth">>, <<>>)
      BY <2>1, <2>2, <2>3, <2>4, SomeFiles DEF Hold, Asks, GuardField
    <2>6. QED
      BY <2>5 DEF Asked
  <1>18. CASE ConsumeFactor(i)
    <2>1. PICK n \in Counter : /\ Beyond(n, mem[i].factor)
                               /\ Hold(i, "code", [factor |-> n], <<"auth">>, <<>>)
      BY <1>18, ValueAssumption DEF ConsumeFactor, Counter
    <2>2. Proper([factor |-> n])
      BY <2>1, CounterValues
    <2>3. Covers(<<"auth">>, [factor |-> n])
      BY OneFileCovers, SomeFiles, FieldList DEF AuthField
    <2>4. DOMAIN [factor |-> n] = {"factor"} /\ [factor |-> n]["factor"] = n
      OBVIOUS
    <2>5. Asks(i, "code", mem[i], [factor |-> n], <<"auth">>, <<>>)
      BY <2>1, <2>2, <2>3, <2>4, SomeFiles DEF Hold, Asks, GuardField
    <2>6. QED
      BY <2>5 DEF Asked
  <1>19. CASE RestoreBundle(i)
    <2>1. PICK b \in Bundle : Stage(i, b, <<"toml", "render", "topics", "dedup", "auth">>)
      BY <1>19 DEF RestoreBundle
    <2>2. b \in Config
      BY SettingsAssumption
    <2>3. Proper(b)
      BY <2>2, ConfigFields DEF Proper
    <2>4. Covers(<<"toml", "render", "topics", "dedup", "auth">>, b)
      <3> DEFINE q == <<"toml", "render", "topics", "dedup", "auth">>
      <3>1. /\ DOMAIN q = 1..5 /\ q[1] = "toml" /\ q[2] = "render" /\ q[3] = "topics"
            /\ q[4] = "dedup" /\ q[5] = "auth"
        OBVIOUS
      <3>2. QED
        BY <3>1 DEF Covers, File
    <2>5. QED
      BY <2>1, <2>3, <2>4, StageAsked, SomeFiles
  <1>20. CASE RestoreToml(i)
    <2>1. PICK b \in Bundle, f \in File :
            Stage(i, [x \in TomlField \cup Fields(f) |->
                        IF x \in TomlField THEN b[x] ELSE SectionsOf(b, f)[x]],
                  IF f = "toml" THEN <<f>> ELSE <<"toml", f>>)
      BY <1>20 DEF RestoreToml
    <2>2. b \in Config
      BY SettingsAssumption
    <2>3. \A x \in Field : b[x] \in Values[x]
      BY <2>2, ConfigFields
    <2>4. f # "toml" => \A x \in Fields(f) : SectionsOf(b, f)[x] \in Values[x]
      <3>1. CASE f = "render"
        BY <2>3, <3>1, FieldList DEF SectionsOf
      <3>2. CASE f = "topics"
        BY <2>3, <3>2, FieldList DEF SectionsOf
      <3>3. CASE f = "dedup"
        <4>1. Tuned(b) \in Values["tuned"]
          BY <2>2 DEF Tuned, Config, Values
        <4>2. QED
          BY <3>3, <4>1, FieldList DEF SectionsOf
      <3>4. CASE f = "auth"
        <4>1. SectionsOf(b, f) = [settings |-> b.settings, tokens |-> {}, passkeys |-> {},
                                  basic |-> 0, factor |-> 0]
          BY <3>4 DEF SectionsOf
        <4>2. b.settings \in Values.settings
          BY <2>3, FieldList
        <4>3. {} \in Values.tokens /\ {} \in Values.passkeys /\ 0 \in Values.basic /\ 0 \in Values.factor
          BY ValueAssumption DEF Values, Counter
        <4>4. QED
          BY <3>4, <4>1, <4>2, <4>3, FieldList DEF AuthField
      <3>5. QED
        BY <3>1, <3>2, <3>3, <3>4 DEF File
    <2>5. TomlField \cup Fields(f) \subseteq Field
      BY DEF Field, Fields, File
    <2>6. Proper([x \in TomlField \cup Fields(f) |->
                    IF x \in TomlField THEN b[x] ELSE SectionsOf(b, f)[x]])
      <3>1. CASE f = "toml"
        BY <2>3, <2>5, <3>1, FieldList DEF Proper
      <3>2. CASE f # "toml"
        BY <2>3, <2>4, <2>5, <3>2 DEF Proper
      <3>3. QED
        BY <3>1, <3>2
    <2>7. (IF f = "toml" THEN <<f>> ELSE <<"toml", f>>) \in Seq(File)
      BY SomeFiles
    <2>8. LET e == [x \in TomlField \cup Fields(f) |->
                      IF x \in TomlField THEN b[x] ELSE SectionsOf(b, f)[x]]
              files == IF f = "toml" THEN <<f>> ELSE <<"toml", f>>
          IN  Covers(files, e)
      <3>1. "toml" \in File /\ Fields("toml") = TomlField
        BY FieldList, SomeFiles
      <3>2. QED
        BY <3>1, OneFileCovers, TwoFilesCover
    <2>9. QED
      BY <2>1, <2>6, <2>7, <2>8, StageAsked
  <1>21. QED
    BY <1>3, <1>4, <1>5, <1>6, <1>7, <1>8, <1>9, <1>10, <1>11, <1>12, <1>13, <1>14, <1>15,
       <1>16, <1>17, <1>18, <1>19, <1>20 DEF Edit

-----------------------------------------------------------------------------
(* Every variable stays in its type.                                       *)

LEMMA TakenJob ==
  ASSUME TypeOK, NEW i \in Instance, NEW how, NEW c, NEW e, NEW files, NEW undo,
         Asks(i, how, c, e, files, undo)
  PROVE  /\ Up(i) /\ c \in Config /\ Over(e, c) \in Config
         /\ job' = Job(i, how, c, e, files, undo)
         /\ job' \in JobType
  <1>1. Up(i) /\ job' = Job(i, how, c, e, files, undo)
    BY DEF Asks, Take
  <1>2. c \in Config
    BY <1>1 DEF Asks, TypeOK, Up
  <1>3. Over(e, c) \in Config
    BY <1>2, OverConfig DEF Asks
  <1>4. job' \in JobType
    BY <1>1, <1>3 DEF Job, JobType, Asks, TypeOK, Proper
  <1>5. QED
    BY <1>1, <1>2, <1>3, <1>4

LEMMA AskedTypes ==
  ASSUME TypeOK, NEW i \in Instance, Asked(i)
  PROVE  TypeOK'
  <1>1. PICK how, c, e, files, undo : Asks(i, how, c, e, files, undo)
    BY DEF Asked
  <1>2. job' \in JobType
    BY <1>1, TakenJob
  <1>3. saves < MaxSaves /\ saves' = saves + 1 /\ saves' \in 0..MaxSaves
    BY <1>1, BoundAssumption DEF Asks, Take, TypeOK
  <1>4. QED
    BY <1>1, <1>2, <1>3 DEF Asks, Take, TypeOK

LEMMA JobHeld ==
  ASSUME TypeOK, ~Free
  PROVE  /\ job \in JobType /\ job.inst \in Instance
         /\ job.want \in Config /\ job.before \in Config /\ job.loaded \in Config
         /\ job.todo # <<>> => Head(job.todo) \in File /\ Tail(job.todo) \in Seq(File)
         /\ job.undo # <<>> => Head(job.undo) \in File /\ Tail(job.undo) \in Seq(File)
  <1>1. job \in JobType
    BY DEF TypeOK, Free
  <1>2. job.todo \in Seq(File) /\ job.undo \in Seq(File)
    BY <1>1 DEF JobType
  <1>3. /\ job.todo # <<>> => Head(job.todo) \in File /\ Tail(job.todo) \in Seq(File)
        /\ job.undo # <<>> => Head(job.undo) \in File /\ Tail(job.undo) \in Seq(File)
    BY <1>2
  <1>4. QED
    BY <1>1, <1>3 DEF JobType

LEMMA LoadedConfig ==
  ASSUME TypeOK, ~Free
  PROVE  Loaded \in Config
  BY JobHeld, EffectiveConfig DEF Loaded

LEMMA StepTypes ==
  ASSUME TypeOK, Step
  PROVE  TypeOK'
  <1>1. CASE WriteFile
    <2>1. /\ ~Free /\ job.todo # <<>>
          /\ disk' = Put(Head(job.todo), job.want, disk)
          /\ accepted' = Reset(Head(job.todo))
          /\ job' = [job EXCEPT !.todo = Tail(@), !.dirty = @ \cup {Head(job.todo)}]
          /\ UNCHANGED <<mem, waiting, acked, loose, saves, faults, crashes>>
      BY <1>1 DEF WriteFile
    <2>2. disk' \in Config
      BY <2>1, JobHeld, PutConfig DEF TypeOK
    <2>3. accepted' \in [{"basic", "factor"} -> Seq(1..MaxCode)]
      <3>1. <<>> \in Seq(1..MaxCode) /\ \A o \in {"basic", "factor"} : accepted[o] \in Seq(1..MaxCode)
        BY DEF TypeOK
      <3>2. QED
        BY <2>1, <3>1 DEF Reset
    <2>4. job' \in JobType
      BY <2>1, JobHeld DEF JobType
    <2>5. QED
      BY <2>1, <2>2, <2>3, <2>4 DEF TypeOK
  <1>2. CASE WriteFails \/ CutoverFails
    <2>1. /\ ~Free /\ faults < MaxFaults /\ faults' = faults + 1
          /\ \E q \in {"undo", "refuse"} : job' = [job EXCEPT !.pc = q]
          /\ UNCHANGED <<disk, mem, waiting, acked, loose, accepted, saves, crashes>>
      BY <1>2 DEF WriteFails, CutoverFails, Written
    <2>2. job' \in JobType
      BY <2>1, JobHeld DEF JobType
    <2>3. faults' \in 0..MaxFaults
      BY <2>1, BoundAssumption DEF TypeOK
    <2>4. QED
      BY <2>1, <2>2, <2>3 DEF TypeOK
  <1>3. CASE Load
    <2>1. /\ ~Free /\ disk' = Effective(disk)
          /\ job' = [job EXCEPT !.loaded = disk', !.dirty = @ \cup Pruned,
                                !.pc = IF Validated(disk') THEN "swap" ELSE "undo"]
          /\ UNCHANGED <<mem, waiting, acked, loose, accepted, saves, faults, crashes>>
      BY <1>3 DEF Load
    <2>2. disk' \in Config
      BY <2>1, EffectiveConfig DEF TypeOK
    <2>3. Pruned \subseteq File
      BY DEF Pruned, File
    <2>4. job' \in JobType
      BY <2>1, <2>2, <2>3, JobHeld DEF JobType
    <2>5. QED
      BY <2>1, <2>2, <2>4 DEF TypeOK
  <1>4. CASE Apply
    <2>1. /\ ~Free /\ mem' = [mem EXCEPT ![job.inst] = Loaded]
          /\ acked' = Answered /\ loose' = StillLoose /\ accepted' = Credited /\ job' = None
          /\ UNCHANGED <<disk, waiting, saves, faults, crashes>>
      BY <1>4 DEF Apply, Written
    <2>2. mem' \in [Instance -> Config \cup {None}]
      BY <2>1, LoadedConfig, JobHeld DEF TypeOK
    <2>3. Answered \in Config
      <3> DEFINE A == [x \in Field |->
             IF x \in job.touched THEN job.want[x]
             ELSE IF x \in LooseField /\ job.how \in {"reload", "staged"} THEN Loaded[x]
             ELSE acked[x]]
      <3>1. \A x \in Field : /\ job.want[x] \in Values[x] /\ Loaded[x] \in Values[x]
                             /\ acked[x] \in Values[x]
        BY <2>1, JobHeld, LoadedConfig, ConfigFields DEF TypeOK
      <3>2. \A x \in Field : A[x] \in Values[x]
        BY <3>1
      <3>3. A \in Config
        BY <3>2, ConfigOf
      <3>4. Answered = Effective(A)
        BY DEF Answered
      <3>5. QED
        BY <3>3, <3>4, EffectiveConfig
    <2>4. StillLoose \subseteq File
      <3>1. job.how \in {"reload", "staged", "direct", "code"}
        BY <2>1, JobHeld DEF JobType
      <3>2. QED
        BY <3>1 DEF StillLoose, TypeOK, File
    <2>5. Credited \in [{"basic", "factor"} -> Seq(1..MaxCode)]
      <3>1. /\ job.want["basic"] \in 0..MaxCode /\ job.want["factor"] \in 0..MaxCode
        BY <2>1, JobHeld DEF Config
      <3>2. \A o \in {"basic", "factor"} : job.want[o] # 0 => job.want[o] \in 1..MaxCode
        BY <3>1, ValueAssumption
      <3>3. \A o \in {"basic", "factor"} : accepted[o] \in Seq(1..MaxCode)
        BY DEF TypeOK
      <3>4. \A o \in {"basic", "factor"} : job.want[o] # 0 =>
              Append(accepted[o], job.want[o]) \in Seq(1..MaxCode)
        BY <3>2, <3>3
      <3>5. QED
        BY <3>3, <3>4 DEF Credited
    <2>6. QED
      BY <2>1, <2>2, <2>3, <2>4, <2>5 DEF TypeOK
  <1>5. CASE UndoFile
    <2>1. /\ ~Free /\ job.undo # <<>> /\ disk' = Put(Head(job.undo), job.before, disk)
          /\ job' = [job EXCEPT !.undo = Tail(@), !.dirty = @ \ {Head(job.undo)}]
          /\ UNCHANGED <<mem, waiting, acked, loose, accepted, saves, faults, crashes>>
      BY <1>5 DEF UndoFile, PutBack
    <2>2. disk' \in Config
      BY <2>1, JobHeld, PutConfig DEF TypeOK
    <2>3. job' \in JobType
      BY <2>1, JobHeld DEF JobType
    <2>4. QED
      BY <2>1, <2>2, <2>3 DEF TypeOK
  <1>6. CASE UndoFails
    <2>1. /\ ~Free /\ job.undo # <<>> /\ faults < MaxFaults /\ faults' = faults + 1
          /\ job' = [job EXCEPT !.undo = Tail(@)]
          /\ UNCHANGED <<disk, mem, waiting, acked, loose, accepted, saves, crashes>>
      BY <1>6 DEF UndoFails
    <2>2. job' \in JobType
      BY <2>1, JobHeld DEF JobType
    <2>3. faults' \in 0..MaxFaults
      BY <2>1, BoundAssumption DEF TypeOK
    <2>4. QED
      BY <2>1, <2>2, <2>3 DEF TypeOK
  <1>7. CASE Refuse
    <2>1. ~Free /\ loose' = loose \cup job.dirty /\ job' = None
          /\ UNCHANGED <<disk, mem, waiting, acked, accepted, saves, faults, crashes>>
      BY <1>7 DEF Refuse
    <2>2. job.dirty \subseteq File
      BY <2>1, JobHeld DEF JobType
    <2>3. QED
      BY <2>1, <2>2 DEF TypeOK
  <1>8. QED
    BY <1>1, <1>2, <1>3, <1>4, <1>5, <1>6, <1>7 DEF Step

LEMMA StartTypes ==
  ASSUME TypeOK, NEW i \in Instance, Start(i)
  PROVE  TypeOK'
  <1> DEFINE A == [x \in Field |-> IF x \in LooseField THEN disk'[x] ELSE acked[x]]
  <1>1. /\ disk' = Effective(disk) /\ mem' = [mem EXCEPT ![i] = disk']
        /\ acked' = Effective(A) /\ loose' = {}
        /\ UNCHANGED <<job, waiting, accepted, saves, faults, crashes>>
    BY DEF Start
  <1>2. disk' \in Config
    BY <1>1, EffectiveConfig DEF TypeOK
  <1>3. \A x \in Field : disk'[x] \in Values[x] /\ acked[x] \in Values[x]
    BY <1>2, ConfigFields DEF TypeOK
  <1>4. \A x \in Field : A[x] \in Values[x]
    BY <1>3
  <1>5. A \in Config
    BY <1>4, ConfigOf
  <1>6. acked' \in Config
    BY <1>1, <1>5, EffectiveConfig
  <1>7. QED
    BY <1>1, <1>2, <1>6 DEF TypeOK

LEMMA TypeStep == TypeOK /\ [Next]_vars => TypeOK'
  <1> SUFFICES ASSUME TypeOK, [Next]_vars
               PROVE  TypeOK'
    OBVIOUS
  <1>1. ASSUME NEW i \in Instance, Edit(i)
        PROVE  TypeOK'
    BY <1>1, EditAsked, AskedTypes
  <1>2. ASSUME NEW i \in Instance, ReceiveSourceEdit(i)
        PROVE  TypeOK'
    BY <1>2 DEF ReceiveSourceEdit, TypeOK
  <1>3. ASSUME NEW i \in Instance, Crash(i)
        PROVE  TypeOK'
    <2>1. ~Free => job.dirty \subseteq File
      BY JobHeld DEF JobType
    <2>2. crashes' \in 0..MaxCrashes
      BY <1>3, BoundAssumption DEF Crash, TypeOK
    <2>3. QED
      BY <1>3, <2>1, <2>2 DEF Crash, TypeOK
  <1>4. ASSUME NEW i \in Instance, Start(i)
        PROVE  TypeOK'
    BY <1>4, StartTypes
  <1>5. CASE Step
    BY <1>5, StepTypes
  <1>6. CASE UNCHANGED vars
    BY <1>6 DEF vars, TypeOK
  <1>7. QED
    BY <1>1, <1>2, <1>3, <1>4, <1>5, <1>6 DEF Next

LEMMA TypeInit == Init => TypeOK
  <1>1. Initial \in Config
    BY SettingsAssumption
  <1>2. <<>> \in Seq(1..MaxCode)
    OBVIOUS
  <1>3. 0 \in 0..MaxSaves /\ 0 \in 0..MaxFaults /\ 0 \in 0..MaxCrashes
    BY BoundAssumption
  <1>4. QED
    BY <1>1, <1>2, <1>3 DEF Init, TypeOK

(* The files, the memories and the edit under way hold settings of their   *)
(* types, whichever of the handlers edits them.                            *)
THEOREM TypeCorrect == Spec => []TypeOK
  BY TypeInit, TypeStep, PTL DEF Spec

-----------------------------------------------------------------------------
(* Only validated settings come into force.                                *)

LEMMA GuardedSame ==
  ASSUME NEW c, NEW d, \A x \in GuardField : c[x] = d[x]
  PROVE  Validated(c) <=> Validated(d)
  BY DEF Validated, Guarded

LEMMA EffectiveValidated ==
  ASSUME NEW c \in Config, Validated(c)
  PROVE  Validated(Effective(c))
  BY EffectiveConfig DEF Validated

LEMMA AskedValid ==
  ASSUME TypeOK, MemoryValid, NEW i \in Instance, Asked(i)
  PROVE  JobValid' /\ MemoryValid'
  <1>1. PICK how, c, e, files, undo : Asks(i, how, c, e, files, undo)
    BY DEF Asked
  <1>2. mem' = mem
    BY <1>1 DEF Asks, Take
  <1>3. Up(i) /\ job' = Job(i, how, c, e, files, undo)
    BY <1>1, TakenJob
  <1>4. /\ job'.inst = i /\ job'.how = how /\ job'.want = Over(e, c)
        /\ job'.loaded = Over(e, c) /\ job'.pc = "write"
    BY <1>3 DEF Job
  <1>5. how \in {"direct", "code"} => \A x \in GuardField : Over(e, c)[x] = mem[i][x]
    <2>1. GuardField \subseteq Field
      BY FieldList DEF GuardField
    <2>2. QED
      BY <1>1, <2>1 DEF Asks, Over
  <1>6. how = "staged" => Validated(Effective(Over(e, c)))
    BY <1>1 DEF Asks
  <1>7. JobValid'
    BY <1>2, <1>3, <1>4, <1>5, <1>6 DEF JobValid, Up
  <1>8. MemoryValid'
    BY <1>2 DEF MemoryValid, Up
  <1>9. QED
    BY <1>7, <1>8

LEMMA AppliedValid ==
  ASSUME TypeOK, JobValid, MemoryValid, Written
  PROVE  Validated(Loaded)
  <1>1. ~Free /\ job \in JobType /\ Up(job.inst) /\ job.inst \in Instance
    BY JobHeld DEF Written, JobValid
  <1>2. CASE job.how = "staged"
    BY <1>1, <1>2 DEF JobValid, Loaded
  <1>3. CASE job.how = "reload"
    BY <1>1, <1>3 DEF JobValid, Loaded, Written
  <1>4. CASE job.how \in {"direct", "code"}
    <2>1. Loaded = job.want /\ \A x \in GuardField : job.want[x] = mem[job.inst][x]
      BY <1>1, <1>4 DEF JobValid, Loaded
    <2>2. Validated(mem[job.inst])
      BY <1>1 DEF MemoryValid
    <2>3. QED
      BY <2>1, <2>2, GuardedSame
  <1>5. QED
    BY <1>1, <1>2, <1>3, <1>4 DEF JobType

LEMMA StepValid ==
  ASSUME TypeOK, JobValid, MemoryValid, Step
  PROVE  JobValid' /\ MemoryValid'
  <1>1. CASE WriteFile \/ UndoFile \/ UndoFails
    <2>1. ~Free /\ mem' = mem
      BY <1>1 DEF WriteFile, UndoFile, UndoFails
    <2>2. /\ job'.inst = job.inst /\ job'.how = job.how /\ job'.want = job.want
          /\ job'.loaded = job.loaded /\ job'.pc = job.pc
      BY <1>1, <2>1, JobHeld DEF WriteFile, UndoFile, UndoFails, JobType
    <2>3. QED
      BY <2>1, <2>2 DEF JobValid, MemoryValid, Up, Free
  <1>2. CASE WriteFails \/ CutoverFails
    <2>1. /\ ~Free /\ mem' = mem
          /\ \E q \in {"undo", "refuse"} : job' = [job EXCEPT !.pc = q]
      BY <1>2 DEF WriteFails, CutoverFails, Written
    <2>2. /\ job'.inst = job.inst /\ job'.how = job.how /\ job'.want = job.want
          /\ job'.loaded = job.loaded /\ job'.pc # "swap"
      BY <2>1, JobHeld DEF JobType
    <2>3. QED
      BY <2>1, <2>2 DEF JobValid, MemoryValid, Up, Free
  <1>3. CASE Load
    <2>1. /\ ~Free /\ mem' = mem /\ job.how = "reload"
          /\ \E q : job' = [job EXCEPT !.loaded = disk', !.dirty = q,
                                       !.pc = IF Validated(disk') THEN "swap" ELSE "undo"]
      BY <1>3 DEF Load
    <2>2. /\ job'.inst = job.inst /\ job'.how = "reload"
          /\ job'.loaded = disk' /\ (job'.pc = "swap" => Validated(disk'))
      BY <2>1, JobHeld DEF JobType
    <2>3. QED
      BY <2>1, <2>2 DEF JobValid, MemoryValid, Up, Free, Validated, Guarded
  <1>4. CASE Apply
    <2>1. job' = None /\ mem' = [mem EXCEPT ![job.inst] = Loaded] /\ Validated(Loaded)
      BY <1>4, AppliedValid DEF Apply
    <2>2. JobValid'
      BY <2>1 DEF JobValid, Free
    <2>3. ASSUME NEW i \in Instance, Up(i)'
          PROVE  Validated(mem[i])'
      <3>1. CASE i = job.inst
        <4>1. mem'[i] = Loaded
          BY <2>1, <3>1 DEF TypeOK
        <4>2. QED
          BY <2>1, <4>1 DEF Validated, Guarded
      <3>2. CASE i # job.inst
        <4>1. mem'[i] = mem[i]
          BY <2>1, <3>2 DEF TypeOK
        <4>2. QED
          BY <2>3, <4>1 DEF MemoryValid, Up, Validated, Guarded
      <3>3. QED
        BY <3>1, <3>2
    <2>4. QED
      BY <2>2, <2>3 DEF MemoryValid
  <1>5. CASE Refuse
    BY <1>5 DEF Refuse, JobValid, MemoryValid, Up, Free
  <1>6. QED
    BY <1>1, <1>2, <1>3, <1>4, <1>5 DEF Step

LEMMA ValidStep == TypeOK /\ JobValid /\ MemoryValid /\ [Next]_vars => (JobValid /\ MemoryValid)'
  <1> SUFFICES ASSUME TypeOK, JobValid, MemoryValid, [Next]_vars
               PROVE  JobValid' /\ MemoryValid'
    OBVIOUS
  <1>1. ASSUME NEW i \in Instance, Edit(i)
        PROVE  JobValid' /\ MemoryValid'
    BY <1>1, EditAsked, AskedValid
  <1>2. ASSUME NEW i \in Instance, ReceiveSourceEdit(i)
        PROVE  JobValid' /\ MemoryValid'
    BY <1>2 DEF ReceiveSourceEdit, JobValid, MemoryValid, Up, Free, Validated, Guarded
  <1>3. ASSUME NEW i \in Instance, Crash(i)
        PROVE  JobValid' /\ MemoryValid'
    <2>1. mem' = [mem EXCEPT ![i] = None] /\ (job' = None \/ (job' = job /\ (~Free => job.inst # i)))
      BY <1>3 DEF Crash
    <2>2. \A j \in Instance : (j = i => mem'[j] = None) /\ (j # i => mem'[j] = mem[j])
      BY <2>1 DEF TypeOK
    <2>3. MemoryValid'
      BY <2>2 DEF MemoryValid, Up, Validated, Guarded
    <2>4. JobValid'
      <3>1. CASE job' = None
        BY <3>1 DEF JobValid, Free
      <3>2. CASE job' = job /\ ~Free
        <4>1. mem'[job.inst] = mem[job.inst]
          BY <2>1, <2>2, <3>2, JobHeld DEF Free
        <4>2. QED
          BY <3>2, <4>1 DEF JobValid, Up, Validated, Guarded
      <3>3. CASE job' = job /\ Free
        BY <3>3 DEF JobValid, Free
      <3>4. QED
        BY <2>1, <3>1, <3>2, <3>3
    <2>5. QED
      BY <2>3, <2>4
  <1>4. ASSUME NEW i \in Instance, Start(i)
        PROVE  JobValid' /\ MemoryValid'
    <2>1. /\ ~Up(i) /\ Validated(disk) /\ disk' = Effective(disk)
          /\ mem' = [mem EXCEPT ![i] = disk'] /\ job' = job
      BY <1>4 DEF Start
    <2>2. Validated(Effective(disk))
      BY <2>1, EffectiveValidated DEF TypeOK
    <2>3. \A j \in Instance : (j = i => mem'[j] = Effective(disk)) /\ (j # i => mem'[j] = mem[j])
      BY <2>1 DEF TypeOK
    <2>4. MemoryValid'
      BY <2>2, <2>3 DEF MemoryValid, Up, Validated, Guarded
    <2>5. JobValid'
      <3>1. CASE Free
        BY <2>1, <3>1 DEF JobValid, Free
      <3>2. CASE ~Free
        <4>1. job.inst \in Instance /\ job.inst # i
          BY <2>1, <3>2, JobHeld DEF JobValid
        <4>2. mem'[job.inst] = mem[job.inst]
          BY <2>3, <4>1
        <4>3. QED
          BY <2>1, <4>2 DEF JobValid, Up, Free, Validated, Guarded
      <3>3. QED
        BY <3>1, <3>2
    <2>6. QED
      BY <2>4, <2>5
  <1>5. CASE Step
    BY <1>5, StepValid
  <1>6. CASE UNCHANGED vars
    BY <1>6 DEF vars, JobValid, MemoryValid, Up, Free, Validated, Guarded
  <1>7. QED
    BY <1>1, <1>2, <1>3, <1>4, <1>5, <1>6 DEF Next

LEMMA ValidInit == Init => JobValid /\ MemoryValid
  BY SettingsAssumption DEF Init, JobValid, MemoryValid, Free
LEMMA ValidatedCovers ==
  ASSUME NEW c, Validated(c)
  PROVE  Guarded(c) \in CoveredGuards
  <1> DEFINE g == Guarded(c)
  <1>1. g \in GuardType /\ Valid(Meaning(g))
    BY DEF Validated, ValidGuards
  <1>2. Meaning(g).emergency = Policy[g.emergency] /\ g.emergency \in DOMAIN Policy
    BY <1>1 DEF Meaning, GuardType
  <1>3. Meaning(g).emergency \in EmergencySettings
    BY <1>2, ValueAssumption
  <1>4. \A a \in Alert : Covered(Meaning(g), a)
    BY <1>1, <1>3, ValidCovers
  <1>5. QED
    BY <1>1, <1>4 DEF CoveredGuards

-----------------------------------------------------------------------------
(* The codes that were accepted stay below the counters.                   *)

Once(o) == \A m, n \in DOMAIN accepted[o] : m < n => accepted[o][m] < accepted[o][n]

Kept(o) == /\ NotBefore(o, disk)
           /\ \A i \in Instance : Up(i) => NotBefore(o, mem[i])
           /\ ~Free => PendingCounter(o)
           /\ Once(o)

LEMMA KeptIsCountersKept == (\A o \in Counters : Kept(o)) <=> CountersKept /\ CodeOnce
  BY DEF Kept, CountersKept, CodeOnce, Once, Counters

LEMMA StillAfter ==
  ASSUME NEW o, NEW c, NEW d, NotBefore(o, c), d[o] = c[o],
         accepted'[o] = accepted[o] \/ accepted'[o] = <<>>
  PROVE  \A m \in DOMAIN accepted'[o] : accepted'[o][m] <= d[o]
  BY DEF NotBefore

LEMMA SeqElement ==
  ASSUME NEW S, NEW s \in Seq(S), NEW m \in DOMAIN s
  PROVE  s[m] \in S
  OBVIOUS

LEMMA CounterFields ==
  ASSUME NEW o \in Counters
  PROVE  /\ o \in Field /\ o \in Fields("auth") /\ o # "tuned"
         /\ \A f \in File : o \in Fields(f) => f = "auth"
         /\ \A c \in Config : c[o] \in Nat
         /\ TypeOK => /\ accepted[o] \in Seq(1..MaxCode)
                    /\ \A m \in DOMAIN accepted[o] : accepted[o][m] \in Nat
  <1>1. \A c \in Config : c[o] \in 0..MaxCode
    BY ConfigFields, CounterValues, FieldList DEF Counters, Counter
  <1>2. TypeOK => /\ accepted[o] \in Seq(1..MaxCode)
                    /\ \A m \in DOMAIN accepted[o] : accepted[o][m] \in Nat
    <2>1. SUFFICES ASSUME TypeOK, NEW m \in DOMAIN accepted[o]
                   PROVE  accepted[o][m] \in Nat
      BY DEF TypeOK, Counters
    <2>2. accepted[o] \in Seq(1..MaxCode)
      BY <2>1 DEF TypeOK, Counters
    <2>3. accepted[o][m] \in 1..MaxCode
      BY <2>1, <2>2, SeqElement
    <2>4. QED
      BY <2>3, ValueAssumption
  <1>3. QED
    BY <1>1, <1>2, FieldList, ValueAssumption DEF Counters, File, TomlField, AuthField

LEMMA AskedKept ==
  ASSUME TypeOK, NEW o \in Counters, Kept(o), NEW i \in Instance, Asked(i)
  PROVE  Kept(o)'
  <1>1. PICK how, c, e, files, undo : Asks(i, how, c, e, files, undo)
    BY DEF Asked
  <1>2. disk' = disk /\ mem' = mem /\ accepted' = accepted
    BY <1>1 DEF Asks, Take
  <1>3. /\ Up(i) /\ c \in Config /\ Over(e, c) \in Config
        /\ job' = Job(i, how, c, e, files, undo)
    BY <1>1, TakenJob
  <1>4. /\ job'.how = how /\ job'.touched = DOMAIN e /\ job'.want = Over(e, c)
        /\ job'.before = disk /\ job'.todo = files /\ job'.pc = "write"
    BY <1>3 DEF Job
  <1>5. NotBefore(o, c)
    BY <1>1, <1>3 DEF Asks, Kept
  <1>6. o \notin DOMAIN e => NotBefore(o, Over(e, c))
    BY <1>5, CounterFields DEF NotBefore, Over
  <1>7. o \in DOMAIN e => ToWrite("auth")'
    BY <1>1, <1>4, CounterFields DEF Asks, ToWrite, Covers, File
  <1>8. how = "code" /\ o \in DOMAIN e =>
          \A m \in DOMAIN accepted[o] : accepted[o][m] < Over(e, c)[o]
    <2>1. SUFFICES ASSUME how = "code", o \in DOMAIN e, NEW m \in DOMAIN accepted[o]
                   PROVE  accepted[o][m] < Over(e, c)[o]
      OBVIOUS
    <2>2. e[o] > c[o] /\ Over(e, c)[o] = e[o]
      BY <1>1, <2>1, CounterFields DEF Asks, Beyond, Over
    <2>3. accepted[o][m] <= c[o]
      BY <1>5, <2>1 DEF NotBefore
    <2>4. accepted[o][m] \in Nat /\ c[o] \in Nat /\ Over(e, c)[o] \in Nat
      BY <1>3, <2>1, CounterFields
    <2>5. QED
      BY <2>2, <2>3, <2>4
  <1>9. how = "code" /\ o \in DOMAIN e => NotBefore(o, Over(e, c))
    <2>1. SUFFICES ASSUME how = "code", o \in DOMAIN e, NEW m \in DOMAIN accepted[o]
                   PROVE  accepted[o][m] <= Over(e, c)[o]
      BY DEF NotBefore
    <2>2. accepted[o][m] \in Nat /\ Over(e, c)[o] \in Nat
      BY <1>3, <2>1, CounterFields
    <2>3. QED
      BY <1>8, <2>1, <2>2
  <1>10. how = "reload" => o \notin DOMAIN e
    BY <1>1 DEF Asks
  <1>11. PendingCounter(o)'
    BY <1>2, <1>4, <1>6, <1>7, <1>8, <1>9, <1>10 DEF PendingCounter, NotBefore, Kept
  <1>12. QED
    BY <1>2, <1>11 DEF Kept, NotBefore, Up, Once

LEMMA WroteKept ==
  ASSUME TypeOK, NEW o \in Counters, Kept(o), WriteFile
  PROVE  Kept(o)'
  <1> DEFINE f == Head(job.todo)
  <1>1. /\ ~Free /\ job \in JobType /\ job.pc = "write" /\ job.todo # <<>> /\ f \in File
        /\ disk' = Put(f, job.want, disk) /\ accepted' = Reset(f) /\ mem' = mem
        /\ job' = [job EXCEPT !.todo = Tail(@), !.dirty = @ \cup {f}]
    BY JobHeld DEF WriteFile
  <1>2. /\ job'.how = job.how /\ job'.touched = job.touched /\ job'.want = job.want
        /\ job'.before = job.before /\ job'.todo = Tail(job.todo) /\ job'.pc = "write"
    BY <1>1 DEF JobType
  <1>3. PendingCounter(o)
    BY <1>1 DEF Kept
  <1>4. disk'[o] = IF f = "auth" THEN job.want[o] ELSE disk[o]
    BY <1>1, CounterFields DEF Put
  <1>5. accepted'[o] = IF f = "auth" /\ job.how # "code" /\ o \in job.touched THEN <<>> ELSE accepted[o]
    BY <1>1 DEF Reset, Counters
  <1>6. ToWrite("auth") => f = "auth" \/ ToWrite("auth")'
    <2>1. SUFFICES ASSUME NEW n \in DOMAIN job.todo, job.todo[n] = "auth", f # "auth"
                   PROVE  ToWrite("auth")'
      BY DEF ToWrite
    <2>2. job.todo \in Seq(File)
      BY <1>1 DEF JobType
    <2>3. n # 1 /\ n - 1 \in DOMAIN Tail(job.todo) /\ Tail(job.todo)[n - 1] = "auth"
      BY <1>1, <2>1, <2>2
    <2>4. QED
      BY <1>2, <2>3 DEF ToWrite
  <1>7. NotBefore(o, disk)'
    <2>1. CASE f # "auth"
      BY <1>4, <1>5, <2>1 DEF Kept, NotBefore
    <2>2. CASE f = "auth" /\ job.how # "code" /\ o \in job.touched
      BY <1>5, <2>2 DEF NotBefore
    <2>3. CASE f = "auth" /\ ~(job.how # "code" /\ o \in job.touched)
      BY <1>3, <1>4, <1>5, <2>3 DEF PendingCounter, NotBefore
    <2>4. QED
      BY <2>1, <2>2, <2>3
  <1>8. \A i \in Instance : Up(i)' => NotBefore(o, mem[i])'
    BY <1>1, <1>5 DEF Kept, NotBefore, Up
  <1>9. PendingCounter(o)'
    <2>1. NotBefore(o, job.before)'
      BY <1>2, <1>3, <1>5 DEF PendingCounter, NotBefore
    <2>2. job.how = "reload" => o \notin job.touched
      BY <1>3 DEF PendingCounter
    <2>3. o \in job.touched /\ ~ToWrite("auth")' => disk'[o] = job.want[o]
      BY <1>1, <1>3, <1>4, <1>6 DEF PendingCounter
    <2>4. job.how # "code" /\ o \in job.touched /\ ~ToWrite("auth")' => accepted'[o] = <<>>
      BY <1>3, <1>5, <1>6 DEF PendingCounter
    <2>5. ~(job.how # "code" /\ o \in job.touched) => NotBefore(o, job.want)'
      BY <1>2, <1>3, <1>5 DEF PendingCounter, NotBefore
    <2>6. job.how = "code" /\ o \in job.touched =>
            \A m \in DOMAIN accepted'[o] : accepted'[o][m] < job.want[o]
      BY <1>3, <1>5 DEF PendingCounter
    <2>7. QED
      BY <1>2, <2>1, <2>2, <2>3, <2>4, <2>5, <2>6 DEF PendingCounter
  <1>10. Once(o)'
    BY <1>5 DEF Kept, Once
  <1>11. QED
    BY <1>7, <1>8, <1>9, <1>10 DEF Kept

LEMMA LoadedKept ==
  ASSUME TypeOK, NEW o \in Counters, Kept(o), Load
  PROVE  Kept(o)'
  <1>1. /\ ~Free /\ job \in JobType /\ job.how = "reload" /\ job.todo = <<>>
        /\ disk' = Effective(disk) /\ mem' = mem /\ accepted' = accepted
        /\ job' = [job EXCEPT !.loaded = disk', !.dirty = @ \cup Pruned,
                              !.pc = IF Validated(disk') THEN "swap" ELSE "undo"]
    BY JobHeld DEF Load
  <1>2. /\ job'.how = "reload" /\ job'.touched = job.touched /\ job'.want = job.want
        /\ job'.before = job.before /\ job'.loaded = disk'
    BY <1>1 DEF JobType
  <1>3. disk'[o] = disk[o]
    BY <1>1, EffectiveConfig, CounterFields DEF TypeOK
  <1>4. NotBefore(o, disk)'
    BY <1>1, <1>3 DEF Kept, NotBefore
  <1>5. PendingCounter(o) /\ o \notin job.touched
    BY <1>1 DEF Kept, PendingCounter
  <1>6. PendingCounter(o)'
    BY <1>1, <1>2, <1>4, <1>5 DEF PendingCounter, NotBefore
  <1>7. QED
    BY <1>1, <1>4, <1>6 DEF Kept, NotBefore, Up, Once

LEMMA UndoneKept ==
  ASSUME TypeOK, NEW o \in Counters, Kept(o),
         WriteFails \/ CutoverFails \/ UndoFile \/ UndoFails
  PROVE  Kept(o)'
  <1>1. /\ ~Free /\ job \in JobType /\ mem' = mem /\ accepted' = accepted
        /\ disk' = disk \/ \E f : disk' = Put(f, job.before, disk)
    BY JobHeld DEF WriteFails, CutoverFails, UndoFile, UndoFails, PutBack, Written
  <1>2. /\ job'.how = job.how /\ job'.touched = job.touched /\ job'.want = job.want
        /\ job'.before = job.before /\ job'.todo = job.todo /\ job'.pc \in {"undo", "refuse"}
    BY <1>1 DEF WriteFails, CutoverFails, UndoFile, UndoFails, JobType
  <1>3. PendingCounter(o)
    BY <1>1 DEF Kept
  <1>4. disk'[o] = disk[o] \/ disk'[o] = job.before[o]
    BY <1>1, CounterFields DEF Put
  <1>5. NotBefore(o, disk)'
    BY <1>1, <1>3, <1>4 DEF Kept, PendingCounter, NotBefore
  <1>6. PendingCounter(o)'
    BY <1>1, <1>2, <1>3 DEF PendingCounter, NotBefore, ToWrite
  <1>7. QED
    BY <1>1, <1>5, <1>6 DEF Kept, NotBefore, Up, Once

LEMMA AppliedKept ==
  ASSUME TypeOK, JobValid, OneProcess, NEW o \in Counters, Kept(o), Apply
  PROVE  Kept(o)'
  <1>1. /\ ~Free /\ job \in JobType /\ job.inst \in Instance /\ job.want \in Config
        /\ job.todo = <<>> /\ job.pc = IF job.how = "reload" THEN "swap" ELSE "write"
        /\ mem' = [mem EXCEPT ![job.inst] = Loaded] /\ accepted' = Credited
        /\ job' = None /\ disk' = disk
    BY JobHeld DEF Apply, Written
  <1>2. PendingCounter(o) /\ ~ToWrite("auth")
    BY <1>1 DEF Kept, ToWrite
  <1>3. \A i \in Instance : mem'[i] = Loaded
    BY <1>1 DEF OneProcess, TypeOK
  <1>4. CASE job.how # "staged" /\ o \in job.touched /\ job.want[o] # 0
    <2>1. job.how \in {"direct", "code"}
      BY <1>1, <1>2, <1>4 DEF JobType, PendingCounter
    <2>2. Loaded = job.want /\ disk[o] = job.want[o]
      BY <1>1, <1>2, <1>4, <2>1 DEF Loaded, JobValid, PendingCounter
    <2>3. accepted'[o] = Append(accepted[o], job.want[o])
      BY <1>1, <1>4 DEF Credited, Counters
    <2>4. \A m \in DOMAIN accepted[o] : accepted[o][m] < job.want[o]
      BY <1>2, <1>4, <2>1 DEF PendingCounter
    <2>5. /\ accepted[o] \in Seq(1..MaxCode) /\ job.want[o] \in Nat
          /\ \A m \in DOMAIN accepted[o] : accepted[o][m] \in Nat
      BY <1>1, CounterFields
    <2>6. \A m \in DOMAIN accepted'[o] : accepted'[o][m] <= job.want[o]
      BY <2>3, <2>4, <2>5
    <2>7. \A m, n \in DOMAIN accepted'[o] : m < n => accepted'[o][m] < accepted'[o][n]
      BY <2>3, <2>4, <2>5 DEF Kept, Once
    <2>8. QED
      BY <1>1, <1>3, <2>2, <2>6, <2>7 DEF Kept, NotBefore, Free, Once
  <1>5. CASE ~(job.how # "staged" /\ o \in job.touched /\ job.want[o] # 0)
    <2>1. accepted'[o] = accepted[o]
      BY <1>1, <1>5 DEF Credited, Counters
    <2>2. NotBefore(o, Loaded)
      <3>1. NotBefore(o, job.want)
        BY <1>2 DEF PendingCounter, NotBefore
      <3>2. CASE job.how = "staged"
        <4>1. Loaded[o] = job.want[o]
          BY <1>1, <3>2, EffectiveConfig, CounterFields DEF Loaded
        <4>2. QED
          BY <3>1, <4>1 DEF NotBefore
      <3>3. CASE job.how = "reload"
        BY <1>1, <1>2, <3>3 DEF PendingCounter, Loaded
      <3>4. CASE job.how \in {"direct", "code"}
        BY <1>1, <3>1, <3>4 DEF Loaded, JobValid
      <3>5. QED
        BY <1>1, <3>2, <3>3, <3>4 DEF JobType
    <2>3. QED
      BY <1>1, <1>3, <2>1, <2>2 DEF Kept, NotBefore, Free, Once
  <1>6. QED
    BY <1>4, <1>5
LEMMA EndedKept ==
  ASSUME TypeOK, NEW o \in Counters, Kept(o),
         Refuse \/ (\E i \in Instance : ReceiveSourceEdit(i)) \/ UNCHANGED vars
  PROVE  Kept(o)'
  <1>1. /\ disk' = disk /\ mem' = mem /\ accepted' = accepted
        /\ job' = None \/ job' = job
    BY DEF Refuse, ReceiveSourceEdit, vars
  <1>2. ~Free' => job' = job /\ ~Free
    BY <1>1 DEF Free
  <1>3. ~Free' => PendingCounter(o)'
    BY <1>1, <1>2 DEF Kept, PendingCounter, NotBefore, ToWrite
  <1>4. QED
    BY <1>1, <1>3 DEF Kept, NotBefore, Up, Once

LEMMA CrashedKept ==
  ASSUME TypeOK, NEW o \in Counters, Kept(o), NEW i \in Instance, Crash(i)
  PROVE  Kept(o)'
  <1>1. /\ disk' = disk /\ accepted' = accepted /\ mem' = [mem EXCEPT ![i] = None]
        /\ job' = None \/ job' = job
    BY DEF Crash
  <1>2. \A j \in Instance : mem'[j] = None \/ mem'[j] = mem[j]
    BY <1>1 DEF TypeOK
  <1>3. \A j \in Instance : Up(j)' => NotBefore(o, mem[j])'
    BY <1>1, <1>2 DEF Kept, NotBefore, Up
  <1>4. ~Free' => job' = job /\ ~Free
    BY <1>1 DEF Free
  <1>5. ~Free' => PendingCounter(o)'
    BY <1>1, <1>4 DEF Kept, PendingCounter, NotBefore, ToWrite
  <1>6. QED
    BY <1>1, <1>3, <1>5 DEF Kept, NotBefore, Once

LEMMA StartedKept ==
  ASSUME TypeOK, JobValid, OneProcess, NEW o \in Counters, Kept(o), NEW i \in Instance, Start(i)
  PROVE  Kept(o)'
  <1>1. /\ ~Up(i) /\ disk' = Effective(disk) /\ accepted' = accepted
        /\ mem' = [mem EXCEPT ![i] = disk'] /\ job' = job
    BY DEF Start
  <1>2. Free
    BY <1>1, JobHeld DEF JobValid, OneProcess
  <1>3. disk'[o] = disk[o]
    BY <1>1, EffectiveConfig, CounterFields DEF TypeOK
  <1>4. NotBefore(o, disk)'
    BY <1>1, <1>3 DEF Kept, NotBefore
  <1>5. \A j \in Instance : mem'[j] = disk'
    BY <1>1 DEF TypeOK, OneProcess
  <1>6. QED
    BY <1>1, <1>2, <1>4, <1>5 DEF Kept, NotBefore, Free, Once

LEMMA KeptStep ==
  ASSUME TypeOK, JobValid, OneProcess, NEW o \in Counters, Kept(o), [Next]_vars
  PROVE  Kept(o)'
  <1>1. ASSUME NEW i \in Instance, Edit(i)
        PROVE  Kept(o)'
    BY <1>1, EditAsked, AskedKept
  <1>2. ASSUME NEW i \in Instance, Crash(i)
        PROVE  Kept(o)'
    BY <1>2, CrashedKept
  <1>3. ASSUME NEW i \in Instance, Start(i)
        PROVE  Kept(o)'
    BY <1>3, StartedKept
  <1>4. CASE Step
    BY <1>4, WroteKept, LoadedKept, UndoneKept, AppliedKept, EndedKept DEF Step
  <1>5. CASE UNCHANGED vars \/ \E i \in Instance : ReceiveSourceEdit(i)
    BY <1>5, EndedKept
  <1>6. QED
    BY <1>1, <1>2, <1>3, <1>4, <1>5 DEF Next

LEMMA KeptInit == Init => \A o \in Counters : Kept(o)
  <1>1. SUFFICES ASSUME Init, NEW o \in Counters
                 PROVE  Kept(o)
    OBVIOUS
  <1>2. accepted[o] = <<>> /\ Free
    BY <1>1 DEF Init, Counters, Free
  <1>3. QED
    BY <1>2 DEF Kept, NotBefore, Once

-----------------------------------------------------------------------------
(* What was answered is on disk and in memory, where one process runs.      *)

LEMMA SameConfig ==
  ASSUME NEW c \in Config, NEW d \in Config, \A x \in Field : c[x] = d[x]
  PROVE  c = d
  BY ConfigFields

LEMMA EffectiveTuned ==
  ASSUME NEW c \in Config
  PROVE  /\ "tuned" \in Field /\ "sources" \in Field
         /\ Effective(c)["tuned"] = c.tuned \cap c.sources
         /\ Effective(c)["sources"] = c.sources
         /\ c.tuned \subseteq c.sources => Effective(c) = c
  <1>1. "tuned" \in Field /\ "sources" \in Field /\ "sources" # "tuned"
    BY FieldList
  <1>2. DOMAIN c = Field
    BY ConfigFields
  <1>3. Effective(c)["tuned"] = c.tuned \cap c.sources /\ Effective(c)["sources"] = c.sources
    BY <1>1, <1>2 DEF Effective, Tuned
  <1>4. ASSUME c.tuned \subseteq c.sources
        PROVE  Effective(c) = c
    <2>1. c.tuned \cap c.sources = c.tuned
      BY <1>4
    <2>2. \A x \in Field : Effective(c)[x] = c[x]
      BY <1>3, <2>1, EffectiveConfig
    <2>3. QED
      BY <2>2, EffectiveConfig, SameConfig
  <1>5. QED
    BY <1>1, <1>3, <1>4

LEMMA SettledOnDisk ==
  ASSUME TypeOK
  PROVE  Settled(loose, disk) <=> \A x \in Field \ LooseField : disk[x] = acked[x]
  BY FileFields DEF TypeOK, Settled, LooseField

LEMMA AskedSettings ==
  ASSUME TypeOK, SettingsKept, NEW i \in Instance, Asked(i)
  PROVE  SettingsKept'
  <1>1. PICK how, c, e, files, undo : Asks(i, how, c, e, files, undo)
    BY DEF Asked
  <1>2. Free /\ disk' = disk /\ mem' = mem /\ acked' = acked /\ loose' = loose
    BY <1>1 DEF Asks, Take
  <1>3. /\ Up(i) /\ c \in Config /\ Over(e, c) \in Config
        /\ job' = Job(i, how, c, e, files, undo)
    BY <1>1, TakenJob
  <1>4. /\ job'.how = how /\ job'.touched = DOMAIN e /\ job'.want = Over(e, c)
        /\ job'.before = disk /\ job'.todo = files /\ job'.pc = "write" /\ job'.dirty = {}
    BY <1>3 DEF Job
  <1>5. c = IF how = "staged" THEN disk ELSE acked
    BY <1>1, <1>3 DEF Asks, SettingsKept, AckedInMemory
  <1>6. \A x \in Field : Over(e, c)[x] = IF x \in DOMAIN e THEN e[x] ELSE c[x]
    BY DEF Over
  <1>7. FilesTracked'
    <2>1. Settled(loose, disk)
      BY <1>2 DEF SettingsKept
    <2>2. Settled(loose, job.before)'
      BY <1>2, <1>4, <2>1 DEF Settled
    <2>3. \A f \in File : ~Differ(f, disk, disk)
      BY DEF Differ
    <2>4. \A x \in Field \ DOMAIN e : Over(e, c)[x] = IF how = "staged" THEN disk[x] ELSE acked[x]
      BY <1>5, <1>6
    <2>5. QED
      BY <1>2, <1>4, <2>2, <2>3, <2>4 DEF FilesTracked, Settled, Differ
  <1>8. FilesWritten'
    BY <1>1, <1>4 DEF FilesWritten, ToWrite, Asks, Covers
  <1>9. EditKept'
    <2>1. ASSUME how \in {"direct", "code"}
          PROVE  Over(e, c).tuned \subseteq Over(e, c).sources
      <3>1. /\ "sources" \notin DOMAIN e
            /\ "tuned" \in DOMAIN e => e.tuned \subseteq c.tuned \cup c.sources
        BY <1>1, <2>1 DEF Asks
      <3>2. c.tuned \subseteq c.sources
        BY <1>5, <2>1 DEF SettingsKept
      <3>3. "tuned" \in Field /\ "sources" \in Field
        BY FieldList
      <3>4. Over(e, c)["sources"] = c.sources
        BY <1>6, <3>1, <3>3
      <3>5. Over(e, c)["tuned"] = IF "tuned" \in DOMAIN e THEN e.tuned ELSE c.tuned
        BY <1>6, <3>3
      <3>6. QED
        BY <3>1, <3>2, <3>4, <3>5
    <2>2. how = "reload" => "tuned" \notin DOMAIN e /\ ~ToWrite("dedup")'
      BY <1>1, <1>4 DEF Asks, ToWrite
    <2>3. QED
      BY <1>4, <2>1, <2>2 DEF EditKept
  <1>10. Free => Settled(loose, disk)'
    BY <1>2 DEF SettingsKept, Settled
  <1>11. QED
    BY <1>2, <1>7, <1>8, <1>9, <1>10 DEF SettingsKept, AckedInMemory, Up

LEMMA JobStays ==
  ASSUME TypeOK, WriteFile \/ WriteFails \/ Load \/ CutoverFails \/ UndoFile \/ UndoFails
  PROVE  ~Free'
  <1>1. ~Free
    BY DEF WriteFile, WriteFails, Load, CutoverFails, UndoFile, UndoFails, Written
  <1>2. job' \in JobType
    <2>1. CASE WriteFile
      BY <1>1, <2>1, JobHeld DEF WriteFile, JobType
    <2>2. CASE WriteFails \/ CutoverFails
      <3>1. \E q \in {"undo", "refuse"} : job' = [job EXCEPT !.pc = q]
        BY <2>2 DEF WriteFails, CutoverFails
      <3>2. QED
        BY <1>1, <3>1, JobHeld DEF JobType
    <2>3. CASE Load
      <3>1. disk' \in Config /\ Pruned \subseteq File
        BY <2>3, EffectiveConfig DEF Load, TypeOK, Pruned, File
      <3>2. job' = [job EXCEPT !.loaded = disk', !.dirty = @ \cup Pruned,
                               !.pc = IF Validated(disk') THEN "swap" ELSE "undo"]
        BY <2>3 DEF Load
      <3>3. QED
        BY <1>1, <3>1, <3>2, JobHeld DEF JobType
    <2>4. CASE UndoFile \/ UndoFails
      BY <1>1, <2>4, JobHeld DEF UndoFile, UndoFails, JobType
    <2>5. QED
      BY <2>1, <2>2, <2>3, <2>4
  <1>3. QED
    BY <1>2, NoneAssumption DEF Free

LEMMA WroteSettings ==
  ASSUME TypeOK, SettingsKept, WriteFile
  PROVE  SettingsKept'
  <1> DEFINE f == Head(job.todo)
  <1>1. /\ ~Free /\ job \in JobType /\ job.pc = "write" /\ job.todo # <<>> /\ f \in File
        /\ disk' = Put(f, job.want, disk) /\ mem' = mem /\ acked' = acked /\ loose' = loose
        /\ job' = [job EXCEPT !.todo = Tail(@), !.dirty = @ \cup {f}]
    BY JobHeld DEF WriteFile
  <1>2. /\ job'.how = job.how /\ job'.touched = job.touched /\ job'.want = job.want
        /\ job'.before = job.before /\ job'.pc = "write" /\ job'.todo = Tail(job.todo)
        /\ job'.dirty = job.dirty \cup {f}
    BY <1>1 DEF JobType
  <1>3. FilesTracked /\ FilesWritten /\ EditKept
    BY <1>1 DEF SettingsKept
  <1>4. \A x \in Field : disk'[x] = IF x \in Fields(f) THEN job.want[x] ELSE disk[x]
    BY <1>1 DEF Put
  <1>5. \A g \in File : \A x \in Fields(g) :
          disk'[x] = IF g = f THEN job.want[x] ELSE disk[x]
    BY <1>1, <1>4, FileFields
  <1>6. job.todo \in Seq(File) /\ job.dirty \subseteq File
    BY <1>1 DEF JobType
  <1>7. \A g \in File : ToWrite(g) => g = f \/ ToWrite(g)'
    <2>1. SUFFICES ASSUME NEW g \in File, NEW n \in DOMAIN job.todo, job.todo[n] = g, g # f
                   PROVE  ToWrite(g)'
      BY DEF ToWrite
    <2>2. n # 1 /\ n - 1 \in DOMAIN Tail(job.todo) /\ Tail(job.todo)[n - 1] = g
      BY <1>1, <1>6, <2>1
    <2>3. QED
      BY <1>2, <2>2 DEF ToWrite
  <1>8. \A g \in File : ToWrite(g)' => ToWrite(g)
    <2>1. SUFFICES ASSUME NEW g \in File, NEW n \in DOMAIN Tail(job.todo), Tail(job.todo)[n] = g
                   PROVE  ToWrite(g)
      BY <1>2 DEF ToWrite
    <2>2. n + 1 \in DOMAIN job.todo /\ job.todo[n + 1] = g
      BY <1>1, <1>6, <2>1
    <2>3. QED
      BY <2>2 DEF ToWrite
  <1>9. FilesTracked'
    <2>1. Settled(loose, job.before)'
      BY <1>1, <1>2, <1>3 DEF FilesTracked, Settled
    <2>2. ASSUME NEW g \in File, g \notin job.dirty \cup {f}
          PROVE  ~Differ(g, job.before, disk')
      BY <1>3, <1>5, <2>2 DEF FilesTracked, Differ
    <2>3. ASSUME NEW g \in job.dirty \cup {f}
          PROVE  ~Differ(g, job.want, disk')
      BY <1>1, <1>3, <1>5, <1>6, <2>3 DEF FilesTracked, Differ
    <2>4. QED
      BY <1>1, <1>2, <1>3, <2>1, <2>2, <2>3 DEF FilesTracked, Differ
  <1>10. FilesWritten'
    BY <1>1, <1>2, <1>3, <1>7 DEF FilesWritten
  <1>11. EditKept'
    <2>1. "dedup" \in File /\ ToWrite(f)
      <3>1. 1 \in DOMAIN job.todo /\ job.todo[1] = f
        BY <1>1, <1>6
      <3>2. QED
        BY <3>1 DEF ToWrite, File
    <2>2. job.how = "reload" => "dedup" # f /\ ~ToWrite("dedup")' /\ "dedup" \notin job.dirty
      BY <1>1, <1>3, <1>8, <2>1 DEF EditKept
    <2>3. QED
      BY <1>2, <1>3, <2>2 DEF EditKept
  <1>12. QED
    BY <1>1, <1>9, <1>10, <1>11, JobStays DEF SettingsKept, AckedInMemory, Up

LEMMA LoadedSettings ==
  ASSUME TypeOK, SettingsKept, Load
  PROVE  SettingsKept'
  <1>1. /\ ~Free /\ job \in JobType /\ job.how = "reload" /\ job.pc = "write" /\ job.todo = <<>>
        /\ disk' = Effective(disk) /\ mem' = mem /\ acked' = acked /\ loose' = loose
        /\ job' = [job EXCEPT !.loaded = disk', !.dirty = @ \cup Pruned,
                              !.pc = IF Validated(disk') THEN "swap" ELSE "undo"]
    BY JobHeld DEF Load
  <1>2. /\ job'.how = "reload" /\ job'.touched = job.touched /\ job'.want = job.want
        /\ job'.before = job.before /\ job'.loaded = disk' /\ job'.todo = <<>>
        /\ job'.pc \in {"swap", "undo"} /\ job'.dirty = job.dirty \cup Pruned
    BY <1>1 DEF JobType
  <1>3. FilesTracked /\ FilesWritten /\ EditKept
    BY <1>1 DEF SettingsKept
  <1>4. disk \in Config
    BY DEF TypeOK
  <1>5. \A x \in Field : x # "tuned" => disk'[x] = disk[x]
    BY <1>1, <1>4, EffectiveConfig
  <1>6. disk'["tuned"] = disk.tuned \cap disk.sources /\ disk'["sources"] = disk.sources
    BY <1>1, <1>4, EffectiveTuned
  <1>7. \A g \in File : g # "dedup" => \A x \in Fields(g) : disk'[x] = disk[x]
    <2>1. "dedup" \in File /\ "tuned" \in Fields("dedup")
      BY FieldList DEF File
    <2>2. QED
      BY <1>5, <2>1, FileFields
  <1>8. "dedup" \notin job.dirty \cup Pruned => \A x \in Fields("dedup") : disk'[x] = disk[x]
    BY <1>1 DEF Pruned, Differ
  <1>9. FilesTracked'
    <2>1. Settled(loose, job.before)'
      BY <1>1, <1>2, <1>3 DEF FilesTracked, Settled
    <2>2. ASSUME NEW g \in File, g \notin job.dirty \cup Pruned
          PROVE  ~Differ(g, job.before, disk')
      BY <1>3, <1>7, <1>8, <2>2 DEF FilesTracked, Differ
    <2>3. QED
      BY <1>1, <1>2, <1>3, <2>1, <2>2 DEF FilesTracked, Differ
  <1>10. FilesWritten'
    <2>1. \A g \in File : ~ToWrite(g)
      BY <1>1 DEF ToWrite
    <2>2. QED
      BY <1>1, <1>2, <1>3, <2>1 DEF FilesWritten
  <1>11. EditKept'
    <2>1. "tuned" \notin job.touched /\ "dedup" \notin job.dirty /\ ~ToWrite("dedup")'
      BY <1>1, <1>2, <1>3 DEF EditKept, ToWrite
    <2>2. disk.tuned = job.before.tuned
      <3>1. "dedup" \in File /\ "tuned" \in Fields("dedup")
        BY FieldList DEF File
      <3>2. QED
        BY <1>3, <2>1, <3>1 DEF FilesTracked, Differ
    <2>3. disk'.tuned = job.before.tuned \cap disk'.sources
      BY <1>6, <2>2
    <2>4. \A g \in (job.dirty \cup Pruned) \ {"dedup"} : ~Differ(g, job.want, disk')
      <3>1. job.dirty \subseteq File /\ Pruned \subseteq {"dedup"}
        BY <1>1 DEF JobType, Pruned
      <3>2. QED
        BY <1>1, <1>3, <1>7, <3>1 DEF FilesTracked, Differ
    <2>5. QED
      BY <1>2, <2>1, <2>3, <2>4 DEF EditKept, Differ
  <1>12. QED
    BY <1>1, <1>9, <1>10, <1>11, JobStays DEF SettingsKept, AckedInMemory, Up

LEMMA UndoneSettings ==
  ASSUME TypeOK, SettingsKept, WriteFails \/ CutoverFails \/ UndoFile \/ UndoFails
  PROVE  SettingsKept'
  <1>1. ~Free /\ job \in JobType /\ mem' = mem /\ acked' = acked /\ loose' = loose
    BY JobHeld DEF WriteFails, CutoverFails, UndoFile, UndoFails, Written
  <1>2. /\ job'.how = job.how /\ job'.touched = job.touched /\ job'.want = job.want
        /\ job'.before = job.before /\ job'.todo = job.todo /\ job'.pc \in {"undo", "refuse"}
    BY <1>1 DEF WriteFails, CutoverFails, UndoFile, UndoFails, JobType
  <1>3. FilesTracked /\ FilesWritten /\ EditKept
    BY <1>1 DEF SettingsKept
  <1>4. \A g \in File \ job'.dirty : ~Differ(g, job.before, disk')
    <2>1. CASE WriteFails \/ CutoverFails \/ UndoFails
      <3>1. job'.dirty = job.dirty /\ disk' = disk
        BY <1>1, <2>1 DEF WriteFails, CutoverFails, UndoFails, JobType
      <3>2. QED
        BY <1>3, <3>1 DEF FilesTracked
    <2>2. CASE UndoFile
      <3> DEFINE f == Head(job.undo)
      <3>1. /\ f \in File /\ disk' = Put(f, job.before, disk) /\ job'.dirty = job.dirty \ {f}
        BY <1>1, <2>2, JobHeld DEF UndoFile, PutBack, JobType
      <3>2. \A g \in File : \A x \in Fields(g) :
              disk'[x] = IF g = f THEN job.before[x] ELSE disk[x]
        BY <3>1, FileFields DEF Put
      <3>3. QED
        BY <1>3, <3>1, <3>2 DEF FilesTracked, Differ
    <2>3. QED
      BY <2>1, <2>2
  <1>5. FilesTracked'
    <2>1. Settled(loose, job.before)'
      BY <1>1, <1>2, <1>3 DEF FilesTracked, Settled
    <2>2. QED
      BY <1>1, <1>2, <1>3, <1>4, <2>1 DEF FilesTracked, Differ
  <1>6. FilesWritten' /\ EditKept'
    BY <1>2, <1>3 DEF FilesWritten, EditKept, ToWrite
  <1>7. QED
    BY <1>1, <1>5, <1>6, JobStays DEF SettingsKept, AckedInMemory, Up

(* With nothing left to write, the files hold what the edit wants, those    *)
(* that it did not touch included, unless they were altered before it.      *)
LEMMA WrittenFiles ==
  ASSUME TypeOK, SettingsKept, Written
  PROVE  /\ ~Free /\ job \in JobType /\ job.want \in Config /\ disk \in Config /\ acked \in Config
         /\ FilesTracked /\ EditKept
         /\ \A f \in File : Fields(f) \cap job.touched # {} => f \in job.dirty
         /\ \A x \in Field \ job.touched : \A f \in File : x \in Fields(f) /\ f \notin loose =>
              job.want[x] = acked[x] /\ job.before[x] = acked[x]
  <1>1. ~Free /\ job \in JobType /\ job.todo = <<>> /\ job.pc \in {"write", "swap"}
    BY JobHeld DEF Written
  <1>2. FilesTracked /\ FilesWritten /\ EditKept
    BY <1>1 DEF SettingsKept
  <1>3. \A f \in File : ~ToWrite(f)
    BY <1>1 DEF ToWrite
  <1>4. \A f \in File : Fields(f) \cap job.touched # {} => f \in job.dirty
    BY <1>1, <1>2, <1>3 DEF FilesWritten
  <1>5. \A x \in Field \ job.touched : \A f \in File : x \in Fields(f) /\ f \notin loose =>
          job.want[x] = acked[x] /\ job.before[x] = acked[x]
    BY <1>2 DEF FilesTracked, Settled
  <1>6. QED
    BY <1>1, <1>2, <1>4, <1>5, JobHeld DEF TypeOK

(* The settings before Answered drops the dedup settings without a source.  *)
Merged == [x \in Field |->
  IF x \in job.touched THEN job.want[x]
  ELSE IF x \in LooseField /\ job.how \in {"reload", "staged"} THEN Loaded[x]
  ELSE acked[x]]

LEMMA MergedConfig ==
  ASSUME TypeOK, ~Free
  PROVE  Merged \in Config /\ Answered = Effective(Merged) /\ Loaded \in Config
  <1>1. \A x \in Field : /\ job.want[x] \in Values[x] /\ Loaded[x] \in Values[x]
                         /\ acked[x] \in Values[x]
    BY JobHeld, LoadedConfig, ConfigFields DEF TypeOK
  <1>2. \A x \in Field : Merged[x] \in Values[x]
    BY <1>1 DEF Merged
  <1>3. Merged = [x \in Field |-> Merged[x]]
    BY DEF Merged
  <1>4. Merged \in Config
    BY <1>2, <1>3, ConfigOf
  <1>5. QED
    BY <1>4, LoadedConfig DEF Answered, Merged

LEMMA DirectAnswer ==
  ASSUME TypeOK, JobValid, SettingsKept, Written, job.how \in {"direct", "code"}
  PROVE  /\ Answered = Loaded
         /\ \A f \in File \ StillLoose : \A x \in Fields(f) : disk[x] = Answered[x]
  <1>1. Loaded = job.want
    BY DEF Loaded, JobValid, Written
  <1>2. job.pc = "write" /\ job.want.tuned \subseteq job.want.sources
    BY WrittenFiles DEF Written, EditKept
  <1>3. \A x \in Field : Merged[x] = job.want[x]
    BY WrittenFiles DEF Merged, FilesTracked
  <1>4. Merged = job.want
    BY <1>3, WrittenFiles, MergedConfig, SameConfig
  <1>5. Answered = job.want
    BY <1>2, <1>4, WrittenFiles, MergedConfig, EffectiveTuned
  <1>6. ASSUME NEW f \in File \ StillLoose, NEW x \in Fields(f)
        PROVE  disk[x] = job.want[x]
    <2>1. f \notin loose \/ Fields(f) \cap job.touched # {}
      BY <1>6 DEF StillLoose
    <2>2. x \in Field
      BY FileFields
    <2>3. CASE f \in job.dirty
      BY <1>2, <2>3, WrittenFiles DEF FilesTracked, Differ
    <2>4. CASE f \notin job.dirty
      <3>1. x \notin job.touched /\ f \notin loose
        BY <2>1, <2>4, WrittenFiles
      <3>2. disk[x] = job.before[x]
        BY <2>4, WrittenFiles DEF FilesTracked, Differ
      <3>3. QED
        BY <2>2, <3>1, <3>2, WrittenFiles
    <2>5. QED
      BY <2>3, <2>4
  <1>7. QED
    BY <1>1, <1>5, <1>6

LEMMA StagedAnswer ==
  ASSUME TypeOK, JobValid, SettingsKept, Written, job.how = "staged"
  PROVE  /\ Answered = Loaded
         /\ \A f \in File \ StillLoose : \A x \in Fields(f) : disk[x] = Answered[x]
  <1>1. Loaded = Effective(job.want) /\ job.pc = "write"
    BY DEF Loaded, Written
  <1>2. \A x \in Field \ {"tuned"} : Loaded[x] = job.want[x]
    BY <1>1, WrittenFiles, EffectiveConfig
  <1>3. /\ Loaded["tuned"] = job.want.tuned \cap job.want.sources
        /\ "tuned" \in Field /\ "sources" \in Field \ {"tuned"}
    BY <1>1, WrittenFiles, EffectiveTuned
  <1>4. \A x \in Field \ job.touched : x \notin LooseField => job.want[x] = acked[x]
    BY WrittenFiles, FileFields DEF LooseField, TypeOK
  <1>5. \A x \in Field \ {"tuned"} : Merged[x] = job.want[x]
    BY <1>2, <1>4 DEF Merged
  <1>6. Merged["tuned"] \in {job.want["tuned"], Loaded["tuned"]}
    BY <1>3, <1>4 DEF Merged
  <1>7. Answered = Loaded
    <2>1. Effective(Merged)["tuned"] = Merged["tuned"] \cap Merged["sources"]
      BY MergedConfig, WrittenFiles, EffectiveTuned
    <2>2. Effective(Merged)["tuned"] = Loaded["tuned"]
      BY <1>3, <1>5, <1>6, <2>1
    <2>3. \A x \in Field \ {"tuned"} : Effective(Merged)[x] = Loaded[x]
      BY <1>2, <1>5, MergedConfig, WrittenFiles, EffectiveConfig
    <2>4. QED
      BY <2>2, <2>3, MergedConfig, WrittenFiles, EffectiveConfig, SameConfig
  <1>8. \A f \in File : \A x \in Fields(f) : disk[x] = job.want[x]
    <2>1. SUFFICES ASSUME NEW f \in File, NEW x \in Fields(f)
                   PROVE  disk[x] = job.want[x]
      OBVIOUS
    <2>2. CASE f \in job.dirty
      BY <1>1, <2>2, WrittenFiles DEF FilesTracked, Differ
    <2>3. CASE f \notin job.dirty
      <3>1. x \in Field \ job.touched
        BY <2>3, WrittenFiles, FileFields
      <3>2. job.want[x] = job.before[x]
        BY <3>1, WrittenFiles DEF FilesTracked
      <3>3. QED
        BY <2>3, <3>2, WrittenFiles DEF FilesTracked, Differ
    <2>4. QED
      BY <2>2, <2>3
  <1>9. ASSUME NEW f \in File \ StillLoose, NEW x \in Fields(f)
        PROVE  disk[x] = Loaded[x]
    <2>1. CASE x = "tuned"
      <3>1. f = "dedup"
        BY <1>9, <2>1, FileFields, FieldList DEF File
      <3>2. ~Differ("dedup", disk, Loaded)
        BY <1>9, <3>1 DEF StillLoose
      <3>3. QED
        BY <3>1, <3>2 DEF Differ
    <2>2. CASE x # "tuned"
      BY <1>2, <1>8, <2>2, FileFields
    <2>3. QED
      BY <2>1, <2>2
  <1>10. QED
    BY <1>7, <1>9

LEMMA ReloadAnswer ==
  ASSUME TypeOK, JobValid, SettingsKept, Written, job.how = "reload"
  PROVE  Answered = Loaded /\ disk = Loaded
  <1>1. job.pc = "swap"
    BY DEF Written
  <1>2. /\ Loaded = disk /\ disk.tuned = job.before.tuned \cap disk.sources
        /\ "tuned" \notin job.touched
        /\ \A f \in job.dirty \ {"dedup"} : ~Differ(f, job.want, disk)
    BY <1>1, WrittenFiles DEF Loaded, EditKept
  <1>3. "dedup" \in File /\ Fields("dedup") = {"tuned"}
    BY FieldList DEF File
  <1>4. "tuned" \in Field /\ "sources" \in Field \ {"tuned"}
    BY FieldList
  <1>5. ASSUME NEW x \in Field \ {"tuned"}
        PROVE  Merged[x] = disk[x]
    <2>1. PICK f \in File : x \in Fields(f) /\ f # "dedup"
      BY <1>3, <1>5, FileFields
    <2>2. CASE x \in job.touched
      <3>1. f \in job.dirty
        BY <2>1, <2>2, WrittenFiles
      <3>2. disk[x] = job.want[x]
        BY <1>2, <2>1, <3>1 DEF Differ
      <3>3. QED
        BY <2>2, <3>2 DEF Merged
    <2>3. CASE x \notin job.touched /\ x \in LooseField
      BY <1>2, <2>3 DEF Merged
    <2>4. CASE x \notin job.touched /\ x \notin LooseField
      <3>1. f \notin loose
        BY <2>1, <2>4 DEF LooseField
      <3>2. job.want[x] = acked[x] /\ job.before[x] = acked[x]
        BY <2>1, <2>4, <3>1, WrittenFiles
      <3>3. disk[x] = acked[x]
        BY <1>2, <2>1, <3>2, WrittenFiles DEF FilesTracked, Differ
      <3>4. QED
        BY <2>4, <3>3 DEF Merged
    <2>5. QED
      BY <2>2, <2>3, <2>4
  <1>6. Merged["tuned"] \cap disk.sources = disk.tuned
    <2>1. CASE "tuned" \in LooseField
      BY <1>2, <1>4, <2>1 DEF Merged
    <2>2. CASE "tuned" \notin LooseField
      <3>1. "dedup" \notin loose
        BY <1>3, <2>2 DEF LooseField
      <3>2. job.before["tuned"] = acked["tuned"]
        BY <1>2, <1>3, <1>4, <3>1, WrittenFiles
      <3>3. Merged["tuned"] = acked["tuned"]
        BY <1>2, <1>4, <2>2 DEF Merged
      <3>4. QED
        BY <1>2, <3>2, <3>3
    <2>3. QED
      BY <2>1, <2>2
  <1>7. Effective(Merged)["tuned"] = disk["tuned"]
    BY <1>4, <1>5, <1>6, MergedConfig, WrittenFiles, EffectiveTuned
  <1>8. \A x \in Field \ {"tuned"} : Effective(Merged)[x] = disk[x]
    BY <1>5, MergedConfig, WrittenFiles, EffectiveConfig
  <1>9. Answered = disk
    BY <1>7, <1>8, MergedConfig, WrittenFiles, EffectiveConfig, SameConfig
  <1>10. QED
    BY <1>2, <1>9

LEMMA AppliedSettings ==
  ASSUME TypeOK, JobValid, OneProcess, SettingsKept, Apply
  PROVE  SettingsKept'
  <1>1. /\ Written /\ ~Free /\ job \in JobType /\ job.inst \in Instance
        /\ mem' = [mem EXCEPT ![job.inst] = Loaded] /\ acked' = Answered /\ loose' = StillLoose
        /\ job' = None /\ disk' = disk
    BY JobHeld DEF Apply, Written
  <1>2. \A i \in Instance : mem'[i] = Loaded
    BY <1>1 DEF OneProcess, TypeOK
  <1>3. /\ Answered = Loaded
        /\ \A f \in File \ StillLoose : \A x \in Fields(f) : disk[x] = Answered[x]
    <2>1. CASE job.how \in {"direct", "code"}
      BY <1>1, <2>1, DirectAnswer
    <2>2. CASE job.how = "staged"
      BY <1>1, <2>2, StagedAnswer
    <2>3. CASE job.how = "reload"
      BY <1>1, <2>3, ReloadAnswer
    <2>4. QED
      BY <1>1, <2>1, <2>2, <2>3 DEF JobType
  <1>4. Answered.tuned \subseteq Answered.sources
    <2>1. Answered["tuned"] = Merged.tuned \cap Merged.sources /\ Answered["sources"] = Merged.sources
      BY <1>1, MergedConfig, EffectiveTuned
    <2>2. QED
      BY <2>1
  <1>5. QED
    BY <1>1, <1>2, <1>3, <1>4 DEF SettingsKept, AckedInMemory, Free, Settled

(* An edit that is refused, or interrupted, leaves the files it altered     *)
(* loose, and the others as they were.                                      *)
LEMMA EndedSettings ==
  ASSUME TypeOK, SettingsKept, Refuse \/ \E i \in Instance : Crash(i)
  PROVE  SettingsKept'
  <1>1. /\ disk' = disk /\ acked' = acked
        /\ \/ job' = None /\ ~Free /\ loose' = loose \cup job.dirty
           \/ job' = job /\ loose' = loose
    BY DEF Refuse, Crash
  <1>2. \A j \in Instance : mem'[j] = None \/ mem'[j] = mem[j]
    BY DEF Refuse, Crash, TypeOK
  <1>3. AckedInMemory'
    BY <1>1, <1>2 DEF AckedInMemory, Up, SettingsKept
  <1>4. CASE job' = None /\ ~Free /\ loose' = loose \cup job.dirty
    <2>1. FilesTracked
      BY <1>4 DEF SettingsKept
    <2>2. Settled(loose, disk)'
      BY <1>1, <1>4, <2>1 DEF FilesTracked, Settled, Differ
    <2>3. QED
      BY <1>1, <1>3, <1>4, <2>2 DEF SettingsKept, Free
  <1>5. CASE job' = job /\ loose' = loose
    <2>1. Free' => Settled(loose, disk)'
      BY <1>1, <1>5 DEF SettingsKept, Free, Settled
    <2>2. ~Free' => FilesTracked' /\ FilesWritten' /\ EditKept'
      BY <1>1, <1>5 DEF SettingsKept, Free, FilesTracked, FilesWritten, EditKept,
                        Settled, Differ, ToWrite
    <2>3. QED
      BY <1>1, <1>3, <2>1, <2>2 DEF SettingsKept
  <1>6. QED
    BY <1>1, <1>4, <1>5

LEMMA IdleSettings ==
  ASSUME SettingsKept, UNCHANGED vars \/ \E i \in Instance : ReceiveSourceEdit(i)
  PROVE  SettingsKept'
  <1>1. UNCHANGED <<disk, mem, job, acked, loose>>
    BY DEF ReceiveSourceEdit, vars
  <1>2. AckedInMemory' /\ (Free' => Settled(loose, disk)')
    BY <1>1 DEF SettingsKept, AckedInMemory, Up, Free, Settled
  <1>3. ~Free' => FilesTracked' /\ FilesWritten' /\ EditKept'
    BY <1>1 DEF SettingsKept, Free, FilesTracked, FilesWritten, EditKept, Settled, Differ, ToWrite
  <1>4. QED
    BY <1>1, <1>2, <1>3 DEF SettingsKept

(* A start brings what is on disk into force: what was answered, and what   *)
(* the loose files hold.                                                    *)
LEMMA StartedSettings ==
  ASSUME TypeOK, JobValid, OneProcess, SettingsKept, NEW i \in Instance, Start(i)
  PROVE  SettingsKept'
  <1> DEFINE B == [x \in Field |-> IF x \in LooseField THEN disk'[x] ELSE acked[x]]
  <1>1. /\ ~Up(i) /\ disk' = Effective(disk) /\ mem' = [mem EXCEPT ![i] = disk']
        /\ acked' = Effective(B) /\ loose' = {} /\ job' = job
    BY DEF Start
  <1>2. Free
    BY <1>1, JobHeld DEF JobValid, OneProcess
  <1>3. disk \in Config /\ acked \in Config /\ disk' \in Config
    BY <1>1, EffectiveConfig DEF TypeOK
  <1>4. B \in Config
    <2>1. \A x \in Field : B[x] \in Values[x]
      BY <1>3, ConfigFields
    <2>2. B = [x \in Field |-> B[x]]
      OBVIOUS
    <2>3. QED
      BY <2>1, <2>2, ConfigOf
  <1>5. \A x \in Field \ LooseField : disk[x] = acked[x]
    BY <1>2, SettledOnDisk DEF SettingsKept
  <1>6. /\ disk'["tuned"] = disk.tuned \cap disk.sources /\ disk'["sources"] = disk.sources
        /\ "tuned" \in Field /\ "sources" \in Field
    BY <1>1, <1>3, EffectiveTuned
  <1>7. \A x \in Field \ {"tuned"} : disk'[x] = disk[x]
    BY <1>1, <1>3, EffectiveConfig
  <1>8. \A x \in Field \ {"tuned"} : B[x] = disk'[x]
    BY <1>5, <1>7
  <1>9. B["tuned"] \in {disk["tuned"], disk'["tuned"]} /\ B["sources"] = disk.sources
    <2>1. B["tuned"] = IF "tuned" \in LooseField THEN disk'["tuned"] ELSE acked["tuned"]
      BY <1>6
    <2>2. "sources" # "tuned"
      OBVIOUS
    <2>3. QED
      BY <1>5, <1>6, <1>8, <2>1, <2>2
  <1> HIDE DEF B
  <1>10. acked' = disk'
    <2>1. Effective(B)["tuned"] = disk'["tuned"]
      <3>1. Effective(B)["tuned"] = B["tuned"] \cap B["sources"]
        BY <1>4, EffectiveTuned
      <3>2. QED
        BY <1>6, <1>9, <3>1
    <2>2. \A x \in Field \ {"tuned"} : Effective(B)[x] = disk'[x]
      BY <1>4, <1>8, EffectiveConfig
    <2>3. QED
      BY <1>1, <1>3, <1>4, <2>1, <2>2, EffectiveConfig, SameConfig
  <1>11. \A j \in Instance : mem'[j] = disk'
    BY <1>1 DEF TypeOK, OneProcess
  <1>12. acked'.tuned \subseteq acked'.sources
    BY <1>6, <1>10
  <1>13. QED
    BY <1>1, <1>2, <1>10, <1>11, <1>12 DEF SettingsKept, AckedInMemory, Free, Settled

LEMMA SettingsStep ==
  ASSUME TypeOK, JobValid, OneProcess, SettingsKept, [Next]_vars
  PROVE  SettingsKept'
  <1>1. ASSUME NEW i \in Instance, Edit(i)
        PROVE  SettingsKept'
    BY <1>1, EditAsked, AskedSettings
  <1>2. ASSUME NEW i \in Instance, Start(i)
        PROVE  SettingsKept'
    BY <1>2, StartedSettings
  <1>3. CASE Step
    BY <1>3, WroteSettings, LoadedSettings, UndoneSettings, AppliedSettings, EndedSettings DEF Step
  <1>4. CASE \E i \in Instance : Crash(i)
    BY <1>4, EndedSettings
  <1>5. CASE UNCHANGED vars \/ \E i \in Instance : ReceiveSourceEdit(i)
    BY <1>5, IdleSettings
  <1>6. QED
    BY <1>1, <1>2, <1>3, <1>4, <1>5 DEF Next

LEMMA SettingsInit == Init => SettingsKept
  <1>1. SUFFICES ASSUME Init
                 PROVE  SettingsKept
    OBVIOUS
  <1>2. Initial \in Config /\ Effective(Initial) = Initial
    BY SettingsAssumption
  <1>3. Initial["tuned"] = Initial.tuned \cap Initial.sources
    BY <1>2, EffectiveTuned
  <1>4. disk = Initial /\ acked = Initial /\ Free /\ \A i \in Instance : mem[i] = Initial
    BY <1>1 DEF Init, Free
  <1>5. QED
    BY <1>3, <1>4 DEF SettingsKept, AckedInMemory, Settled

LEMMA IInvStep == IInv /\ [Next]_vars => IInv'
  <1> SUFFICES ASSUME IInv, [Next]_vars
               PROVE  IInv'
    OBVIOUS
  <1>1. TypeOK' /\ JobValid' /\ MemoryValid'
    BY TypeStep, ValidStep DEF IInv
  <1>2. OneProcess' <=> OneProcess
    BY DEF OneProcess
  <1>3. ASSUME OneProcess
        PROVE  (CountersKept /\ CodeOnce /\ SettingsKept)'
    <2>1. \A o \in Counters : Kept(o)
      BY <1>3, KeptIsCountersKept DEF IInv
    <2>2. \A o \in Counters : Kept(o)'
      BY <1>3, <2>1, KeptStep DEF IInv
    <2>3. SettingsKept'
      BY <1>3, SettingsStep DEF IInv
    <2>4. (CountersKept /\ CodeOnce)'
      BY <2>2 DEF Kept, CountersKept, CodeOnce, Once, Counters
    <2>5. QED
      BY <2>3, <2>4
  <1>4. QED
    BY <1>1, <1>2, <1>3 DEF IInv

(* The inductive invariant, the TOTP counters included.                    *)
THEOREM Invariant == Spec => []IInv
  <1>1. Init => IInv
    BY TypeInit, ValidInit, KeptInit, KeptIsCountersKept, SettingsInit DEF IInv
  <1>2. QED
    BY <1>1, IInvStep, PTL DEF Spec

(* Where one process runs on the directory no TOTP code is accepted twice   *)
(* for an enrolment, whichever edits, restores, failures and crashes come   *)
(* between the two (consume_basic_totp, consume_totp_factor).               *)
THEOREM CodesOnce == Spec => [](OneProcess => CodeOnce)
  <1>1. IInv => (OneProcess => CodeOnce)
    BY DEF IInv
  <1>2. QED
    BY <1>1, Invariant, PTL

(* Where one process runs on the directory, the files that no refused or    *)
(* interrupted edit has altered hold what was answered with ok, whatever    *)
(* was written, loaded, rolled back or lost in a crash since                *)
(* (persist_reload, try_replace_config_with_commit, atomic_write).          *)
THEOREM AnsweredOnDisk == Spec => [](OneProcess => AckedOnDisk)
  <1>1. IInv => (OneProcess => AckedOnDisk)
    BY SettledOnDisk DEF IInv, SettingsKept, AckedOnDisk
  <1>2. QED
    BY <1>1, Invariant, PTL

(* The only process has the settings in memory that were answered with ok,  *)
(* and no others: an edit comes into force with its answer, one that is     *)
(* refused never does but by a load.                                        *)
THEOREM AnsweredInMemory == Spec => [](OneProcess => AckedInMemory)
  <1>1. IInv => (OneProcess => AckedInMemory)
    BY DEF IInv, SettingsKept
  <1>2. QED
    BY <1>1, Invariant, PTL

(* Whatever was saved, restored, refused or interrupted, the settings in    *)
(* force let no alert down that they accept (validate_runtime_config, and   *)
(* the handlers that do not call it: they leave its fields alone).          *)
THEOREM EmergencyAlwaysCovered == Spec => []EmergencyCovered
  <1>1. IInv => EmergencyCovered
    BY ValidatedCovers DEF IInv, MemoryValid, EmergencyCovered
  <1>2. QED
    BY <1>1, Invariant, PTL
=============================================================================
