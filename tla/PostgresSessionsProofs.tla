----------------------- MODULE PostgresSessionsProofs -----------------------
(* The transactions of any number of instances implement the calls of      *)
(* SessionTable, for any logins, users, logout tokens and limits, and what *)
(* those calls promise together holds.                                     *)
EXTENDS PostgresSessions, FiniteSetTheorems, TLAPS

LEMMA TokenFinite == IsFiniteSet(Token)
  <1>1. IsFiniteSet(0..MaxGen)
    BY FamilyAssumption, FS_Interval
  <1>2. QED
    BY <1>1, FamilyAssumption, FS_Product DEF Token

(* The rows of a call are those before it, some of them revoked.           *)
LEMMA EndedRows ==
  ASSUME TableOK, NEW X, rows' = Ended(rows, X)
  PROVE  /\ DOMAIN rows' = DOMAIN rows
         /\ rows' \in [DOMAIN rows' -> {"live", "revoked"}]
         /\ Live(rows') = Live(rows) \ X
  <1>1. rows' = [y \in DOMAIN rows |-> IF y \in X THEN "revoked" ELSE rows[y]]
    BY DEF Ended
  <1>2. DOMAIN rows' = DOMAIN rows
    BY <1>1
  <1>3. \A y \in DOMAIN rows : rows'[y] = IF y \in X THEN "revoked" ELSE rows[y]
    BY <1>1
  <1>4. \A y \in DOMAIN rows : rows[y] \in {"live", "revoked"}
    BY DEF TableOK
  <1>5. rows' \in [DOMAIN rows' -> {"live", "revoked"}]
    BY <1>1, <1>2, <1>4
  <1>6. Live(rows') = Live(rows) \ X
    BY <1>2, <1>3 DEF Live
  <1>7. QED
    BY <1>2, <1>5, <1>6

(* A new session adds itself, and leaves its user no more live sessions    *)
(* than the limit.                                                         *)
LEMMA InsertedRows ==
  ASSUME NEW all, DOMAIN all \subseteq Token, all \in [DOMAIN all -> {"live", "revoked"}],
         NEW x \in Token, x \notin DOMAIN all, Insert(all, x)
  PROVE  /\ DOMAIN rows' = DOMAIN all \cup {x}
         /\ rows' \in [DOMAIN rows' -> {"live", "revoked"}]
         /\ Live(rows') \subseteq Live(all) \cup {x}
         /\ x \in Live(rows')
         /\ Cardinality(LiveOf(rows', UserOf(x))) <= MaxConcurrent
  <1> DEFINE U == LiveOf(all, UserOf(x))
  <1>1. PICK kept \in SUBSET U :
          /\ Cardinality(kept) < MaxConcurrent
          /\ rows' = [y \in DOMAIN all \cup {x} |->
                        IF y = x THEN "live"
                        ELSE IF y \in U \ kept THEN "revoked" ELSE all[y]]
    BY DEF Insert
  <1>2. DOMAIN rows' = DOMAIN all \cup {x}
    BY <1>1
  <1>3. \A y \in DOMAIN all \cup {x} :
          rows'[y] = IF y = x THEN "live" ELSE IF y \in U \ kept THEN "revoked" ELSE all[y]
    BY <1>1
  <1>4. \A y \in DOMAIN all : all[y] \in {"live", "revoked"}
    OBVIOUS
  <1>5. rows' \in [DOMAIN rows' -> {"live", "revoked"}]
    BY <1>1, <1>2, <1>4
  <1>6. Live(rows') = (Live(all) \ (U \ kept)) \cup {x}
    BY <1>2, <1>3 DEF Live
  <1>7. LiveOf(rows', UserOf(x)) = kept \cup {x}
    BY <1>6 DEF LiveOf
  <1>8. U \subseteq Token
    BY DEF LiveOf, Live
  <1>9. IsFiniteSet(kept)
    BY <1>8, TokenFinite, FS_Subset
  <1>10. x \notin kept
    BY DEF LiveOf, Live
  <1>11. Cardinality(LiveOf(rows', UserOf(x))) <= MaxConcurrent
    <2>1. Cardinality(kept) \in Nat
      BY <1>9, FS_CardinalityType
    <2>2. Cardinality(kept \cup {x}) = Cardinality(kept) + 1
      BY <1>9, <1>10, FS_AddElement
    <2>3. QED
      BY <1>1, <1>7, <2>1, <2>2, CapAssumption
  <1>12. QED
    BY <1>2, <1>5, <1>6, <1>11

LEMMA FewerLive ==
  ASSUME NEW all, NEW less, NEW u, DOMAIN all \subseteq Token,
         LiveOf(less, u) \subseteq LiveOf(all, u),
         Cardinality(LiveOf(all, u)) <= MaxConcurrent
  PROVE  Cardinality(LiveOf(less, u)) <= MaxConcurrent
  <1>1. LiveOf(all, u) \subseteq Token /\ LiveOf(less, u) \subseteq LiveOf(all, u)
    BY DEF LiveOf, Live
  <1>2. IsFiniteSet(LiveOf(all, u))
    BY <1>1, TokenFinite, FS_Subset
  <1>3. Cardinality(LiveOf(less, u)) <= Cardinality(LiveOf(all, u))
    BY <1>1, <1>2, FS_Subset
  <1>4. IsFiniteSet(LiveOf(less, u))
    BY <1>1, <1>2, FS_Subset
  <1>5. QED
    BY <1>2, <1>3, <1>4, FS_CardinalityType, CapAssumption

-----------------------------------------------------------------------------
(* The two calls that insert a row.                                        *)

LEMMA LoginInserts ==
  ASSUME TableOK, NEW f \in Family, Login(f)
  PROVE  <<f, 0>> \in Token /\ <<f, 0>> \notin DOMAIN rows /\ Insert(rows, <<f, 0>>)
  BY FamilyAssumption DEF Login, Token

LEMMA RotateInserts ==
  ASSUME TableOK, NEW x \in Token, Rotate(x)
  PROVE  LET all == Ended(rows, {x})
         IN  /\ DOMAIN all = DOMAIN rows
             /\ all \in [DOMAIN all -> {"live", "revoked"}]
             /\ Live(all) = Live(rows) \ {x}
             /\ Succ(x) \in Token /\ Succ(x) \notin DOMAIN rows
             /\ Insert(all, Succ(x))
  <1>1. \A y \in DOMAIN rows : rows[y] \in {"live", "revoked"}
    BY DEF TableOK
  <1>2. Ended(rows, {x}) = [y \in DOMAIN rows |-> IF y \in {x} THEN "revoked" ELSE rows[y]]
    BY DEF Ended
  <1>3. Live(Ended(rows, {x})) = Live(rows) \ {x}
    BY <1>2 DEF Live
  <1>4. QED
    BY <1>1, <1>2, <1>3 DEF Rotate

-----------------------------------------------------------------------------
(* The call that brings rows.                                              *)

LEMMA ImportedRows ==
  ASSUME TableOK, NEW s \in Snapshot, Import(s), NEW new, new = Contents[s].sessions
  PROVE  /\ DOMAIN new \subseteq Token /\ DOMAIN rows' = DOMAIN rows \cup DOMAIN new
         /\ rows' \in [DOMAIN rows' -> {"live", "revoked"}]
         /\ \A y \in DOMAIN rows' :
              rows'[y] = IF y \in DOMAIN new THEN Merged(rows, new, y) ELSE rows[y]
  <1>1. DOMAIN new \subseteq Token /\ \A y \in DOMAIN new : new[y] \in {"live", "revoked"}
    BY ContentsAssumption
  <1>2. PICK w : w = [x \in DOMAIN new |-> Merged(rows, new, x)]
    OBVIOUS
  <1>3. rows' = [x \in DOMAIN rows \cup DOMAIN w |-> IF x \in DOMAIN w THEN w[x] ELSE rows[x]]
    BY <1>2 DEF Import, Update
  <1>4. /\ DOMAIN rows' = DOMAIN rows \cup DOMAIN new
        /\ \A y \in DOMAIN rows' :
             rows'[y] = IF y \in DOMAIN new THEN Merged(rows, new, y) ELSE rows[y]
    BY <1>2, <1>3
  <1>5. \A y \in DOMAIN rows : rows[y] \in {"live", "revoked"}
    BY DEF TableOK
  <1>6. \A y \in DOMAIN rows' : rows'[y] \in {"live", "revoked"}
    BY <1>1, <1>4, <1>5 DEF Merged
  <1>7. rows' \in [DOMAIN rows' -> {"live", "revoked"}]
    BY <1>3, <1>6
  <1>8. QED
    BY <1>1, <1>4, <1>7

LEMMA ImportedCounts ==
  ASSUME TableOK, NEW s \in Snapshot, Import(s)
  PROVE  /\ failures' \in [Key -> Nat] /\ tally' \in [Key -> Nat]
         /\ failures = tally => failures' = tally'
  <1>1. failures' \in [Key -> Nat] /\ MergedCounts(s, failures')
    BY DEF Import
  <1>2. tally' = [k \in Key |-> IF k \in DOMAIN Contents[s].counts THEN failures'[k] ELSE tally[k]]
    BY DEF Import
  <1>3. tally' \in [Key -> Nat]
    BY <1>1, <1>2 DEF TableOK
  <1>4. ASSUME failures = tally, NEW k \in Key
        PROVE  failures'[k] = tally'[k]
    BY <1>1, <1>2, <1>4 DEF MergedCounts
  <1>5. QED
    BY <1>1, <1>3, <1>4

-----------------------------------------------------------------------------
(* TableOK, Capped and Counted.                                            *)

Promise == TableOK /\ Capped /\ Counted

LEMMA TypeStep ==
  ASSUME TableOK, [TableNext]_table
  PROVE  TableOK'
  <1>1. ASSUME NEW f \in Family, Login(f)
        PROVE  TableOK'
    <2>1. DOMAIN rows' = DOMAIN rows \cup {<<f, 0>>} /\ rows' \in [DOMAIN rows' -> {"live", "revoked"}]
      BY <1>1, LoginInserts, InsertedRows DEF TableOK
    <2>2. QED
      BY <1>1, <2>1, LoginInserts DEF TableOK, Login
  <1>2. ASSUME NEW f \in Family, Logout(f)
        PROVE  TableOK'
    BY <1>2, EndedRows DEF TableOK, Logout
  <1>3. ASSUME NEW x \in Token, Rotate(x)
        PROVE  TableOK'
    <2>1. DOMAIN Ended(rows, {x}) \subseteq Token
      BY <1>3, RotateInserts DEF TableOK
    <2>2. DOMAIN rows' = DOMAIN rows \cup {Succ(x)} /\ rows' \in [DOMAIN rows' -> {"live", "revoked"}]
      BY <1>3, <2>1, RotateInserts, InsertedRows
    <2>3. QED
      BY <1>3, <2>2, RotateInserts DEF TableOK, Rotate
  <1>4. ASSUME NEW x \in Token, Lapse(x)
        PROVE  TableOK'
    BY <1>4, EndedRows DEF TableOK, Lapse
  <1>5. ASSUME NEW k \in LogoutToken, Consume(k)
        PROVE  TableOK'
    BY <1>5, EndedRows DEF TableOK, Consume
  <1>6. ASSUME NEW k \in Key, RecordFailure(k) \/ ClearFailures(k)
        PROVE  TableOK'
    BY <1>6 DEF TableOK, RecordFailure, ClearFailures
  <1>7. ASSUME NEW s \in Snapshot, Import(s)
        PROVE  TableOK'
    <2>1. PICK new : new = Contents[s].sessions
      OBVIOUS
    <2>2. DOMAIN rows' \subseteq Token /\ rows' \in [DOMAIN rows' -> {"live", "revoked"}]
      BY <1>7, <2>1, ImportedRows DEF TableOK
    <2>3. spent' \subseteq LogoutToken
      BY <1>7, ContentsAssumption DEF Import, TableOK
    <2>4. QED
      BY <1>7, <2>2, <2>3, ImportedCounts DEF Import, TableOK
  <1>8. CASE UNCHANGED table
    BY <1>8 DEF TableOK, table
  <1>9. QED
    BY <1>1, <1>2, <1>3, <1>4, <1>5, <1>6, <1>7, <1>8 DEF TableNext

LEMMA CapStep ==
  ASSUME TableOK, Capped, [TableNext]_table
  PROVE  Capped'
  <1>1. SUFFICES ASSUME NEW g \in Family, Holder[g].user \notin brought'
                 PROVE  Cardinality(LiveOf(rows', Holder[g].user)) <= MaxConcurrent
    BY DEF Capped
  <1> DEFINE u == Holder[g].user
  <1>2. /\ u \notin brought => Cardinality(LiveOf(rows, u)) <= MaxConcurrent
        /\ DOMAIN rows \subseteq Token
    BY DEF Capped, TableOK
  <1>3. ASSUME LiveOf(rows', u) \subseteq LiveOf(rows, u), u \notin brought
        PROVE  Cardinality(LiveOf(rows', u)) <= MaxConcurrent
    BY <1>2, <1>3, FewerLive
  <1>4. ASSUME NEW all, NEW x \in Token, DOMAIN all = DOMAIN rows, x \notin DOMAIN rows,
               all \in [DOMAIN all -> {"live", "revoked"}], Live(all) \subseteq Live(rows),
               Insert(all, x)
        PROVE  Cardinality(LiveOf(rows', u)) <= MaxConcurrent
    <2>1. /\ Live(rows') \subseteq Live(all) \cup {x}
          /\ Cardinality(LiveOf(rows', UserOf(x))) <= MaxConcurrent
      BY <1>2, <1>4, InsertedRows
    <2>2. CASE UserOf(x) = u
      BY <2>1, <2>2
    <2>3. CASE UserOf(x) # u
      <3>1. LiveOf(rows', u) \subseteq LiveOf(rows, u)
        BY <1>4, <2>1, <2>3 DEF LiveOf
      <3>2. u \notin brought
        BY <1>1, <1>4, <2>3 DEF Insert
      <3>3. QED
        BY <1>3, <3>1, <3>2
    <2>4. QED
      BY <2>2, <2>3
  <1>5. ASSUME NEW f \in Family, Login(f)
        PROVE  Cardinality(LiveOf(rows', u)) <= MaxConcurrent
    BY <1>4, <1>5, LoginInserts DEF TableOK
  <1>6. ASSUME NEW x \in Token, Rotate(x)
        PROVE  Cardinality(LiveOf(rows', u)) <= MaxConcurrent
    <2>1. PICK all : all = Ended(rows, {x})
      OBVIOUS
    <2>2. /\ Succ(x) \in Token /\ DOMAIN all = DOMAIN rows /\ Succ(x) \notin DOMAIN rows
          /\ all \in [DOMAIN all -> {"live", "revoked"}] /\ Live(all) \subseteq Live(rows)
          /\ Insert(all, Succ(x))
      BY <1>6, <2>1, RotateInserts
    <2>3. QED
      BY <1>4, <2>2
  <1>7. CASE (\E X : rows' = Ended(rows, X)) /\ UNCHANGED brought
    BY <1>1, <1>3, <1>7, EndedRows DEF LiveOf
  <1>8. CASE UNCHANGED <<rows, brought>>
    BY <1>1, <1>3, <1>8
  <1>9. ASSUME NEW s \in Snapshot, Import(s)
        PROVE  Cardinality(LiveOf(rows', u)) <= MaxConcurrent
    <2>1. PICK new : new = Contents[s].sessions
      OBVIOUS
    <2>2. u \notin brought /\ \A x \in DOMAIN new : UserOf(x) # u
      BY <1>1, <1>9, <2>1 DEF Import
    <2>3. /\ DOMAIN rows' = DOMAIN rows \cup DOMAIN new
          /\ \A y \in DOMAIN rows' : y \in DOMAIN new \/ rows'[y] = rows[y]
      BY <1>9, <2>1, ImportedRows
    <2>4. LiveOf(rows', u) \subseteq LiveOf(rows, u)
      BY <2>2, <2>3 DEF LiveOf, Live
    <2>5. QED
      BY <1>3, <2>2, <2>4
  <1>10. QED
    BY <1>5, <1>6, <1>7, <1>8, <1>9
    DEF TableNext, table, Logout, Lapse, Consume, RecordFailure, ClearFailures

LEMMA PromiseStep == Promise /\ [TableNext]_table => Promise'
  <1>1. SUFFICES ASSUME TableOK, Counted, [TableNext]_table
                 PROVE  Counted'
    BY TypeStep, CapStep DEF Promise
  <1>2. ASSUME NEW k \in Key, RecordFailure(k) \/ ClearFailures(k)
        PROVE  Counted'
    BY <1>1, <1>2 DEF Counted, RecordFailure, ClearFailures
  <1>3. ASSUME NEW s \in Snapshot, Import(s)
        PROVE  Counted'
    BY <1>1, <1>3, ImportedCounts DEF Counted
  <1>4. CASE UNCHANGED <<failures, tally>>
    BY <1>1, <1>4 DEF Counted
  <1>5. QED
    BY <1>1, <1>2, <1>3, <1>4 DEF TableNext, table, Login, Logout, Rotate, Lapse, Consume

LEMMA PromiseInit == TableInit => Promise
  BY StoredAssumption DEF TableInit, Promise, TableOK, Capped, Counted

(* The sessions, the logout tokens and the failures keep their types.      *)
THEOREM TableTyped == TableSpec => []TableOK
  <1>1. TableInit => TableOK
    BY PromiseInit DEF Promise
  <1>2. TableOK /\ [TableNext]_table => TableOK'
    BY TypeStep
  <1>3. QED
    BY <1>1, <1>2, PTL DEF TableSpec

(* No user has more live sessions than the policy allows, whatever logins  *)
(* and rotations of all of the user's families come together; only an      *)
(* import puts a user above, and no longer than to the next new session.   *)
THEOREM SessionsCapped == TableSpec => []Capped
  <1>1. Promise => Capped
    BY DEF Promise
  <1>2. QED
    BY <1>1, PromiseInit, PromiseStep, PTL DEF TableSpec

(* Every failure recorded since an account was last cleared counts.        *)
THEOREM FailuresCounted == TableSpec => []Counted
  <1>1. Promise => Counted
    BY DEF Promise
  <1>2. QED
    BY <1>1, PromiseInit, PromiseStep, PTL DEF TableSpec

-----------------------------------------------------------------------------
(* A family that is over stays over.                                       *)

LEMMA OverStep ==
  ASSUME TableOK, [TableNext]_table, NEW f \in Family, Over(f),
         \A s \in Snapshot : ~(Import(s) /\ Brings(s, f))
  PROVE  Over(f)'
  <1>1. (\E x \in DOMAIN rows : x[1] = f) /\ (\A x \in Live(rows) : x[1] # f)
    BY DEF Over
  <1>2. ASSUME DOMAIN rows \subseteq DOMAIN rows', \A x \in Live(rows') : x[1] # f
        PROVE  Over(f)'
    BY <1>1, <1>2 DEF Over
  <1>3. ASSUME NEW g \in Family, Login(g)
        PROVE  Over(f)'
    <2>1. g # f
      BY <1>1, <1>3 DEF Login
    <2>2. /\ DOMAIN rows' = DOMAIN rows \cup {<<g, 0>>}
          /\ Live(rows') \subseteq Live(rows) \cup {<<g, 0>>}
      BY <1>3, LoginInserts, InsertedRows DEF TableOK
    <2>3. QED
      BY <1>1, <1>2, <2>1, <2>2
  <1>4. ASSUME NEW x \in Token, Rotate(x)
        PROVE  Over(f)'
    <2>1. Succ(x)[1] # f
      BY <1>1, <1>4 DEF Rotate, Succ
    <2>2. DOMAIN Ended(rows, {x}) \subseteq Token
      BY <1>4, RotateInserts DEF TableOK
    <2>3. /\ DOMAIN rows' = DOMAIN rows \cup {Succ(x)}
          /\ Live(rows') \subseteq Live(rows) \cup {Succ(x)}
      BY <1>4, <2>2, RotateInserts, InsertedRows
    <2>4. QED
      BY <1>1, <1>2, <2>1, <2>3
  <1>5. CASE \E X : rows' = Ended(rows, X)
    BY <1>1, <1>2, <1>5, EndedRows
  <1>6. CASE UNCHANGED rows
    BY <1>1, <1>2, <1>6
  <1>7. ASSUME NEW s \in Snapshot, Import(s)
        PROVE  Over(f)'
    <2>1. PICK new : new = Contents[s].sessions
      OBVIOUS
    <2>2. /\ DOMAIN rows' = DOMAIN rows \cup DOMAIN new
          /\ \A y \in DOMAIN rows' :
               rows'[y] = IF y \in DOMAIN new THEN Merged(rows, new, y) ELSE rows[y]
      BY <1>7, <2>1, ImportedRows
    <2>3. \A y \in DOMAIN rows : rows[y] \in {"live", "revoked"}
      BY DEF TableOK
    <2>4. ASSUME NEW x \in Live(rows'), x[1] = f
          PROVE  FALSE
      <3>1. x \in DOMAIN rows' /\ rows'[x] = "live"
        BY <2>4 DEF Live
      <3>2. CASE x \in DOMAIN rows
        <4>1. rows[x] = "revoked"
          BY <1>1, <2>3, <2>4, <3>2 DEF Live
        <4>2. rows'[x] = "revoked"
          BY <2>2, <3>1, <3>2, <4>1 DEF Merged
        <4>3. QED
          BY <3>1, <4>2
      <3>3. CASE x \notin DOMAIN rows
        <4>1. x \in DOMAIN new /\ new[x] = "live"
          BY <2>2, <3>1, <3>3 DEF Merged
        <4>2. Brings(s, f)
          BY <2>1, <2>4, <3>3, <4>1 DEF Brings
        <4>3. QED
          BY <1>7, <4>2
      <3>4. QED
        BY <3>2, <3>3
    <2>5. QED
      BY <1>2, <2>2, <2>4
  <1>8. QED
    BY <1>3, <1>4, <1>5, <1>6, <1>7
    DEF TableNext, table, Logout, Lapse, Consume, RecordFailure, ClearFailures

(* A login whose sessions are all revoked never has a session again, but   *)
(* for one that an import brings and this store never saw: a rotation that *)
(* comes after a logout is refused.                                        *)
THEOREM OverStaysOver == TableSpec => OverForGood
  <1>1. TableOK /\ [TableNext]_table =>
          [\A f \in Family :
             Over(f) => Over(f)' \/ \E s \in Snapshot : Import(s) /\ Brings(s, f)]_table
    BY OverStep
  <1>2. QED
    BY <1>1, TableTyped, PTL DEF TableSpec, OverForGood
-----------------------------------------------------------------------------
(* The inductive invariant of PostgresSessions.  No two transactions hold  *)
(* the same lock, and what a transaction has read or written so far stays  *)
(* true until it commits, because whoever could change it needs a lock it  *)
(* holds.                                                                  *)

Exclusive == \A i, j \in Instance : i # j => tx[i].held \cap tx[j].held = {}

HoldsRow(t, x) == <<"row", x>> \in t.held
HoldsUser(t, u) == <<"user", u>> \in t.held
HoldsSid(t, s) == s # None => <<"sid", s>> \in t.held

\* Another store has sessions of the login.
Abroad(f) == \E s \in Snapshot : \E x \in DOMAIN Contents[s].sessions : x[1] = f

\* What a command is about, from the time it is sent.
Asked(c) ==
  /\ c.op \in {"lookup", "recover", "logout"} => c.on \in DOMAIN rows
  /\ c.op = "create" =>
       /\ c.on[1] \in drawn
       /\ IF c.on[2] > 0 THEN Pred(c.on) \in DOMAIN rows
          ELSE /\ ~Abroad(c.on[1])
               /\ (\E x \in DOMAIN rows : x[1] = c.on[1]) => c.on \in DOMAIN rows

\* The statements of a command.
PlaceOf(c, p) ==
  /\ p = "provider" => c.op \in {"create", "consume"}
  /\ p \in {"users", "token"} => c.op = "consume"
  /\ p = "family" => c.op = "logout"
  /\ p \in {"user", "revoke"} => c.op \in {"create", "consume", "logout"}
  /\ p \in {"predecessor", "stored", "insert", "prune"} => c.op = "create"
  /\ p = "select" => c.op \in {"consume", "logout"}
  /\ p = "lookup" => c.op = "lookup"
  /\ p \in {"first", "second"} => c.op = "recover"
  /\ p \in {"key", "store"} => c.op \in {"limited", "failure", "clear"}
  /\ p = "load" => c.op \in {"limited", "failure"}
  /\ p \in {"stale", "drop"} => c.op = "failure"
  /\ p = "import" => c.op = "import"
  /\ p = "other" => c.op = "other"

Place == {"idle", "reconnect", "migrate", "provider", "users", "token", "family", "user",
          "revoke", "predecessor", "stored", "insert", "prune", "select", "lookup", "first",
          "second", "key", "store", "load", "stale", "drop", "import", "other", "commit"}

Shape(t) == t = [held |-> t.held, changed |-> t.changed, todo |-> t.todo,
                 spends |-> t.spends, failures |-> t.failures, gone |-> t.gone]

\* Nobody else writes what a transaction has written.
Guarded(c, t) ==
  /\ \A y \in DOMAIN t.changed :
       /\ HoldsRow(t, y)
       /\ \/ t.changed[y] = "revoked" /\ (y \in DOMAIN rows \/ c.op = "import")
          \/ /\ t.changed[y] = "live" /\ y \in Token
             /\ c.op = "import" \/ (c.op = "create" /\ c.on = y)
             /\ HoldsUser(t, UserOf(y)) /\ HoldsSid(t, SidOf(y))
  /\ \A k \in t.spends : <<"token", k>> \in t.held
  /\ \A k \in DOMAIN t.failures : <<"key", k>> \in t.held

Inserting(c, p, t) ==
  LET x == c.on IN
  /\ x \in DOMAIN t.changed /\ t.changed[x] = "live" /\ x \notin DOMAIN rows
  /\ \A y \in DOMAIN t.changed \ {x} : t.changed[y] = "revoked" /\ UserOf(y) = UserOf(x)
  /\ t.todo \subseteq {y \in DOMAIN rows : UserOf(y) = UserOf(x)}
  /\ x[2] = 0 \/ (Pred(x) \in Live(rows) /\ Pred(x) \in DOMAIN t.changed)
  /\ p # "prune" =>
       Cardinality(LiveOf(rows, UserOf(x)) \ (t.todo \cup DOMAIN t.changed)) < MaxConcurrent

Creating(c, p, t) ==
  /\ t.spends = {} /\ DOMAIN t.failures = {}
  /\ p # "provider" => HoldsSid(t, SidOf(c.on))
  /\ p = "user" => t.todo = {UserOf(c.on)}
  /\ p \notin {"provider", "user"} => HoldsUser(t, UserOf(c.on))
  /\ p \notin {"user", "revoke"} => t.todo = {}
  /\ p \notin {"prune", "revoke", "commit"} => DOMAIN t.changed = {}
  /\ p = "insert" => c.on[2] = 0 \/ (Pred(c.on) \in Live(rows) /\ HoldsRow(t, Pred(c.on)))
  /\ p \in {"prune", "revoke"} \/ DOMAIN t.changed # {} => Inserting(c, p, t)

\* The rows that a logout or a logout token is about.
Target(c) == IF c.op = "consume" THEN Named(rows, c.on) ELSE {x \in DOMAIN rows : x[1] = c.on[1]}

Ending(c, p, t) ==
  /\ DOMAIN t.failures = {}
  /\ p \notin {"revoke", "commit"} => DOMAIN t.changed = {}
  /\ p \notin {"user", "revoke"} => t.todo = {}
  /\ p # "user" => t.todo \cup DOMAIN t.changed \subseteq Target(c)
  /\ \A y \in DOMAIN t.changed : t.changed[y] = "revoked"
  /\ p = "revoke" \/ (p = "commit" /\ (c.op = "logout" \/ t.spends # {})) =>
       Target(c) \cap Live(rows) \subseteq t.todo \cup DOMAIN t.changed

LoggingOut(c, p, t) ==
  /\ t.spends = {}
  /\ p = "user" => t.todo = {UserOf(c.on)}
  /\ p \in {"select", "revoke", "commit"} => HoldsUser(t, UserOf(c.on))

Consuming(c, p, t) ==
  LET u == Claims[c.on].user IN
  /\ p # "provider" => HoldsSid(t, Claims[c.on].sid)
  /\ p = "user" => t.todo \subseteq Nat
  /\ u # None => /\ p = "user" => u \in t.todo \/ HoldsUser(t, u)
                 /\ p \in {"token", "select", "revoke", "commit"} => HoldsUser(t, u)
  /\ t.spends = {} \/ (t.spends = {c.on} /\ c.on \notin spent)
  /\ t.spends = {} => p \notin {"select", "revoke"} /\ DOMAIN t.changed = {}

LookingUp(c, p, t) ==
  /\ t.todo = {} /\ t.spends = {} /\ DOMAIN t.failures = {}
  /\ DOMAIN t.changed \subseteq {c.on}
  /\ \A y \in DOMAIN t.changed : t.changed[y] = "revoked"

Result(c) ==
  CASE c.op = "failure" -> failures[c.on] + 1
    [] c.op = "clear" -> 0
    [] OTHER -> failures[c.on]

Counting(c, p, t) ==
  /\ t.spends = {} /\ DOMAIN t.changed = {}
  /\ p # "key" => <<"key", c.on>> \in t.held
  /\ IF p \in {"key", "load"} THEN DOMAIN t.failures = {} ELSE t.failures = Count(c.on, Result(c))

\* What an import locks before it writes.
Ahead(c) == {a \in Agenda(c) : a[1] \in {"sid", "user", "key"}}

Importing(c, p, t) ==
  LET s == Contents[c.on] IN
  /\ DOMAIN t.changed \subseteq DOMAIN s.sessions
  /\ \A y \in DOMAIN t.changed : HoldsRow(t, y) /\ t.changed[y] = Merged(rows, s.sessions, y)
  /\ t.spends \subseteq s.tokens /\ \A k \in t.spends : <<"token", k>> \in t.held
  /\ DOMAIN t.failures \subseteq DOMAIN s.counts
  /\ \A k \in DOMAIN t.failures : t.failures[k] \in 1..(failures[k] + s.counts[k])
  /\ \A y \in DOMAIN s.sessions : HoldsRow(t, y) => y \in DOMAIN t.changed
  /\ \A k \in s.tokens : <<"token", k>> \in t.held => k \in t.spends
  /\ \A k \in DOMAIN s.counts : <<"failures", k>> \in t.held => k \in DOMAIN t.failures
  /\ DOMAIN t.changed # {} \/ t.spends # {} \/ DOMAIN t.failures # {} => Ahead(c) \subseteq t.held
  /\ p = "commit" => Agenda(c) \subseteq t.held

\* A transaction that wrote nothing.
Reading(t) == t.spends = {} /\ DOMAIN t.failures = {} /\ DOMAIN t.changed = {}

Working(c, p, t) ==
  /\ PlaceOf(c, p)
  /\ Guarded(c, t)
  /\ c.op = "create" => Creating(c, p, t)
  /\ c.op \in {"consume", "logout"} => Ending(c, p, t)
  /\ c.op = "logout" => LoggingOut(c, p, t)
  /\ c.op = "consume" => Consuming(c, p, t)
  /\ c.op = "lookup" => LookingUp(c, p, t)
  /\ c.op \in {"limited", "failure", "clear"} => Counting(c, p, t)
  /\ c.op = "import" => Importing(c, p, t)
  /\ c.op \in {"recover", "other"} => Reading(t)

Sane(c, p, t) ==
  /\ p \in Place /\ Shape(t)
  /\ p \in {"idle", "reconnect"} => t = NoTx
  /\ p # "idle" => c \in Command /\ Asked(c)
  /\ p \notin {"idle", "reconnect", "migrate"} => Working(c, p, t)

Queued ==
  /\ queue \in [Instance -> Seq(Command)]
  /\ \A i \in Instance : \A n \in 1..Len(queue[i]) : Asked(queue[i][n])

Workers ==
  /\ cmd \in [Instance -> Command \cup {None}]
  /\ pc \in [Instance -> Place]
  /\ tx = [i \in Instance |-> tx[i]]

Families ==
  /\ \A x \in DOMAIN rows : x[1] \in drawn
  /\ \A s \in Snapshot : \A x \in DOMAIN Contents[s].sessions : x[1] \in drawn

IInv ==
  /\ TableOK /\ Queued /\ Workers /\ Exclusive /\ Families
  /\ \A i \in Instance : Sane(cmd[i], pc[i], tx[i])

-----------------------------------------------------------------------------
(* Commands, locks and the steps of a worker within a transaction.         *)

LEMMA CommandParts ==
  ASSUME NEW c \in Command
  PROVE  /\ c.op \in {"create", "lookup", "recover", "logout", "consume", "limited", "failure",
                      "clear", "import", "other"}
         /\ c.op \in {"create", "lookup", "recover", "logout"} => c.on \in Token
         /\ c.op = "consume" => c.on \in LogoutToken
         /\ c.op \in {"limited", "failure", "clear"} => c.on \in Key
         /\ c.op = "import" => c.on \in Snapshot
  BY DEF Command, SessionCommand, RateLimitCommand

LEMMA TokenParts ==
  ASSUME NEW x \in Token
  PROVE  /\ x = <<x[1], x[2]>> /\ x[1] \in Family /\ x[2] \in Nat /\ x[2] <= MaxGen
         /\ UserOf(x) \in Nat
  BY UserAssumption, FamilyAssumption DEF Token, UserOf

Tx(held, changed, todo, spends, count, gone) ==
  [held |-> held, changed |-> changed, todo |-> todo, spends |-> spends, failures |-> count,
   gone |-> gone]

LEMMA TxShape ==
  ASSUME NEW h, NEW w, NEW d, NEW s, NEW f, NEW g
  PROVE  /\ Shape(Tx(h, w, d, s, f, g))
         /\ Tx(h, w, d, s, f, g).held = h /\ Tx(h, w, d, s, f, g).changed = w
         /\ Tx(h, w, d, s, f, g).todo = d /\ Tx(h, w, d, s, f, g).spends = s
         /\ Tx(h, w, d, s, f, g).failures = f /\ Tx(h, w, d, s, f, g).gone = g
  BY DEF Shape, Tx

(* A transaction of which some parts are replaced.                         *)
LEMMA OnePart ==
  ASSUME NEW t, Shape(t), NEW V
  PROVE  /\ [t EXCEPT !.held = V] = Tx(V, t.changed, t.todo, t.spends, t.failures, t.gone)
         /\ [t EXCEPT !.changed = V] = Tx(t.held, V, t.todo, t.spends, t.failures, t.gone)
         /\ [t EXCEPT !.todo = V] = Tx(t.held, t.changed, V, t.spends, t.failures, t.gone)
         /\ [t EXCEPT !.spends = V] = Tx(t.held, t.changed, t.todo, V, t.failures, t.gone)
         /\ [t EXCEPT !.failures = V] = Tx(t.held, t.changed, t.todo, t.spends, V, t.gone)
         /\ [t EXCEPT !.gone = V] = Tx(t.held, t.changed, t.todo, t.spends, t.failures, V)
  <1>1. PICK h, w, d, s, f, g : /\ h = t.held /\ w = t.changed /\ d = t.todo
                                /\ s = t.spends /\ f = t.failures /\ g = t.gone
    OBVIOUS
  <1>2. t = Tx(h, w, d, s, f, g)
    BY <1>1 DEF Shape, Tx
  <1>3. [t EXCEPT !.held = V] = Tx(V, w, d, s, f, g)
    BY <1>2 DEF Tx
  <1>4. [t EXCEPT !.changed = V] = Tx(h, V, d, s, f, g)
    BY <1>2 DEF Tx
  <1>5. [t EXCEPT !.todo = V] = Tx(h, w, V, s, f, g)
    BY <1>2 DEF Tx
  <1>6. [t EXCEPT !.spends = V] = Tx(h, w, d, V, f, g)
    BY <1>2 DEF Tx
  <1>7. [t EXCEPT !.failures = V] = Tx(h, w, d, s, V, g)
    BY <1>2 DEF Tx
  <1>8. [t EXCEPT !.gone = V] = Tx(h, w, d, s, f, V)
    BY <1>2 DEF Tx
  <1>9. QED
    BY <1>1, <1>3, <1>4, <1>5, <1>6, <1>7, <1>8

LEMMA TwoParts ==
  ASSUME NEW t, Shape(t), NEW H, NEW V
  PROVE  /\ [t EXCEPT !.held = H, !.changed = V]
              = Tx(H, V, t.todo, t.spends, t.failures, t.gone)
         /\ [t EXCEPT !.held = H, !.spends = V]
              = Tx(H, t.changed, t.todo, V, t.failures, t.gone)
         /\ [t EXCEPT !.held = H, !.failures = V]
              = Tx(H, t.changed, t.todo, t.spends, V, t.gone)
  <1>1. PICK b : b = [t EXCEPT !.held = H]
    OBVIOUS
  <1>2. b = Tx(H, t.changed, t.todo, t.spends, t.failures, t.gone)
    <2>1. [t EXCEPT !.held = H] = Tx(H, t.changed, t.todo, t.spends, t.failures, t.gone)
      BY OnePart
    <2>2. QED
      BY <1>1, <2>1
  <1>3. /\ Shape(b) /\ b.held = H /\ b.changed = t.changed /\ b.todo = t.todo
        /\ b.spends = t.spends /\ b.failures = t.failures /\ b.gone = t.gone
    BY <1>2, TxShape
  <1>4. [b EXCEPT !.changed = V] = Tx(b.held, V, b.todo, b.spends, b.failures, b.gone)
    BY <1>3, OnePart
  <1>5. [b EXCEPT !.spends = V] = Tx(b.held, b.changed, b.todo, V, b.failures, b.gone)
    BY <1>3, OnePart
  <1>6. [b EXCEPT !.failures = V] = Tx(b.held, b.changed, b.todo, b.spends, V, b.gone)
    BY <1>3, OnePart
  <1>7. QED
    BY <1>1, <1>3, <1>4, <1>5, <1>6

LEMMA ThreeParts ==
  ASSUME NEW t, Shape(t), NEW D, NEW H, NEW V
  PROVE  [t EXCEPT !.todo = D, !.held = H, !.changed = V]
           = Tx(H, V, D, t.spends, t.failures, t.gone)
  <1>1. PICK b, e : b = [t EXCEPT !.todo = D] /\ e = [b EXCEPT !.held = H]
    OBVIOUS
  <1>2. /\ Shape(b) /\ b.held = t.held /\ b.changed = t.changed /\ b.todo = D
        /\ b.spends = t.spends /\ b.failures = t.failures /\ b.gone = t.gone
    <2>1. [t EXCEPT !.todo = D] = Tx(t.held, t.changed, D, t.spends, t.failures, t.gone)
      BY OnePart
    <2>2. QED
      BY <1>1, <2>1, TxShape
  <1>3. /\ Shape(e) /\ e.held = H /\ e.changed = t.changed /\ e.todo = D
        /\ e.spends = t.spends /\ e.failures = t.failures /\ e.gone = t.gone
    <2>1. [b EXCEPT !.held = H] = Tx(H, b.changed, b.todo, b.spends, b.failures, b.gone)
      BY <1>2, OnePart
    <2>2. QED
      BY <1>1, <1>2, <2>1, TxShape
  <1>4. [e EXCEPT !.changed = V] = Tx(e.held, V, e.todo, e.spends, e.failures, e.gone)
    BY <1>3, OnePart
  <1>5. QED
    BY <1>1, <1>3, <1>4

LEMMA LockedTx ==
  ASSUME NEW i \in Instance, Shape(tx[i])
  PROVE  /\ Locked(i) = Tx(tx[i].held \cup Wants(i), tx[i].changed, tx[i].todo, tx[i].spends,
                           tx[i].failures, tx[i].gone)
         /\ Shape(Locked(i)) /\ Locked(i).held = tx[i].held \cup Wants(i)
         /\ Locked(i).changed = tx[i].changed /\ Locked(i).todo = tx[i].todo
         /\ Locked(i).spends = tx[i].spends /\ Locked(i).failures = tx[i].failures
         /\ Locked(i).gone = tx[i].gone
  <1>1. PICK t, n, X : t = tx[i] /\ n = Locked(i) /\ X = t.held \cup Wants(i)
    OBVIOUS
  <1>2. n = [t EXCEPT !.held = X]
    BY <1>1 DEF Locked
  <1>3. Shape(t)
    BY <1>1
  <1>4. [t EXCEPT !.held = X] = Tx(X, t.changed, t.todo, t.spends, t.failures, t.gone)
    BY <1>3, OnePart
  <1>5. QED
    BY <1>1, <1>2, <1>4, TxShape

(* More locks guard no less.                                               *)
LEMMA GuardedMore ==
  ASSUME NEW c, NEW t, Guarded(c, t), NEW m, t.held \subseteq m.held, m.changed = t.changed,
         m.spends = t.spends, m.failures = t.failures
  PROVE  Guarded(c, m)
  BY DEF Guarded, HoldsRow, HoldsUser, HoldsSid

LEMMA NoLockShared ==
  ASSUME Exclusive, NEW i \in Instance, NEW L, Free(i, L)
  PROVE  \A j \in Instance \ {i} : (tx[i].held \cup L) \cap tx[j].held = {}
  BY DEF Exclusive, Free

LEMMA SaneSame ==
  ASSUME NEW c, NEW p, NEW t, Sane(c, p, t), UNCHANGED <<rows, spent, failures, drawn>>
  PROVE  Sane(c, p, t)'
  BY DEF Sane, Asked, Working, Guarded, Creating, Inserting, Ending, Target, Named, LoggingOut,
     Consuming, LookingUp, Counting, Result, Importing, Merged, Live, LiveOf

(* A statement that keeps what its transaction relies on keeps the rest.   *)
LEMMA GotoKeeps ==
  ASSUME IInv, NEW i \in Instance, NEW p, NEW t, Goto(i, p, t), Sane(cmd[i], p, t),
         \A j \in Instance \ {i} : t.held \cap tx[j].held = {}
  PROVE  IInv'
  <1>1. /\ UNCHANGED <<rows, spent, failures, tally, closed, brought, queue, cmd, drawn>>
        /\ pc' = [pc EXCEPT ![i] = p] /\ tx' = [tx EXCEPT ![i] = t]
    BY DEF Goto, table
  <1>2. Workers /\ Exclusive /\ \A j \in Instance : Sane(cmd[j], pc[j], tx[j])
    BY DEF IInv
  <1>3. /\ pc'[i] = p /\ tx'[i] = t
        /\ \A j \in Instance \ {i} : pc'[j] = pc[j] /\ tx'[j] = tx[j]
    BY <1>1, <1>2 DEF Workers
  <1>4. TableOK' /\ Queued' /\ Families'
    BY <1>1 DEF IInv, TableOK, Queued, Asked, Families
  <1>5. Workers'
    <2>1. p \in Place
      BY DEF Sane
    <2>2. QED
      BY <1>1, <1>2, <2>1 DEF Workers
  <1>6. Exclusive'
    BY <1>2, <1>3 DEF Exclusive
  <1>7. ASSUME NEW j \in Instance
        PROVE  Sane(cmd[j], pc[j], tx[j])'
    <2>1. CASE j = i
      <3>1. Sane(cmd[i], p, t)'
        BY <1>1, SaneSame
      <3>2. QED
        BY <1>1, <1>3, <2>1, <3>1
    <2>2. CASE j # i
      <3>1. PICK c, q, s : c = cmd[j] /\ q = pc[j] /\ s = tx[j]
        OBVIOUS
      <3>2. Sane(c, q, s)'
        BY <1>1, <1>2, <3>1, SaneSame
      <3>3. c = cmd'[j] /\ q = pc'[j] /\ s = tx'[j]
        BY <1>1, <1>3, <2>2, <3>1
      <3>4. QED
        BY <3>2, <3>3
    <2>3. QED
      BY <2>1, <2>2
  <1>8. QED
    BY <1>4, <1>5, <1>6, <1>7 DEF IInv

(* A transaction under way, with its parts.                                *)
LEMMA UnderWay ==
  ASSUME IInv, NEW i \in Instance, pc[i] \notin {"idle", "reconnect", "migrate"}
  PROVE  /\ cmd[i] \in Command /\ Asked(cmd[i]) /\ Working(cmd[i], pc[i], tx[i])
         /\ Shape(tx[i]) /\ Exclusive
  BY DEF IInv, Sane

(* A statement that keeps what its own transaction relies on.              *)
LEMMA Statement ==
  ASSUME IInv, NEW i \in Instance, pc[i] \notin {"idle", "reconnect", "migrate"},
         NEW p \in Place \ {"idle", "reconnect", "migrate"}, NEW m, Shape(m), Goto(i, p, m),
         NEW L, Free(i, L), m.held \subseteq tx[i].held \cup L, Working(cmd[i], p, m)
  PROVE  IInv'
  <1>1. Sane(cmd[i], p, m)
    BY UnderWay DEF Sane
  <1>2. \A j \in Instance \ {i} : m.held \cap tx[j].held = {}
    <2>1. \A j \in Instance \ {i} : (tx[i].held \cup L) \cap tx[j].held = {}
      BY UnderWay, NoLockShared
    <2>2. QED
      BY <2>1
  <1>3. QED
    BY <1>1, <1>2, GotoKeeps

LEMMA NothingWanted == ASSUME NEW i \in Instance PROVE Free(i, {})
  BY DEF Free

LEMMA LockProviderKeeps ==
  ASSUME IInv, NEW i \in Instance, LockProvider(i)
  PROVE  IInv'
  <1>1. /\ pc[i] = "provider" /\ Granted(i)
        /\ cmd[i] \in Command /\ Working(cmd[i], "provider", tx[i]) /\ Shape(tx[i])
    BY UnderWay DEF LockProvider
  <1>2. PICK c, t, n : c = cmd[i] /\ t = tx[i] /\ n = Locked(i)
    OBVIOUS
  <1> DEFINE h == t.held \cup Wants(i)
  <1>3. n = Tx(h, t.changed, t.todo, t.spends, t.failures, t.gone)
    BY <1>1, <1>2, LockedTx
  <1>4. Wants(i) = {<<"sid", s>> : s \in SidsOf(c)}
    BY <1>1, <1>2 DEF Wants
  <1>5. CASE c.op = "create"
    <2>1. PICK m : m = Tx(h, t.changed, {UserOf(c.on)}, t.spends, t.failures, t.gone)
      OBVIOUS
    <2>2. Goto(i, "user", m)
      <3>1. Goto(i, "user", [n EXCEPT !.todo = {UserOf(c.on)}])
        BY <1>2, <1>5 DEF LockProvider
      <3>2. [n EXCEPT !.todo = {UserOf(c.on)}] = m
        <4>1. /\ Shape(n) /\ n.held = t.held \cup Wants(i) /\ n.changed = t.changed /\ n.todo = t.todo
              /\ n.spends = t.spends /\ n.failures = t.failures /\ n.gone = t.gone
          BY <1>1, <1>2, <2>1, LockedTx
        <4>2. [n EXCEPT !.todo = {UserOf(c.on)}]
                = Tx(n.held, n.changed, {UserOf(c.on)}, n.spends, n.failures, n.gone)
          BY <4>1, OnePart
        <4>3. QED
          BY <1>1, <1>2, <2>1, <4>1, <4>2
      <3>3. QED
        BY <3>1, <3>2
    <2>3. /\ m.held = h /\ m.changed = t.changed /\ m.todo = {UserOf(c.on)}
          /\ m.spends = t.spends /\ m.failures = t.failures /\ Shape(m)
      BY <2>1, TxShape
    <2>4. HoldsSid(m, SidOf(c.on))
      BY <1>4, <1>5, <2>3 DEF SidsOf, HoldsSid
    <2>5. Working(c, "user", m)
      BY <1>1, <1>2, <1>5, <2>3, <2>4 DEF Working, PlaceOf, Guarded, Creating
    <2>6. QED
      BY <1>1, <1>2, <2>2, <2>3, <2>5, Statement DEF Granted, Place
  <1>6. CASE c.op = "consume"
    <2>1. Goto(i, "users", n)
      BY <1>2, <1>6 DEF LockProvider
    <2>2. /\ n.held = h /\ n.changed = t.changed /\ n.todo = t.todo
          /\ n.spends = t.spends /\ n.failures = t.failures /\ Shape(n)
      BY <1>3, TxShape
    <2>3. HoldsSid(n, Claims[c.on].sid)
      BY <1>4, <1>6, <2>2 DEF SidsOf, HoldsSid
    <2>4. Working(c, "users", n)
      BY <1>1, <1>2, <1>6, <2>2, <2>3
         DEF Working, PlaceOf, Guarded, HoldsRow, Ending, Consuming
    <2>5. QED
      BY <1>1, <1>2, <2>1, <2>2, <2>4, Statement DEF Granted, Place
  <1>7. QED
    BY <1>1, <1>2, <1>5, <1>6 DEF Working, PlaceOf

LEMMA FindUsersKeeps ==
  ASSUME IInv, NEW i \in Instance, FindUsers(i)
  PROVE  IInv'
  <1>1. /\ pc[i] = "users" /\ Granted(i)
        /\ cmd[i] \in Command /\ Working(cmd[i], "users", tx[i]) /\ Shape(tx[i])
    BY UnderWay DEF FindUsers
  <1>2. PICK c, t, n : c = cmd[i] /\ t = tx[i] /\ n = Locked(i)
    OBVIOUS
  <1>3. c.op = "consume" /\ c.on \in LogoutToken
    BY <1>1, <1>2, CommandParts DEF Working, PlaceOf
  <1>4. PICK users, p : /\ users \subseteq Nat
                        /\ Claims[c.on].user # None => users = {Claims[c.on].user}
                        /\ p = IF users = {} THEN "token" ELSE "user"
                        /\ Goto(i, p, [n EXCEPT !.todo = users])
    <2>1. PICK users : users = IF Claims[c.on].user # None THEN {Claims[c.on].user}
                               ELSE {UserOf(x) : x \in {y \in Live(rows) : SidOf(y) = Claims[c.on].sid}}
      OBVIOUS
    <2>2. Goto(i, IF users = {} THEN "token" ELSE "user", [n EXCEPT !.todo = users])
      BY <1>2, <2>1 DEF FindUsers
    <2>3. \A x \in Live(rows) : UserOf(x) \in Nat
      BY TokenParts DEF IInv, TableOK, Live
    <2>4. users \subseteq Nat
      BY <1>3, <2>1, <2>3, ClaimsAssumption
    <2>5. QED
      BY <2>1, <2>2, <2>4
  <1>5. PICK h, m : h = t.held \cup Wants(i) /\ m = Tx(h, t.changed, users, t.spends, t.failures, t.gone)
    OBVIOUS
  <1>6. Goto(i, p, m)
    <2>1. [n EXCEPT !.todo = users] = m
      <3>1. /\ Shape(n) /\ n.held = t.held \cup Wants(i) /\ n.changed = t.changed /\ n.todo = t.todo
            /\ n.spends = t.spends /\ n.failures = t.failures /\ n.gone = t.gone
        BY <1>1, <1>2, <1>5, LockedTx
      <3>2. [n EXCEPT !.todo = users]
              = Tx(n.held, n.changed, users, n.spends, n.failures, n.gone)
        BY <3>1, OnePart
      <3>3. QED
        BY <1>1, <1>2, <1>5, <3>1, <3>2
    <2>2. QED
      BY <1>4, <2>1
  <1>7. /\ m.held = h /\ m.changed = t.changed /\ m.todo = users
        /\ m.spends = t.spends /\ m.failures = t.failures /\ Shape(m)
    BY <1>5, TxShape
  <1>8. Working(c, p, m)
    <2>1. Guarded(c, m)
      BY <1>1, <1>2, <1>5, <1>7, GuardedMore DEF Working
    <2>2. Ending(c, p, m)
      BY <1>1, <1>2, <1>3, <1>4, <1>7 DEF Working, Ending
    <2>3. Consuming(c, p, m)
      BY <1>1, <1>2, <1>3, <1>4, <1>5, <1>7 DEF Working, HoldsSid, HoldsUser, Consuming
    <2>4. QED
      BY <1>3, <1>4, <2>1, <2>2, <2>3 DEF Working, PlaceOf
  <1>9. QED
    BY <1>1, <1>2, <1>4, <1>5, <1>6, <1>7, <1>8, Statement DEF Granted, Place

LEMMA FindFamilyKeeps ==
  ASSUME IInv, NEW i \in Instance, FindFamily(i)
  PROVE  IInv'
  <1>1. /\ pc[i] = "family" /\ Granted(i)
        /\ cmd[i] \in Command /\ Working(cmd[i], "family", tx[i]) /\ Shape(tx[i])
    BY UnderWay DEF FindFamily
  <1>2. PICK c, t, n : c = cmd[i] /\ t = tx[i] /\ n = Locked(i)
    OBVIOUS
  <1>3. PICK h, m : /\ h = t.held \cup Wants(i)
                    /\ m = Tx(h, t.changed, {UserOf(c.on)}, t.spends, t.failures, t.gone)
    OBVIOUS
  <1>4. Goto(i, "user", m)
    <2>1. [n EXCEPT !.todo = {UserOf(c.on)}] = m
      <3>1. /\ Shape(n) /\ n.held = t.held \cup Wants(i) /\ n.changed = t.changed /\ n.todo = t.todo
            /\ n.spends = t.spends /\ n.failures = t.failures /\ n.gone = t.gone
        BY <1>1, <1>2, <1>3, LockedTx
      <3>2. [n EXCEPT !.todo = {UserOf(c.on)}]
              = Tx(n.held, n.changed, {UserOf(c.on)}, n.spends, n.failures, n.gone)
        BY <3>1, OnePart
      <3>3. QED
        BY <1>1, <1>2, <1>3, <3>1, <3>2
    <2>2. QED
      BY <1>2, <2>1 DEF FindFamily
  <1>5. /\ m.held = h /\ m.changed = t.changed /\ m.todo = {UserOf(c.on)}
        /\ m.spends = t.spends /\ m.failures = t.failures /\ Shape(m)
    BY <1>3, TxShape
  <1>6. Working(c, "user", m)
    BY <1>1, <1>2, <1>3, <1>5 DEF Working, PlaceOf, Guarded, HoldsRow, Ending, LoggingOut
  <1>7. QED
    BY <1>1, <1>2, <1>3, <1>4, <1>5, <1>6, Statement DEF Granted, Place

LEMMA LockUserKeeps ==
  ASSUME IInv, NEW i \in Instance, LockUser(i)
  PROVE  IInv'
  <1>1. /\ pc[i] = "user" /\ Granted(i)
        /\ cmd[i] \in Command /\ Working(cmd[i], "user", tx[i]) /\ Shape(tx[i])
    BY UnderWay DEF LockUser
  <1>2. PICK c, t, n : c = cmd[i] /\ t = tx[i] /\ n = Locked(i)
    OBVIOUS
  <1> DEFINE h == t.held \cup Wants(i)
  <1>3. n = Tx(h, t.changed, t.todo, t.spends, t.failures, t.gone)
    BY <1>1, <1>2, LockedTx
  <1>4. c.op \in {"create", "consume", "logout"}
    BY <1>1, <1>2 DEF Working, PlaceOf
  <1>5. PICK rest : rest = {v \in t.todo : \E w \in t.todo : w < v}
    OBVIOUS
  <1>6. PICK p : p = IF rest # {} THEN "user"
                     ELSE CASE c.op = "consume" -> "token"
                            [] c.op = "logout" -> "select"
                            [] c.op = "create" -> IF c.on[2] = 0 THEN "insert" ELSE "predecessor"
    OBVIOUS
  <1>7. Goto(i, p, [n EXCEPT !.todo = rest])
    BY <1>2, <1>5, <1>6 DEF LockUser
  <1>8. PICK m : m = Tx(h, t.changed, rest, t.spends, t.failures, t.gone)
    OBVIOUS
  <1>9. Goto(i, p, m)
    <2>1. [n EXCEPT !.todo = rest] = m
      <3>1. /\ Shape(n) /\ n.held = t.held \cup Wants(i) /\ n.changed = t.changed /\ n.todo = t.todo
            /\ n.spends = t.spends /\ n.failures = t.failures /\ n.gone = t.gone
        BY <1>1, <1>2, <1>8, LockedTx
      <3>2. [n EXCEPT !.todo = rest]
              = Tx(n.held, n.changed, rest, n.spends, n.failures, n.gone)
        BY <3>1, OnePart
      <3>3. QED
        BY <1>1, <1>2, <1>8, <3>1, <3>2
    <2>2. QED
      BY <1>7, <2>1
  <1>10. /\ m.held = h /\ m.changed = t.changed /\ m.todo = rest
         /\ m.spends = t.spends /\ m.failures = t.failures /\ Shape(m)
    BY <1>8, TxShape
  <1>11. t.todo \subseteq Nat
    <2>1. CASE c.op = "consume"
      BY <1>1, <1>2, <2>1 DEF Working, Consuming
    <2>2. CASE c.op \in {"create", "logout"}
      <3>1. t.todo = {UserOf(c.on)}
        BY <1>1, <1>2, <2>2 DEF Working, Creating, LoggingOut
      <3>2. UserOf(c.on) \in Nat
        BY <1>1, <1>2, <2>2, CommandParts, TokenParts
      <3>3. QED
        BY <3>1, <3>2
    <2>3. QED
      BY <1>4, <2>1, <2>2
  <1>12. \A u \in t.todo : u \in rest \/ HoldsUser(m, u)
    <2>1. Wants(i) = {<<"user", u>> : u \in {v \in t.todo : \A w \in t.todo : v <= w}}
      <3>1. Wants(i) = UserLock(i)
        BY <1>1 DEF Wants
      <3>2. QED
        BY <1>2, <3>1 DEF UserLock
    <2>2. ASSUME NEW u \in t.todo, u \notin rest
          PROVE  \A w \in t.todo : u <= w
      <3>1. \A w \in t.todo : ~(w < u) /\ w \in Nat /\ u \in Nat
        BY <1>5, <1>11, <2>2
      <3>2. QED
        BY <3>1
    <2>3. QED
      BY <1>10, <2>1, <2>2 DEF HoldsUser
  <1>13. Working(c, p, m)
    <2>1. Guarded(c, m)
      BY <1>1, <1>2, <1>10 DEF Working, Guarded, HoldsRow, HoldsUser, HoldsSid
    <2>2. CASE c.op = "create"
      <3>1. t.todo = {UserOf(c.on)} /\ UserOf(c.on) \in Nat
        BY <1>1, <1>2, <2>2, CommandParts, TokenParts DEF Working, Creating
      <3>2. rest = {}
        BY <1>5, <3>1
      <3>3. p = IF c.on[2] = 0 THEN "insert" ELSE "predecessor"
        BY <1>6, <2>2, <3>2
      <3>4. HoldsUser(m, UserOf(c.on))
        BY <1>12, <3>1, <3>2
      <3>5. HoldsSid(m, SidOf(c.on))
        BY <1>1, <1>2, <1>10, <2>2 DEF Working, Creating, HoldsSid
      <3>6. QED
        BY <1>1, <1>2, <1>10, <2>1, <2>2, <3>2, <3>3, <3>4, <3>5 DEF Working, PlaceOf, Creating
    <2>3. CASE c.op = "logout"
      <3>1. t.todo = {UserOf(c.on)} /\ UserOf(c.on) \in Nat
        BY <1>1, <1>2, <2>3, CommandParts, TokenParts DEF Working, LoggingOut
      <3>2. rest = {}
        BY <1>5, <3>1
      <3>3. p = "select"
        BY <1>6, <2>3, <3>2
      <3>4. HoldsUser(m, UserOf(c.on))
        BY <1>12, <3>1, <3>2
      <3>5. QED
        BY <1>1, <1>2, <1>10, <2>1, <2>3, <3>2, <3>3, <3>4
           DEF Working, PlaceOf, Ending, LoggingOut
    <2>4. CASE c.op = "consume"
      <3>1. p = IF rest # {} THEN "user" ELSE "token"
        BY <1>6, <2>4
      <3>2. HoldsSid(m, Claims[c.on].sid)
        BY <1>1, <1>2, <1>10, <2>4 DEF Working, Consuming, HoldsSid
      <3>3. rest \subseteq t.todo
        BY <1>5
      <3>4. \A u : HoldsUser(t, u) => HoldsUser(m, u)
        BY <1>10 DEF HoldsUser
      <3>5. QED
        BY <1>1, <1>2, <1>10, <1>11, <1>12, <2>1, <2>4, <3>1, <3>2, <3>3, <3>4
           DEF Working, PlaceOf, Ending, Consuming
    <2>5. QED
      BY <1>4, <2>2, <2>3, <2>4
  <1>14. p \in Place \ {"idle", "reconnect", "migrate"}
    BY <1>4, <1>6 DEF Place
  <1>15. QED
    BY <1>1, <1>2, <1>9, <1>10, <1>13, <1>14, Statement DEF Granted

LEMMA LockPredecessorKeeps ==
  ASSUME IInv, NEW i \in Instance, LockPredecessor(i)
  PROVE  IInv'
  <1>1. /\ pc[i] = "predecessor" /\ Granted(i)
        /\ cmd[i] \in Command /\ Working(cmd[i], "predecessor", tx[i]) /\ Shape(tx[i])
    BY UnderWay DEF LockPredecessor
  <1>2. PICK c, t, n : c = cmd[i] /\ t = tx[i] /\ n = Locked(i)
    OBVIOUS
  <1> DEFINE h == t.held \cup Wants(i)
  <1>3. n = Tx(h, t.changed, t.todo, t.spends, t.failures, t.gone)
    BY <1>1, <1>2, LockedTx
  <1>4. PICK p : /\ p = IF Pred(c.on) \in Live(rows) THEN "insert" ELSE "stored"
                 /\ Goto(i, p, n)
    BY <1>2 DEF LockPredecessor
  <1>5. /\ n.held = h /\ n.changed = t.changed /\ n.todo = t.todo
        /\ n.spends = t.spends /\ n.failures = t.failures /\ Shape(n)
    BY <1>3, TxShape
  <1>6. Pred(c.on) \in Live(rows) => HoldsRow(n, Pred(c.on))
    <2>1. {<<"row", y>> : y \in {Pred(c.on)} \cap DOMAIN rows} \subseteq Wants(i)
      BY <1>1, <1>2 DEF Wants, SessionLock, RowLock
    <2>2. QED
      BY <1>5, <2>1 DEF HoldsRow, Live
  <1>7. Working(c, p, n)
    BY <1>1, <1>2, <1>4, <1>5, <1>6
       DEF Working, PlaceOf, Guarded, Creating, HoldsUser, HoldsSid
  <1>8. QED
    BY <1>1, <1>2, <1>4, <1>5, <1>7, Statement DEF Granted, Place

LEMMA RepeatedKeeps ==
  ASSUME IInv, NEW i \in Instance, Repeated(i)
  PROVE  IInv'
  <1>1. /\ pc[i] = "stored" /\ Granted(i)
        /\ cmd[i] \in Command /\ Working(cmd[i], "stored", tx[i]) /\ Shape(tx[i])
    BY UnderWay DEF Repeated
  <1>2. PICK c, t, n : c = cmd[i] /\ t = tx[i] /\ n = Locked(i)
    OBVIOUS
  <1>3. n = Tx(t.held \cup Wants(i), t.changed, t.todo, t.spends, t.failures, t.gone)
    BY <1>1, <1>2, LockedTx
  <1>4. /\ n.held = t.held \cup Wants(i) /\ n.changed = t.changed /\ n.todo = t.todo
        /\ n.spends = t.spends /\ n.failures = t.failures /\ Shape(n)
    BY <1>3, TxShape
  <1>5. Working(c, "commit", n)
    BY <1>1, <1>2, <1>4 DEF Working, PlaceOf, Guarded, Creating, HoldsUser, HoldsSid
  <1>6. QED
    BY <1>1, <1>2, <1>4, <1>5, Statement DEF Granted, Place, Repeated

LEMMA InsertRowKeeps ==
  ASSUME IInv, NEW i \in Instance, InsertRow(i)
  PROVE  IInv'
  <1>1. /\ pc[i] = "insert" /\ Granted(i)
        /\ cmd[i] \in Command /\ Working(cmd[i], "insert", tx[i]) /\ Shape(tx[i])
    BY UnderWay DEF InsertRow
  <1>2. PICK c, t, n, x : c = cmd[i] /\ t = tx[i] /\ n = Locked(i) /\ x = c.on
    OBVIOUS
  <1>3. PICK h : h = t.held \cup Wants(i)
    OBVIOUS
  <1>4. n = Tx(h, t.changed, t.todo, t.spends, t.failures, t.gone)
    BY <1>1, <1>2, <1>3, LockedTx
  <1>5. PICK w : w = [y \in {x} \cup ({Pred(x)} \cap DOMAIN rows) |->
                        IF y = x THEN "live" ELSE "revoked"]
    OBVIOUS
  <1>6. x \notin DOMAIN rows /\ Goto(i, "prune", [n EXCEPT !.changed = w])
    BY <1>2, <1>5 DEF InsertRow
  <1>7. PICK m : m = Tx(h, w, t.todo, t.spends, t.failures, t.gone)
    OBVIOUS
  <1>8. Goto(i, "prune", m)
    <2>1. [n EXCEPT !.changed = w] = m
      <3>1. /\ Shape(n) /\ n.held = t.held \cup Wants(i) /\ n.changed = t.changed /\ n.todo = t.todo
            /\ n.spends = t.spends /\ n.failures = t.failures /\ n.gone = t.gone
        BY <1>1, <1>2, <1>3, <1>7, LockedTx
      <3>2. [n EXCEPT !.changed = w]
              = Tx(n.held, w, n.todo, n.spends, n.failures, n.gone)
        BY <3>1, OnePart
      <3>3. QED
        BY <1>1, <1>2, <1>3, <1>7, <3>1, <3>2
    <2>2. QED
      BY <1>6, <2>1
  <1>9. /\ m.held = h /\ m.changed = w /\ m.todo = t.todo
        /\ m.spends = t.spends /\ m.failures = t.failures /\ Shape(m)
    BY <1>7, TxShape
  <1>10. c.op = "create" /\ x \in Token
    BY <1>1, <1>2, CommandParts DEF Working, PlaceOf
  <1>11. Creating(c, "insert", t)
    BY <1>1, <1>2, <1>10 DEF Working
  <1>12. HoldsRow(m, x)
    <2>1. {<<"row", x>>} \ RowLock(x) \subseteq Wants(i)
      BY <1>1, <1>2 DEF Wants, SessionLock
    <2>2. RowLock(x) = {}
      BY <1>6 DEF RowLock
    <2>3. QED
      BY <1>3, <1>9, <2>1, <2>2 DEF HoldsRow
  <1>13. Pred(x) \in DOMAIN rows => /\ x[2] # 0 /\ Pred(x) \in Live(rows) /\ HoldsRow(m, Pred(x))
    <2>1. ASSUME Pred(x) \in DOMAIN rows PROVE x[2] # 0
      <3>1. Pred(x) \in Token
        BY <2>1 DEF IInv, TableOK
      <3>2. Pred(x)[2] \in Nat /\ Pred(x)[2] = x[2] - 1
        BY <3>1, TokenParts DEF Pred
      <3>3. QED
        BY <3>2
    <2>2. QED
      BY <1>2, <1>3, <1>9, <1>11, <2>1 DEF Creating, HoldsRow
  <1>14. x[2] # 0 => Pred(x) \in DOMAIN w /\ Pred(x) \in Live(rows)
    BY <1>2, <1>5, <1>11 DEF Creating, Live
  <1>15. /\ DOMAIN w = {x} \cup ({Pred(x)} \cap DOMAIN rows)
         /\ w[x] = "live" /\ \A y \in DOMAIN w \ {x} : w[y] = "revoked"
    BY <1>5
  <1>16. UserOf(Pred(x)) = UserOf(x)
    BY DEF UserOf, Pred
  <1>17. HoldsUser(m, UserOf(x)) /\ HoldsSid(m, SidOf(x))
    BY <1>2, <1>3, <1>9, <1>11 DEF Creating, HoldsUser, HoldsSid
  <1>18. Guarded(c, m)
    BY <1>1, <1>2, <1>3, <1>9, <1>10, <1>11, <1>12, <1>13, <1>15, <1>17 DEF Guarded, Creating
  <1>19. Inserting(c, "prune", m)
    BY <1>2, <1>6, <1>9, <1>11, <1>14, <1>15, <1>16 DEF Inserting, Creating
  <1>20. Working(c, "prune", m)
    BY <1>2, <1>9, <1>10, <1>11, <1>17, <1>18, <1>19 DEF Working, PlaceOf, Creating
  <1>21. QED
    BY <1>1, <1>2, <1>3, <1>8, <1>9, <1>20, Statement DEF Granted, Place

(* What is left to revoke, in three kinds of transactions.                 *)
LEMMA RevokeKeeps ==
  ASSUME IInv, NEW i \in Instance, pc[i] \in {"prune", "select"}, Granted(i), NEW X, Revoke(i, X),
         NEW m, m = Tx(tx[i].held \cup Wants(i), tx[i].changed, X, tx[i].spends, tx[i].failures,
                       tx[i].gone),
         NEW p, p = IF X = {} THEN "commit" ELSE "revoke", Working(cmd[i], p, m)
  PROVE  IInv'
  <1>1. Shape(tx[i])
    BY UnderWay
  <1>2. Goto(i, p, m)
    <2>1. PICK n : n = Locked(i)
      OBVIOUS
    <2>2. /\ Shape(n) /\ n.held = tx[i].held \cup Wants(i) /\ n.changed = tx[i].changed
          /\ n.spends = tx[i].spends /\ n.failures = tx[i].failures /\ n.gone = tx[i].gone
      BY <1>1, <2>1, LockedTx
    <2>3. [n EXCEPT !.todo = X] = Tx(n.held, n.changed, X, n.spends, n.failures, n.gone)
      BY <2>2, OnePart
    <2>4. Goto(i, p, [n EXCEPT !.todo = X])
      BY <2>1 DEF Revoke
    <2>5. QED
      BY <2>2, <2>3, <2>4
  <1>3. Shape(m) /\ m.held = tx[i].held \cup Wants(i)
    BY TxShape
  <1>4. QED
    BY <1>2, <1>3, Statement DEF Granted, Place

LEMMA PruneKeeps ==
  ASSUME IInv, NEW i \in Instance, Prune(i)
  PROVE  IInv'
  <1>1. /\ pc[i] = "prune" /\ Granted(i)
        /\ cmd[i] \in Command /\ Working(cmd[i], "prune", tx[i]) /\ Shape(tx[i])
    BY UnderWay DEF Prune
  <1>2. PICK c, t, x, u : c = cmd[i] /\ t = tx[i] /\ x = c.on /\ u = UserOf(x)
    OBVIOUS
  <1>3. PICK rivals : rivals = LiveOf(Update(rows, t.changed), u) \ {x}
    OBVIOUS
  <1>4. PICK X \in Surplus(rivals) : Revoke(i, X)
    BY <1>2, <1>3 DEF Prune
  <1>5. PICK m, p : /\ m = Tx(t.held \cup Wants(i), t.changed, X, t.spends, t.failures, t.gone)
                    /\ p = IF X = {} THEN "commit" ELSE "revoke"
    OBVIOUS
  <1>6. /\ m.held = t.held \cup Wants(i) /\ m.changed = t.changed /\ m.todo = X
        /\ m.spends = t.spends /\ m.failures = t.failures
    BY <1>5, TxShape
  <1>7. c.op = "create" /\ Creating(c, "prune", t) /\ Inserting(c, "prune", t)
    BY <1>1, <1>2 DEF Working, PlaceOf, Creating
  <1>8. rivals = LiveOf(rows, u) \ DOMAIN t.changed
    <2>1. PICK all : all = Update(rows, t.changed)
      OBVIOUS
    <2>2. /\ DOMAIN all = DOMAIN rows \cup DOMAIN t.changed
          /\ \A y \in DOMAIN all : all[y] = IF y \in DOMAIN t.changed THEN t.changed[y] ELSE rows[y]
      BY <2>1 DEF Update
    <2>3. \A y \in DOMAIN t.changed \ {x} : t.changed[y] = "revoked"
      BY <1>2, <1>7 DEF Inserting
    <2>4. x \in DOMAIN t.changed
      BY <1>2, <1>7 DEF Inserting
    <2>5. QED
      BY <1>3, <2>1, <2>2, <2>3, <2>4 DEF LiveOf, Live
  <1>9. X \subseteq rivals /\ Cardinality(rivals \ X) < MaxConcurrent
    <2>1. X \subseteq rivals
      BY <1>4 DEF Surplus
    <2>2. Cardinality(rivals \ X) = MaxConcurrent - 1 \/ Cardinality(rivals \ X) < MaxConcurrent
      BY <1>4 DEF Surplus
    <2>3. QED
      BY <2>1, <2>2, CapAssumption
  <1>10. LiveOf(rows, u) \ (X \cup DOMAIN t.changed) = rivals \ X
    BY <1>8
  <1>11. Inserting(c, p, m)
    <2>1. X \subseteq {y \in DOMAIN rows : UserOf(y) = u}
      BY <1>8, <1>9 DEF LiveOf, Live
    <2>2. QED
      BY <1>2, <1>6, <1>7, <1>9, <1>10, <2>1 DEF Inserting
  <1>12. Working(c, p, m)
    <2>1. Guarded(c, m)
      BY <1>1, <1>2, <1>6, GuardedMore DEF Working
    <2>2. Creating(c, p, m)
      BY <1>2, <1>5, <1>6, <1>7, <1>11 DEF Creating, HoldsUser, HoldsSid
    <2>3. QED
      BY <1>5, <1>7, <2>1, <2>2 DEF Working, PlaceOf
  <1>13. QED
    BY <1>1, <1>2, <1>4, <1>5, <1>12, RevokeKeeps

LEMMA SelectRowsKeeps ==
  ASSUME IInv, NEW i \in Instance, SelectRows(i)
  PROVE  IInv'
  <1>1. /\ pc[i] = "select" /\ Granted(i)
        /\ cmd[i] \in Command /\ Working(cmd[i], "select", tx[i]) /\ Shape(tx[i])
    BY UnderWay DEF SelectRows
  <1>2. PICK c, t : c = cmd[i] /\ t = tx[i]
    OBVIOUS
  <1>3. c.op \in {"consume", "logout"}
    BY <1>1, <1>2 DEF Working, PlaceOf
  <1>4. PICK X : X = Target(c) \cap Live(rows)
    OBVIOUS
  <1>5. Revoke(i, X)
    <2>1. X = IF c.op = "consume" THEN Named(rows, c.on) \cap Live(rows)
              ELSE {x \in LiveOf(rows, UserOf(c.on)) : x[1] = c.on[1]}
      BY <1>4 DEF Target, LiveOf, Live, UserOf
    <2>2. QED
      BY <1>2, <2>1 DEF SelectRows
  <1>6. PICK m, p : /\ m = Tx(t.held \cup Wants(i), t.changed, X, t.spends, t.failures, t.gone)
                    /\ p = IF X = {} THEN "commit" ELSE "revoke"
    OBVIOUS
  <1>7. /\ m.held = t.held \cup Wants(i) /\ m.changed = t.changed /\ m.todo = X
        /\ m.spends = t.spends /\ m.failures = t.failures
    BY <1>6, TxShape
  <1>8. Working(c, p, m)
    <2>1. Guarded(c, m)
      BY <1>1, <1>2, <1>7, GuardedMore DEF Working
    <2>2. Ending(c, p, m)
      BY <1>1, <1>2, <1>3, <1>4, <1>6, <1>7 DEF Working, Ending
    <2>3. c.op = "logout" => LoggingOut(c, p, m)
      BY <1>1, <1>2, <1>6, <1>7 DEF Working, LoggingOut, HoldsUser
    <2>4. c.op = "consume" => Consuming(c, p, m)
      BY <1>1, <1>2, <1>6, <1>7 DEF Working, Consuming, HoldsUser, HoldsSid
    <2>5. QED
      BY <1>3, <1>6, <2>1, <2>2, <2>3, <2>4 DEF Working, PlaceOf
  <1>9. QED
    BY <1>1, <1>2, <1>5, <1>6, <1>8, RevokeKeeps

LEMMA RevokeRowKeeps ==
  ASSUME IInv, NEW i \in Instance, RevokeRow(i)
  PROVE  IInv'
  <1>1. /\ pc[i] = "revoke"
        /\ cmd[i] \in Command /\ Working(cmd[i], "revoke", tx[i]) /\ Shape(tx[i])
    BY UnderWay DEF RevokeRow
  <1>2. PICK c, t : c = cmd[i] /\ t = tx[i]
    OBVIOUS
  <1>3. PICK x \in t.todo :
          /\ Free(i, RowLock(x))
          /\ Goto(i, IF t.todo = {x} THEN "commit" ELSE "revoke",
                  [t EXCEPT !.todo = @ \ {x}, !.held = @ \cup RowLock(x),
                            !.changed = Update(@, [y \in {x} |-> "revoked"])])
    BY <1>2 DEF RevokeRow
  <1>4. PICK h, w, d, s, f, g, L :
          /\ h = t.held /\ w = t.changed /\ d = t.todo /\ s = t.spends /\ f = t.failures
          /\ g = t.gone /\ L = RowLock(x)
    OBVIOUS
  <1>5. PICK v : v = Update(w, [y \in {x} |-> "revoked"])
    OBVIOUS
  <1>6. PICK m, p : /\ m = Tx(h \cup L, v, d \ {x}, s, f, g)
                    /\ p = IF d = {x} THEN "commit" ELSE "revoke"
    OBVIOUS
  <1>7. Goto(i, p, m)
    <2>1. PICK D, H : D = d \ {x} /\ H = h \cup L
      OBVIOUS
    <2>2. Goto(i, p, [t EXCEPT !.todo = D, !.held = H, !.changed = v])
      BY <1>3, <1>4, <1>5, <1>6, <2>1
    <2>3. [t EXCEPT !.todo = D, !.held = H, !.changed = v]
            = Tx(H, v, D, t.spends, t.failures, t.gone)
      <3>1. Shape(t)
        BY <1>1, <1>2
      <3>2. QED
        BY <3>1, ThreeParts
    <2>4. QED
      BY <1>4, <1>6, <2>1, <2>2, <2>3
  <1>8. /\ m.held = h \cup L /\ m.changed = v /\ m.todo = d \ {x}
        /\ m.spends = s /\ m.failures = f /\ Shape(m)
    BY <1>6, TxShape
  <1>9. c.op \in {"create", "consume", "logout"}
    BY <1>1, <1>2 DEF Working, PlaceOf
  <1>10. x \in d /\ d \subseteq DOMAIN rows
    <2>1. c.op = "create" => d \subseteq DOMAIN rows
      BY <1>1, <1>2, <1>4 DEF Working, Creating, Inserting
    <2>2. c.op \in {"consume", "logout"} => d \subseteq Target(c)
      BY <1>1, <1>2, <1>4 DEF Working, Ending
    <2>3. Target(c) \subseteq DOMAIN rows
      BY DEF Target, Named
    <2>4. QED
      BY <1>3, <1>4, <1>9, <2>1, <2>2, <2>3
  <1>11. L = {<<"row", x>>}
    BY <1>4, <1>10 DEF RowLock
  <1>12. /\ DOMAIN v = DOMAIN w \cup {x} /\ v[x] = "revoked"
         /\ \A y \in DOMAIN w \ {x} : v[y] = w[y]
    BY <1>5 DEF Update
  <1>13. (d \ {x}) \cup DOMAIN v = d \cup DOMAIN w
    BY <1>10, <1>12
  <1>14. Guarded(c, m)
    <2>1. Guarded(c, t)
      BY <1>1, <1>2 DEF Working
    <2>2. ASSUME NEW y \in DOMAIN v
          PROVE  /\ HoldsRow(m, y)
                 /\ \/ v[y] = "revoked" /\ (y \in DOMAIN rows \/ c.op = "import")
                    \/ /\ v[y] = "live" /\ y \in Token
                       /\ c.op = "import" \/ (c.op = "create" /\ c.on = y)
                       /\ HoldsUser(m, UserOf(y)) /\ HoldsSid(m, SidOf(y))
      <3>1. CASE y = x
        BY <1>8, <1>10, <1>11, <1>12, <3>1 DEF HoldsRow
      <3>2. CASE y # x
        <4>1. y \in DOMAIN w /\ v[y] = w[y]
          BY <1>12, <3>2
        <4>2. QED
          BY <1>4, <1>8, <2>1, <4>1 DEF Guarded, HoldsRow, HoldsUser, HoldsSid
      <3>3. QED
        BY <3>1, <3>2
    <2>3. QED
      BY <1>4, <1>8, <2>1, <2>2 DEF Guarded
  <1>15. CASE c.op = "create"
    <2>1. Creating(c, "revoke", t) /\ Inserting(c, "revoke", t)
      BY <1>1, <1>2, <1>15 DEF Working, Creating
    <2>2. c.on # x /\ UserOf(x) = UserOf(c.on)
      BY <1>4, <1>10, <2>1 DEF Inserting
    <2>3. Inserting(c, p, m)
      <3>1. c.on \in DOMAIN v /\ v[c.on] = "live" /\ c.on \notin DOMAIN rows
        BY <1>4, <1>12, <2>1, <2>2 DEF Inserting
      <3>2. ASSUME NEW y \in DOMAIN v \ {c.on}
            PROVE  v[y] = "revoked" /\ UserOf(y) = UserOf(c.on)
        <4>1. CASE y = x
          BY <1>12, <2>2, <4>1
        <4>2. CASE y # x
          BY <1>4, <1>12, <2>1, <3>2, <4>2 DEF Inserting
        <4>3. QED
          BY <4>1, <4>2
      <3>3. d \ {x} \subseteq {y \in DOMAIN rows : UserOf(y) = UserOf(c.on)}
        BY <1>4, <2>1 DEF Inserting
      <3>4. c.on[2] = 0 \/ (Pred(c.on) \in Live(rows) /\ Pred(c.on) \in DOMAIN v)
        BY <1>4, <1>12, <2>1 DEF Inserting
      <3>5. Cardinality(LiveOf(rows, UserOf(c.on)) \ ((d \ {x}) \cup DOMAIN v)) < MaxConcurrent
        BY <1>4, <1>13, <2>1 DEF Inserting
      <3>6. QED
        BY <1>8, <3>1, <3>2, <3>3, <3>4, <3>5 DEF Inserting
    <2>4. Creating(c, p, m)
      BY <1>4, <1>6, <1>8, <2>1, <2>3 DEF Creating, HoldsUser, HoldsSid
    <2>5. Working(c, p, m)
      BY <1>6, <1>14, <1>15, <2>4 DEF Working, PlaceOf
    <2>6. QED
      BY <1>1, <1>2, <1>3, <1>4, <1>6, <1>7, <1>8, <2>5, Statement DEF Place
  <1>16. CASE c.op \in {"consume", "logout"}
    <2>1. Ending(c, "revoke", t)
      BY <1>1, <1>2, <1>16 DEF Working
    <2>2. Ending(c, p, m)
      <3>1. \A y \in DOMAIN v : v[y] = "revoked"
        BY <1>4, <1>12, <2>1 DEF Ending
      <3>2. (d \ {x}) \cup DOMAIN v \subseteq Target(c)
        BY <1>4, <1>13, <2>1 DEF Ending
      <3>3. Target(c) \cap Live(rows) \subseteq (d \ {x}) \cup DOMAIN v
        BY <1>4, <1>13, <2>1 DEF Ending
      <3>4. p \in {"commit", "revoke"} /\ (p = "commit" => d \ {x} = {})
        BY <1>6
      <3>5. DOMAIN f = {}
        BY <1>4, <2>1 DEF Ending
      <3>6. QED
        BY <1>8, <3>1, <3>2, <3>3, <3>4, <3>5 DEF Ending
    <2>3. c.op = "logout" => LoggingOut(c, p, m)
      BY <1>1, <1>2, <1>4, <1>6, <1>8 DEF Working, LoggingOut, HoldsUser
    <2>4. c.op = "consume" => Consuming(c, p, m)
      BY <1>1, <1>2, <1>4, <1>6, <1>8 DEF Working, Consuming, HoldsUser, HoldsSid
    <2>5. Working(c, p, m)
      BY <1>6, <1>14, <1>16, <2>2, <2>3, <2>4 DEF Working, PlaceOf
    <2>6. QED
      BY <1>1, <1>2, <1>3, <1>4, <1>6, <1>7, <1>8, <2>5, Statement DEF Place
  <1>17. QED
    BY <1>9, <1>15, <1>16

LEMMA SpendTokenKeeps ==
  ASSUME IInv, NEW i \in Instance, SpendToken(i)
  PROVE  IInv'
  <1>1. /\ pc[i] = "token" /\ Granted(i)
        /\ cmd[i] \in Command /\ Working(cmd[i], "token", tx[i]) /\ Shape(tx[i])
    BY UnderWay DEF SpendToken
  <1>2. PICK c, t, n, k : c = cmd[i] /\ t = tx[i] /\ n = Locked(i) /\ k = c.on
    OBVIOUS
  <1>3. PICK h : h = t.held \cup Wants(i)
    OBVIOUS
  <1>4. n = Tx(h, t.changed, t.todo, t.spends, t.failures, t.gone)
    BY <1>1, <1>2, <1>3, LockedTx
  <1>5. /\ c.op = "consume" /\ Ending(c, "token", t) /\ Consuming(c, "token", t)
        /\ Guarded(c, t) /\ DOMAIN t.changed = {}
    BY <1>1, <1>2 DEF Working, PlaceOf, Ending
  <1>6. CASE k \in spent
    <2>1. PICK l, m : /\ l = t.held \cup Weak(i, "tokens")
                      /\ m = Tx(l, t.changed, t.todo, t.spends, t.failures, t.gone)
      OBVIOUS
    <2>2. Goto(i, "commit", m)
      <3>1. [tx[i] EXCEPT !.held = l] = m
        <4>1. [tx[i] EXCEPT !.held = l]
                = Tx(l, tx[i].changed, tx[i].todo, tx[i].spends, tx[i].failures, tx[i].gone)
          BY <1>1, OnePart
        <4>2. QED
          BY <1>1, <1>2, <2>1, <4>1
      <3>2. Goto(i, "commit", [t EXCEPT !.held = @ \cup Weak(i, "tokens")])
        BY <1>2, <1>6 DEF SpendToken
      <3>3. QED
        BY <1>2, <2>1, <3>1, <3>2
    <2>3. /\ m.held = l /\ m.changed = t.changed /\ m.todo = t.todo
          /\ m.spends = t.spends /\ m.failures = t.failures /\ Shape(m)
      BY <2>1, TxShape
    <2>4. Working(c, "commit", m)
      <3>1. Guarded(c, m)
        BY <1>5, <2>1, <2>3, GuardedMore
      <3>2. Ending(c, "commit", m)
        BY <1>2, <1>5, <1>6, <2>3 DEF Ending, Consuming
      <3>3. Consuming(c, "commit", m)
        BY <1>2, <1>5, <1>6, <2>1, <2>3 DEF Consuming, HoldsUser, HoldsSid
      <3>4. QED
        BY <1>5, <3>1, <3>2, <3>3 DEF Working, PlaceOf
    <2>5. l \subseteq tx[i].held \cup Wants(i)
      BY <1>1, <1>2, <2>1 DEF Wants
    <2>6. QED
      BY <1>1, <1>2, <2>2, <2>3, <2>4, <2>5, Statement DEF Granted, Place
  <1>7. CASE k \notin spent
    <2>1. PICK m : m = Tx(h, t.changed, t.todo, {k}, t.failures, t.gone)
      OBVIOUS
    <2>2. Goto(i, "select", m)
      <3>1. [n EXCEPT !.spends = {k}] = m
        <4>1. /\ Shape(n) /\ n.held = t.held \cup Wants(i) /\ n.changed = t.changed /\ n.todo = t.todo
              /\ n.spends = t.spends /\ n.failures = t.failures /\ n.gone = t.gone
          BY <1>1, <1>2, <1>3, <2>1, LockedTx
        <4>2. [n EXCEPT !.spends = {k}]
                = Tx(n.held, n.changed, n.todo, {k}, n.failures, n.gone)
          BY <4>1, OnePart
        <4>3. QED
          BY <1>1, <1>2, <1>3, <2>1, <4>1, <4>2
      <3>2. QED
        BY <1>2, <1>7, <3>1 DEF SpendToken
    <2>3. /\ m.held = h /\ m.changed = t.changed /\ m.todo = t.todo
          /\ m.spends = {k} /\ m.failures = t.failures /\ Shape(m)
      BY <2>1, TxShape
    <2>4. <<"token", k>> \in h
      BY <1>1, <1>2, <1>3 DEF Wants
    <2>5. Guarded(c, m)
      BY <1>5, <2>3, <2>4 DEF Guarded, Ending
    <2>6. Working(c, "select", m)
      BY <1>2, <1>3, <1>5, <1>7, <2>3, <2>5
         DEF Working, PlaceOf, Ending, Consuming, HoldsUser, HoldsSid
    <2>7. QED
      BY <1>1, <1>2, <1>3, <2>2, <2>3, <2>6, Statement DEF Granted, Place
  <1>8. QED
    BY <1>6, <1>7

LEMMA LookupKeeps ==
  ASSUME IInv, NEW i \in Instance, Lookup(i)
  PROVE  IInv'
  <1>1. /\ pc[i] = "lookup" /\ Granted(i) /\ Asked(cmd[i])
        /\ cmd[i] \in Command /\ Working(cmd[i], "lookup", tx[i]) /\ Shape(tx[i])
    BY UnderWay DEF Lookup
  <1>2. PICK c, t, n, x : c = cmd[i] /\ t = tx[i] /\ n = Locked(i) /\ x = c.on
    OBVIOUS
  <1>3. PICK h : h = t.held \cup Wants(i)
    OBVIOUS
  <1>4. n = Tx(h, t.changed, t.todo, t.spends, t.failures, t.gone)
    BY <1>1, <1>2, <1>3, LockedTx
  <1>5. PICK late \in SUBSET {x} :
          Goto(i, "commit", [n EXCEPT !.changed = [y \in late |-> "revoked"]])
    BY <1>2 DEF Lookup
  <1>6. PICK w : w = [y \in late |-> "revoked"]
    OBVIOUS
  <1>7. PICK m : m = Tx(h, w, t.todo, t.spends, t.failures, t.gone)
    OBVIOUS
  <1>8. Goto(i, "commit", m)
    <2>1. [n EXCEPT !.changed = w] = m
      <3>1. /\ Shape(n) /\ n.held = t.held \cup Wants(i) /\ n.changed = t.changed /\ n.todo = t.todo
            /\ n.spends = t.spends /\ n.failures = t.failures /\ n.gone = t.gone
        BY <1>1, <1>2, <1>3, <1>7, LockedTx
      <3>2. [n EXCEPT !.changed = w]
              = Tx(n.held, w, n.todo, n.spends, n.failures, n.gone)
        BY <3>1, OnePart
      <3>3. QED
        BY <1>1, <1>2, <1>3, <1>7, <3>1, <3>2
    <2>2. QED
      BY <1>5, <1>6, <2>1
  <1>9. /\ m.held = h /\ m.changed = w /\ m.todo = t.todo
        /\ m.spends = t.spends /\ m.failures = t.failures /\ Shape(m)
    BY <1>7, TxShape
  <1>10. c.op = "lookup" /\ LookingUp(c, "lookup", t)
    BY <1>1, <1>2 DEF Working, PlaceOf
  <1>11. x \in DOMAIN rows /\ HoldsRow(m, x)
    <2>1. x \in DOMAIN rows
      BY <1>1, <1>2, <1>10 DEF Asked
    <2>2. RowLock(x) \subseteq Wants(i)
      BY <1>1, <1>2 DEF Wants, SessionLock
    <2>3. QED
      BY <1>3, <1>9, <2>1, <2>2 DEF RowLock, HoldsRow
  <1>12. DOMAIN w \subseteq {x} /\ \A y \in DOMAIN w : w[y] = "revoked"
    BY <1>5, <1>6
  <1>13. Guarded(c, m)
    BY <1>9, <1>10, <1>11, <1>12 DEF Guarded, LookingUp
  <1>14. Working(c, "commit", m)
    BY <1>2, <1>9, <1>10, <1>12, <1>13 DEF Working, PlaceOf, LookingUp
  <1>15. QED
    BY <1>1, <1>2, <1>3, <1>8, <1>9, <1>14, Statement DEF Granted, Place

(* A statement that only takes a lock.                                     *)
LEMMA LockOnly ==
  ASSUME IInv, NEW i \in Instance, pc[i] \notin {"idle", "reconnect", "migrate"}, Granted(i),
         NEW p \in Place \ {"idle", "reconnect", "migrate"}, NEW n, n = Locked(i), Goto(i, p, n),
         \A m : /\ m.held = tx[i].held \cup Wants(i) /\ m.changed = tx[i].changed
                /\ m.todo = tx[i].todo /\ m.spends = tx[i].spends /\ m.failures = tx[i].failures
                => Working(cmd[i], p, m)
  PROVE  IInv'
  <1>1. n = Tx(tx[i].held \cup Wants(i), tx[i].changed, tx[i].todo, tx[i].spends, tx[i].failures, tx[i].gone)
    BY UnderWay, LockedTx
  <1>2. /\ n.held = tx[i].held \cup Wants(i) /\ n.changed = tx[i].changed
        /\ n.todo = tx[i].todo /\ n.spends = tx[i].spends /\ n.failures = tx[i].failures
        /\ Shape(n)
    BY <1>1, TxShape
  <1>3. Working(cmd[i], p, n)
    BY <1>2
  <1>4. QED
    BY <1>2, <1>3, Statement DEF Granted

LEMMA LockRowsKeeps ==
  ASSUME IInv, NEW i \in Instance, LockFirst(i) \/ LockSecond(i)
  PROVE  IInv'
  <1>1. PICK p : p = IF pc[i] = "first" THEN "second" ELSE "commit"
    OBVIOUS
  <1>2. pc[i] \in {"first", "second"} /\ Granted(i) /\ Goto(i, p, Locked(i))
    BY <1>1 DEF LockFirst, LockSecond
  <1>3. Working(cmd[i], pc[i], tx[i])
    BY <1>2, UnderWay
  <1>4. cmd[i].op = "recover" /\ Reading(tx[i])
    BY <1>2, <1>3 DEF Working, PlaceOf
  <1>5. ASSUME NEW m, m.held = tx[i].held \cup Wants(i), m.changed = tx[i].changed,
               m.todo = tx[i].todo, m.spends = tx[i].spends, m.failures = tx[i].failures
        PROVE  Working(cmd[i], p, m)
    BY <1>1, <1>2, <1>4, <1>5 DEF Working, PlaceOf, Guarded, Reading
  <1>6. QED
    BY <1>1, <1>2, <1>5, LockOnly DEF Place

(* The statements about the failures: the lock of the key comes first.     *)
LEMMA FailuresKeep ==
  ASSUME IInv, NEW i \in Instance, LockKey(i) \/ LoadFailures(i) \/ StoreFailures(i)
  PROVE  IInv'
  <1>1. /\ pc[i] \in {"key", "load", "store"} /\ Granted(i) /\ cmd[i] \in Command
        /\ Working(cmd[i], pc[i], tx[i]) /\ Shape(tx[i])
    BY UnderWay DEF LockKey, LoadFailures, StoreFailures
  <1>2. PICK c, t, n, k : c = cmd[i] /\ t = tx[i] /\ n = Locked(i) /\ k = c.on
    OBVIOUS
  <1>3. PICK h : h = t.held \cup Wants(i)
    OBVIOUS
  <1>4. n = Tx(h, t.changed, t.todo, t.spends, t.failures, t.gone)
    BY <1>1, <1>2, <1>3, LockedTx
  <1>5. c.op \in {"limited", "failure", "clear"} /\ Counting(c, pc[i], t)
    BY <1>1, <1>2 DEF Working, PlaceOf
  <1>6. <<"key", k>> \in h
    <2>1. CASE pc[i] = "key"
      <3>1. Wants(i) = {<<"key", k>>}
        BY <1>2, <2>1 DEF Wants, KeyLock
      <3>2. QED
        BY <1>3, <3>1
    <2>2. CASE pc[i] # "key"
      BY <1>2, <1>3, <1>5, <2>2 DEF Counting
    <2>3. QED
      BY <2>1, <2>2
  <1>7. ASSUME NEW f, NEW p \in {"load", "store", "stale", "commit"}, NEW m,
               m = Tx(h, t.changed, t.todo, t.spends, f, t.gone), Goto(i, p, m),
               p = "load" => c.op # "clear", p = "stale" => c.op = "failure",
               IF p = "load" THEN DOMAIN f = {} ELSE f = Count(k, Result(c))
        PROVE  IInv'
    <2>1. /\ m.held = h /\ m.changed = t.changed /\ m.todo = t.todo
          /\ m.spends = t.spends /\ m.failures = f /\ Shape(m)
      BY <1>7, TxShape
    <2>2. \A l \in DOMAIN f : l = k
      BY <1>7 DEF Count
    <2>3. Guarded(c, m)
      BY <1>5, <1>6, <2>1, <2>2 DEF Guarded, Counting
    <2>4. Counting(c, p, m)
      BY <1>2, <1>5, <1>6, <1>7, <2>1 DEF Counting
    <2>5. Working(c, p, m)
      BY <1>5, <1>7, <2>3, <2>4 DEF Working, PlaceOf
    <2>6. QED
      BY <1>1, <1>2, <1>3, <1>7, <2>1, <2>5, Statement DEF Granted, Place
  <1>8. ASSUME NEW p \in {"store"}, NEW f, f = Count(k, Result(c)),
               Goto(i, p, [n EXCEPT !.failures = f])
        PROVE  IInv'
    <2>1. PICK m : m = Tx(h, t.changed, t.todo, t.spends, f, t.gone)
      OBVIOUS
    <2>2. [n EXCEPT !.failures = f] = m
      <3>1. /\ Shape(n) /\ n.held = t.held \cup Wants(i) /\ n.changed = t.changed /\ n.todo = t.todo
            /\ n.spends = t.spends /\ n.failures = t.failures /\ n.gone = t.gone
        BY <1>1, <1>2, <1>3, <2>1, LockedTx
      <3>2. [n EXCEPT !.failures = f]
              = Tx(n.held, n.changed, n.todo, n.spends, f, n.gone)
        BY <3>1, OnePart
      <3>3. QED
        BY <1>1, <1>2, <1>3, <2>1, <3>1, <3>2
    <2>3. QED
      BY <1>7, <1>8, <2>1, <2>2
  <1>9. CASE LockKey(i)
    <2>1. CASE c.op = "clear"
      <3>1. Result(c) = 0
        BY <2>1 DEF Result
      <3>2. QED
        BY <1>2, <1>8, <1>9, <2>1, <3>1 DEF LockKey
    <2>2. CASE c.op # "clear"
      <3>1. Goto(i, "load", n) /\ DOMAIN t.failures = {}
        BY <1>2, <1>5, <1>9, <2>2 DEF LockKey, Counting
      <3>2. QED
        BY <1>4, <1>7, <2>2, <3>1
    <2>3. QED
      BY <2>1, <2>2
  <1>10. CASE LoadFailures(i)
    <2>1. c.op \in {"limited", "failure"}
      BY <1>1, <1>2, <1>10 DEF LoadFailures, Working, PlaceOf
    <2>2. Result(c) = IF c.op = "failure" THEN failures[k] + 1 ELSE failures[k]
      BY <1>2, <2>1 DEF Result
    <2>3. QED
      BY <1>2, <1>8, <1>10, <2>2 DEF LoadFailures
  <1>11. CASE StoreFailures(i)
    <2>1. Goto(i, IF c.op = "failure" THEN "stale" ELSE "commit", n)
      BY <1>2, <1>11 DEF StoreFailures
    <2>2. t.failures = Count(k, Result(c))
      BY <1>2, <1>5, <1>11 DEF StoreFailures, Counting
    <2>3. QED
      BY <1>4, <1>7, <2>1, <2>2
  <1>12. QED
    BY <1>9, <1>10, <1>11

(* The rows of other accounts: what the transaction counted stays.         *)
LEMMA StaleKeeps ==
  ASSUME IInv, NEW i \in Instance, FindStale(i) \/ DropRow(i)
  PROVE  IInv'
  <1>1. /\ pc[i] \in {"stale", "drop"} /\ cmd[i] \in Command
        /\ Working(cmd[i], pc[i], tx[i]) /\ Shape(tx[i])
    BY UnderWay DEF FindStale, DropRow
  <1>2. PICK c, t : c = cmd[i] /\ t = tx[i]
    OBVIOUS
  <1>3. c.op = "failure" /\ Counting(c, pc[i], t) /\ Guarded(c, t)
    BY <1>1, <1>2 DEF Working, PlaceOf
  <1>4. ASSUME NEW L, Free(i, L), NEW D, NEW g, NEW p \in {"drop", "commit"}, NEW m,
               m = Tx(t.held \cup L, t.changed, D, t.spends, t.failures, g), Goto(i, p, m)
        PROVE  IInv'
    <2>1. /\ m.held = t.held \cup L /\ m.changed = t.changed
          /\ m.spends = t.spends /\ m.failures = t.failures /\ Shape(m)
      BY <1>4, TxShape
    <2>2. Guarded(c, m) /\ Counting(c, p, m)
      BY <1>1, <1>3, <1>4, <2>1 DEF Guarded, Counting
    <2>3. Working(c, p, m)
      BY <1>3, <1>4, <2>2 DEF Working, PlaceOf
    <2>4. QED
      BY <1>1, <1>2, <1>4, <2>1, <2>3, Statement DEF Place
  <1>5. CASE FindStale(i)
    <2>1. PICK X, p : /\ p = IF X = {} THEN "commit" ELSE "drop"
                      /\ Goto(i, p, [t EXCEPT !.todo = X])
      BY <1>2, <1>5 DEF FindStale
    <2>2. PICK m : m = Tx(t.held, t.changed, X, t.spends, t.failures, t.gone)
      OBVIOUS
    <2>3. Goto(i, p, m)
      <3>1. [t EXCEPT !.todo = X]
              = Tx(t.held, t.changed, X, t.spends, t.failures, t.gone)
        BY <1>1, <1>2, OnePart
      <3>2. QED
        BY <2>1, <2>2, <3>1
    <2>4. t.held \cup {} = t.held
      OBVIOUS
    <2>5. m = Tx(t.held \cup {}, t.changed, X, t.spends, t.failures, t.gone)
      BY <2>2, <2>4
    <2>6. QED
      BY <1>4, <2>1, <2>3, <2>5, NothingWanted
  <1>6. CASE DropRow(i)
    <2>1. PICK k : /\ Free(i, LimitLock(k))
                   /\ Goto(i, IF t.todo = {k} THEN "commit" ELSE "drop",
                           [t EXCEPT !.todo = @ \ {k}, !.held = @ \cup LimitLock(k),
                                     !.gone = @ \cup ({k} \cap stale)])
      BY <1>2, <1>6 DEF DropRow
    <2>2. PICK p, L, H, D, g : /\ p = IF t.todo = {k} THEN "commit" ELSE "drop"
                               /\ L = LimitLock(k) /\ H = t.held \cup L
                               /\ D = t.todo \ {k} /\ g = t.gone \cup ({k} \cap stale)
      OBVIOUS
    <2>3. Goto(i, p, [t EXCEPT !.todo = D, !.held = H, !.gone = g])
      BY <2>1, <2>2
    <2>4. PICK m : m = Tx(H, t.changed, D, t.spends, t.failures, g)
      OBVIOUS
    <2>5. Goto(i, p, m)
      <3>1. Shape(t)
        BY <1>1, <1>2
      <3>2. [t EXCEPT !.todo = D, !.held = H, !.gone = g]
              = Tx(H, t.changed, D, t.spends, t.failures, g)
        <4>1. PICK b, e : b = [t EXCEPT !.todo = D] /\ e = [b EXCEPT !.held = H]
          OBVIOUS
        <4>2. b = Tx(t.held, t.changed, D, t.spends, t.failures, t.gone)
          <5>1. [t EXCEPT !.todo = D] = Tx(t.held, t.changed, D, t.spends, t.failures, t.gone)
            BY <3>1, OnePart
          <5>2. QED
            BY <4>1, <5>1
        <4>3. /\ Shape(b) /\ b.held = t.held /\ b.changed = t.changed /\ b.todo = D
              /\ b.spends = t.spends /\ b.failures = t.failures /\ b.gone = t.gone
          BY <4>2, TxShape
        <4>4. [b EXCEPT !.held = H] = Tx(H, b.changed, b.todo, b.spends, b.failures, b.gone)
          BY <4>3, OnePart
        <4>5. /\ Shape(e) /\ e.held = H /\ e.changed = t.changed /\ e.todo = D
              /\ e.spends = t.spends /\ e.failures = t.failures /\ e.gone = t.gone
          BY <4>1, <4>3, <4>4, TxShape
        <4>6. [e EXCEPT !.gone = g] = Tx(e.held, e.changed, e.todo, e.spends, e.failures, g)
          BY <4>5, OnePart
        <4>7. [e EXCEPT !.gone = g] = [t EXCEPT !.todo = D, !.held = H, !.gone = g]
          BY <4>1
        <4>8. QED
          BY <4>5, <4>6, <4>7
      <3>3. QED
        BY <2>3, <2>4, <3>2
    <2>6. QED
      BY <1>4, <2>1, <2>2, <2>4, <2>5
  <1>7. QED
    BY <1>5, <1>6

-----------------------------------------------------------------------------
(* The statements of an import.                                            *)

LEMMA AgendaParts ==
  ASSUME NEW c, NEW s, s = Contents[c.on]
  PROVE  /\ \A y \in DOMAIN s.sessions :
              /\ <<"user", UserOf(y)>> \in Ahead(c) /\ <<"row", y>> \in Agenda(c)
              /\ SidOf(y) # None => <<"sid", SidOf(y)>> \in Ahead(c)
         /\ \A k \in s.tokens : <<"token", k>> \in Agenda(c)
         /\ \A k \in DOMAIN s.counts : <<"key", k>> \in Ahead(c) /\ <<"failures", k>> \in Agenda(c)
         /\ \A a \in Agenda(c) :
              /\ a[1] \in {"sid", "user", "key", "row", "token", "failures"}
              /\ a[1] = "row" => a = <<"row", a[2]>> /\ a[2] \in DOMAIN s.sessions
              /\ a[1] = "token" => a = <<"token", a[2]>> /\ a[2] \in s.tokens
              /\ a[1] = "failures" => a = <<"failures", a[2]>> /\ a[2] \in DOMAIN s.counts
  BY DEF Agenda, Ahead

LEMMA UpcomingParts ==
  ASSUME NEW i \in Instance, NEW a \in Upcoming(i)
  PROVE  /\ a \in Agenda(cmd[i])
         /\ a[1] \in {"row", "token", "failures"} => Ahead(cmd[i]) \subseteq tx[i].held
         /\ \A l \in ItemLock(i, a) : l = a \/ l[1] \in {"sessions", "tokens", "limits"}
         /\ a \in ItemLock(i, a)
  <1>1. a \in Agenda(cmd[i]) /\ \A b \in Agenda(cmd[i]) \ tx[i].held : Before(a, b)
    BY DEF Upcoming
  <1>2. ASSUME a[1] \in {"row", "token", "failures"}, NEW b \in Ahead(cmd[i]), b \notin tx[i].held
        PROVE  FALSE
    <2>1. Before(a, b) /\ b[1] \in {"sid", "user", "key"}
      BY <1>1, <1>2 DEF Ahead
    <2>2. Rank[a[1]] < Rank[b[1]] \/ a[1] = b[1]
      BY <2>1 DEF Before
    <2>3. Rank[a[1]] \in {4, 5, 6}
      BY <1>2 DEF Rank
    <2>4. Rank[b[1]] \in {1, 2, 3}
      BY <2>1 DEF Rank
    <2>5. QED
      BY <1>2, <2>1, <2>2, <2>3, <2>4
  <1>3. \A l \in ItemLock(i, a) : l = a \/ l[1] \in {"sessions", "tokens", "limits"}
    BY <1>1, AgendaParts DEF ItemLock, Weak
  <1>4. a \in ItemLock(i, a)
    BY DEF ItemLock
  <1>5. QED
    BY <1>1, <1>2, <1>3, <1>4

LEMMA ImportGuarded ==
  ASSUME NEW c \in Command, c.op = "import", NEW p, NEW t, Importing(c, p, t)
  PROVE  Guarded(c, t)
  <1>1. PICK s : s = Contents[c.on]
    OBVIOUS
  <1>2. /\ DOMAIN s.sessions \subseteq Token
        /\ \A y \in DOMAIN s.sessions : s.sessions[y] \in {"live", "revoked"}
    BY <1>1, CommandParts, ContentsAssumption
  <1>3. ASSUME NEW y \in DOMAIN t.changed
        PROVE  /\ HoldsRow(t, y)
               /\ \/ t.changed[y] = "revoked"
                  \/ /\ t.changed[y] = "live" /\ y \in Token
                     /\ HoldsUser(t, UserOf(y)) /\ HoldsSid(t, SidOf(y))
    <2>1. /\ y \in DOMAIN s.sessions /\ HoldsRow(t, y) /\ Ahead(c) \subseteq t.held
          /\ t.changed[y] = Merged(rows, s.sessions, y)
      BY <1>1, <1>3 DEF Importing
    <2>2. t.changed[y] \in {"live", "revoked"}
      BY <1>2, <2>1 DEF Merged
    <2>3. HoldsUser(t, UserOf(y)) /\ HoldsSid(t, SidOf(y))
      BY <1>1, <2>1, AgendaParts DEF HoldsUser, HoldsSid
    <2>4. QED
      BY <1>2, <2>1, <2>2, <2>3
  <1>4. \A k \in t.spends : <<"token", k>> \in t.held
    BY DEF Importing
  <1>5. ASSUME NEW k \in DOMAIN t.failures
        PROVE  <<"key", k>> \in t.held
    <2>1. k \in DOMAIN s.counts /\ Ahead(c) \subseteq t.held
      BY <1>1, <1>5 DEF Importing
    <2>2. QED
      BY <1>1, <2>1, AgendaParts
  <1>6. QED
    BY <1>3, <1>4, <1>5 DEF Guarded

(* An item is locked, and written if it is a row.                          *)
LEMMA ItemKeeps ==
  ASSUME IInv, NEW i \in Instance, pc[i] = "import", NEW a \in Upcoming(i),
         NEW L, L = ItemLock(i, a), Free(i, L),
         NEW m, Shape(m), m.held = tx[i].held \cup L, Goto(i, "import", m),
         Importing(cmd[i], "import", m)
  PROVE  IInv'
  <1>1. cmd[i] \in Command /\ Working(cmd[i], "import", tx[i])
    BY UnderWay
  <1>2. cmd[i].op = "import"
    BY <1>1 DEF Working, PlaceOf
  <1>3. Guarded(cmd[i], m)
    BY <1>1, <1>2, ImportGuarded
  <1>4. Working(cmd[i], "import", m)
    BY <1>2, <1>3 DEF Working, PlaceOf
  <1>5. QED
    BY <1>4, Statement DEF Place

LEMMA ImportKeeps ==
  ASSUME IInv, NEW i \in Instance,
         LockAhead(i) \/ ImportSession(i) \/ ImportToken(i) \/ ImportLimit(i)
  PROVE  IInv'
  <1>1. pc[i] = "import" /\ cmd[i] \in Command /\ Working(cmd[i], "import", tx[i]) /\ Shape(tx[i])
    BY UnderWay DEF LockAhead, ImportSession, ImportToken, ImportLimit
  <1>2. PICK c, t, s : c = cmd[i] /\ t = tx[i] /\ s = Contents[c.on]
    OBVIOUS
  <1>3. c.op = "import" /\ Importing(c, "import", t)
    BY <1>1, <1>2 DEF Working, PlaceOf
  <1>4. CASE LockAhead(i)
    <2>1. PICK a \in Upcoming(i) :
            /\ a[1] \in {"sid", "user", "key"} /\ Free(i, ItemLock(i, a))
            /\ Goto(i, "import", [t EXCEPT !.held = @ \cup ItemLock(i, a)])
      BY <1>2, <1>4 DEF LockAhead
    <2>2. PICK L, H, m : /\ L = ItemLock(i, a) /\ H = t.held \cup L
                         /\ m = Tx(H, t.changed, t.todo, t.spends, t.failures, t.gone)
      OBVIOUS
    <2>3. Goto(i, "import", m)
      <3>1. Goto(i, "import", [t EXCEPT !.held = H])
        BY <2>1, <2>2
      <3>2. [t EXCEPT !.held = H]
              = Tx(H, t.changed, t.todo, t.spends, t.failures, t.gone)
        BY <1>1, <1>2, OnePart
      <3>3. QED
        BY <2>2, <3>1, <3>2
    <2>4. /\ m.held = H /\ m.changed = t.changed /\ m.spends = t.spends
          /\ m.failures = t.failures /\ Shape(m)
      BY <2>2, TxShape
    <2>5. \A l \in H : l \in t.held \/ l = a \/ l[1] \in {"sessions", "tokens", "limits"}
      BY <2>2, UpcomingParts
    <2>6. \A v : /\ HoldsRow(m, v) => HoldsRow(t, v)
                 /\ <<"token", v>> \in H => <<"token", v>> \in t.held
                 /\ <<"failures", v>> \in H => <<"failures", v>> \in t.held
      BY <2>1, <2>4, <2>5 DEF HoldsRow
    <2>7. t.held \subseteq H
      BY <2>2
    <2>8. Importing(c, "import", m)
      BY <1>3, <2>4, <2>6, <2>7 DEF Importing, HoldsRow
    <2>9. QED
      BY <1>1, <1>2, <2>1, <2>2, <2>3, <2>4, <2>8, ItemKeeps
  <1>5. CASE ImportSession(i)
    <2>1. PICK a \in Upcoming(i) :
            /\ a[1] = "row" /\ Free(i, ItemLock(i, a))
            /\ Goto(i, "import", [t EXCEPT !.held = @ \cup ItemLock(i, a),
                 !.changed = Update(@, [y \in {a[2]} |-> Merged(rows, s.sessions, y)])])
      BY <1>2, <1>5 DEF ImportSession
    <2>2. PICK L, H, x : L = ItemLock(i, a) /\ H = t.held \cup L /\ x = a[2]
      OBVIOUS
    <2>3. PICK w : w = Update(t.changed, [y \in {x} |-> Merged(rows, s.sessions, y)])
      OBVIOUS
    <2>4. PICK m : m = Tx(H, w, t.todo, t.spends, t.failures, t.gone)
      OBVIOUS
    <2>5. Goto(i, "import", m)
      <3>1. Goto(i, "import", [t EXCEPT !.held = H, !.changed = w])
        BY <2>1, <2>2, <2>3
      <3>0. Shape(t)
        BY <1>1, <1>2
      <3>2. [t EXCEPT !.held = H, !.changed = w]
              = Tx(H, w, t.todo, t.spends, t.failures, t.gone)
        BY <3>0, TwoParts
      <3>3. QED
        BY <2>4, <3>1, <3>2
    <2>6. /\ m.held = H /\ m.changed = w /\ m.spends = t.spends
          /\ m.failures = t.failures /\ Shape(m)
      BY <2>4, TxShape
    <2>7. a = <<"row", x>> /\ x \in DOMAIN s.sessions /\ Ahead(c) \subseteq t.held /\ a \in L
      BY <1>2, <2>1, <2>2, UpcomingParts, AgendaParts
    <2>8. \A l \in H : l \in t.held \/ l = a \/ l[1] \in {"sessions", "tokens", "limits"}
      BY <2>2, UpcomingParts
    <2>9. \A v : /\ HoldsRow(m, v) => HoldsRow(t, v) \/ v = x
                 /\ <<"token", v>> \in H => <<"token", v>> \in t.held
                 /\ <<"failures", v>> \in H => <<"failures", v>> \in t.held
      BY <2>6, <2>7, <2>8 DEF HoldsRow
    <2>10. t.held \subseteq H /\ HoldsRow(m, x)
      BY <2>2, <2>6, <2>7 DEF HoldsRow
    <2>11. /\ DOMAIN w = DOMAIN t.changed \cup {x} /\ w[x] = Merged(rows, s.sessions, x)
           /\ \A y \in DOMAIN t.changed : y # x => w[y] = t.changed[y]
      BY <2>3 DEF Update
    <2>12. Importing(c, "import", m)
      <3>1. DOMAIN w \subseteq DOMAIN s.sessions
        BY <1>2, <1>3, <2>7, <2>11 DEF Importing
      <3>2. ASSUME NEW y \in DOMAIN w
            PROVE  HoldsRow(m, y) /\ w[y] = Merged(rows, s.sessions, y)
        <4>1. CASE y = x
          BY <2>10, <2>11, <4>1
        <4>2. CASE y # x
          BY <1>2, <1>3, <2>6, <2>10, <2>11, <4>2 DEF Importing, HoldsRow
        <4>3. QED
          BY <4>1, <4>2
      <3>3. \A y \in DOMAIN s.sessions : HoldsRow(m, y) => y \in DOMAIN w
        BY <1>2, <1>3, <2>9, <2>11 DEF Importing
      <3>4. Ahead(c) \subseteq H
        BY <2>7, <2>10
      <3>5. QED
        BY <1>2, <1>3, <2>6, <2>9, <2>10, <3>1, <3>2, <3>3, <3>4 DEF Importing
    <2>13. QED
      BY <1>1, <1>2, <2>1, <2>2, <2>5, <2>6, <2>12, ItemKeeps
  <1>6. CASE ImportToken(i)
    <2>1. PICK a \in Upcoming(i) :
            /\ a[1] = "token" /\ Free(i, ItemLock(i, a))
            /\ Goto(i, "import", [t EXCEPT !.held = @ \cup ItemLock(i, a),
                                           !.spends = @ \cup {a[2]}])
      BY <1>2, <1>6 DEF ImportToken
    <2>2. PICK L, H, k, S : L = ItemLock(i, a) /\ H = t.held \cup L /\ k = a[2] /\ S = t.spends \cup {k}
      OBVIOUS
    <2>3. PICK m : m = Tx(H, t.changed, t.todo, S, t.failures, t.gone)
      OBVIOUS
    <2>4. Goto(i, "import", m)
      <3>1. Goto(i, "import", [t EXCEPT !.held = H, !.spends = S])
        BY <2>1, <2>2
      <3>0. Shape(t)
        BY <1>1, <1>2
      <3>2. [t EXCEPT !.held = H, !.spends = S]
              = Tx(H, t.changed, t.todo, S, t.failures, t.gone)
        BY <3>0, TwoParts
      <3>3. QED
        BY <2>3, <3>1, <3>2
    <2>5. /\ m.held = H /\ m.changed = t.changed /\ m.spends = S
          /\ m.failures = t.failures /\ Shape(m)
      BY <2>3, TxShape
    <2>6. a = <<"token", k>> /\ k \in s.tokens /\ Ahead(c) \subseteq t.held /\ a \in L
      BY <1>2, <2>1, <2>2, UpcomingParts, AgendaParts
    <2>7. \A l \in H : l \in t.held \/ l = a \/ l[1] \in {"sessions", "tokens", "limits"}
      BY <2>2, UpcomingParts
    <2>8. \A v : /\ HoldsRow(m, v) => HoldsRow(t, v)
                 /\ <<"token", v>> \in H => <<"token", v>> \in t.held \/ v = k
                 /\ <<"failures", v>> \in H => <<"failures", v>> \in t.held
      BY <2>5, <2>6, <2>7 DEF HoldsRow
    <2>9. t.held \subseteq H /\ <<"token", k>> \in H
      BY <2>2, <2>6
    <2>10. Importing(c, "import", m)
      <3>1. S \subseteq s.tokens /\ \A l \in S : <<"token", l>> \in H
        BY <1>2, <1>3, <2>2, <2>6, <2>9 DEF Importing
      <3>2. \A l \in s.tokens : <<"token", l>> \in H => l \in S
        BY <1>2, <1>3, <2>2, <2>8 DEF Importing
      <3>3. Ahead(c) \subseteq H
        BY <2>6, <2>9
      <3>4. QED
        BY <1>2, <1>3, <2>5, <2>8, <2>9, <3>1, <3>2, <3>3 DEF Importing, HoldsRow
    <2>11. QED
      BY <1>1, <1>2, <2>1, <2>2, <2>4, <2>5, <2>10, ItemKeeps
  <1>7. CASE ImportLimit(i)
    <2>1. PICK a \in Upcoming(i) :
            /\ a[1] = "failures" /\ Free(i, ItemLock(i, a))
            /\ \E n \in 1..(failures[a[2]] + s.counts[a[2]]) :
                 Goto(i, "import", [t EXCEPT !.held = @ \cup ItemLock(i, a),
                                             !.failures = Update(@, Count(a[2], n))])
      BY <1>2, <1>7 DEF ImportLimit
    <2>2. PICK L, H, k : L = ItemLock(i, a) /\ H = t.held \cup L /\ k = a[2]
      OBVIOUS
    <2>3. PICK n \in 1..(failures[k] + s.counts[k]) :
            Goto(i, "import", [t EXCEPT !.held = @ \cup L, !.failures = Update(@, Count(k, n))])
      BY <2>1, <2>2
    <2>4. PICK F, m : F = Update(t.failures, Count(k, n))
                      /\ m = Tx(H, t.changed, t.todo, t.spends, F, t.gone)
      OBVIOUS
    <2>5. Goto(i, "import", m)
      <3>1. Goto(i, "import", [t EXCEPT !.held = H, !.failures = F])
        BY <2>2, <2>3, <2>4
      <3>0. Shape(t)
        BY <1>1, <1>2
      <3>2. [t EXCEPT !.held = H, !.failures = F]
              = Tx(H, t.changed, t.todo, t.spends, F, t.gone)
        BY <3>0, TwoParts
      <3>3. QED
        BY <2>4, <3>1, <3>2
    <2>6. /\ m.held = H /\ m.changed = t.changed /\ m.spends = t.spends
          /\ m.failures = F /\ Shape(m)
      BY <2>4, TxShape
    <2>7. a = <<"failures", k>> /\ k \in DOMAIN s.counts /\ Ahead(c) \subseteq t.held /\ a \in L
      BY <1>2, <2>1, <2>2, UpcomingParts, AgendaParts
    <2>8. \A l \in H : l \in t.held \/ l = a \/ l[1] \in {"sessions", "tokens", "limits"}
      BY <2>2, UpcomingParts
    <2>9. \A v : /\ HoldsRow(m, v) => HoldsRow(t, v)
                 /\ <<"token", v>> \in H => <<"token", v>> \in t.held
                 /\ <<"failures", v>> \in H => <<"failures", v>> \in t.held \/ v = k
      BY <2>6, <2>7, <2>8 DEF HoldsRow
    <2>10. t.held \subseteq H
      BY <2>2
    <2>11. /\ DOMAIN F = DOMAIN t.failures \cup {k} /\ F[k] = n
           /\ \A l \in DOMAIN t.failures : l # k => F[l] = t.failures[l]
      BY <2>4 DEF Update, Count
    <2>12. Importing(c, "import", m)
      <3>1. DOMAIN F \subseteq DOMAIN s.counts
        BY <1>2, <1>3, <2>7, <2>11 DEF Importing
      <3>2. ASSUME NEW l \in DOMAIN F
            PROVE  F[l] \in 1..(failures[l] + s.counts[l])
        <4>1. CASE l = k
          BY <2>3, <2>11, <4>1
        <4>2. CASE l # k
          BY <1>2, <1>3, <2>11, <4>2 DEF Importing
        <4>3. QED
          BY <4>1, <4>2
      <3>3. \A l \in DOMAIN s.counts : <<"failures", l>> \in H => l \in DOMAIN F
        BY <1>2, <1>3, <2>9, <2>11 DEF Importing
      <3>4. Ahead(c) \subseteq H
        BY <2>7, <2>10
      <3>5. QED
        BY <1>2, <1>3, <2>6, <2>9, <2>10, <3>1, <3>2, <3>3, <3>4 DEF Importing, HoldsRow
    <2>13. QED
      BY <1>1, <1>2, <2>1, <2>2, <2>5, <2>6, <2>12, ItemKeeps
  <1>8. QED
    BY <1>4, <1>5, <1>6, <1>7

LEMMA ImportDoneKeeps ==
  ASSUME IInv, NEW i \in Instance, ImportDone(i)
  PROVE  IInv'
  <1>1. /\ pc[i] = "import" /\ Working(cmd[i], "import", tx[i]) /\ Shape(tx[i])
        /\ Agenda(cmd[i]) \subseteq tx[i].held /\ Goto(i, "commit", tx[i])
    BY UnderWay DEF ImportDone
  <1>2. Importing(cmd[i], "commit", tx[i])
    BY <1>1 DEF Working, PlaceOf, Importing
  <1>3. Working(cmd[i], "commit", tx[i])
    BY <1>1, <1>2 DEF Working, PlaceOf
  <1>4. QED
    BY <1>1, <1>3, NothingWanted, Statement DEF Place

(* A migration writes nothing.                                             *)
LEMMA MigrateKeeps ==
  ASSUME IInv, NEW i \in Instance, Migrate(i)
  PROVE  IInv'
  <1>1. /\ pc[i] = "migrate" /\ Free(i, Wants(i)) /\ Goto(i, "migrate", Locked(i))
        /\ Exclusive /\ Sane(cmd[i], "migrate", tx[i])
    BY DEF Migrate, Granted, IInv
  <1>2. PICK n : n = Locked(i)
    OBVIOUS
  <1>3. Shape(n) /\ n.held = tx[i].held \cup Wants(i)
    BY <1>1, <1>2, LockedTx DEF Sane
  <1>4. Sane(cmd[i], "migrate", n)
    BY <1>1, <1>3 DEF Sane
  <1>5. \A j \in Instance \ {i} : n.held \cap tx[j].held = {}
    BY <1>1, <1>3, NoLockShared
  <1>6. QED
    BY <1>1, <1>2, <1>4, <1>5, GotoKeeps

LEMMA WorkElsewhereKeeps ==
  ASSUME IInv, NEW i \in Instance, WorkElsewhere(i)
  PROVE  IInv'
  <1>1. /\ pc[i] = "other" /\ Working(cmd[i], "other", tx[i]) /\ Shape(tx[i])
        /\ Goto(i, "commit", tx[i])
    BY UnderWay DEF WorkElsewhere
  <1>2. Working(cmd[i], "commit", tx[i])
    BY <1>1 DEF Working, PlaceOf
  <1>3. QED
    BY <1>1, <1>2, NothingWanted, Statement DEF Place

-----------------------------------------------------------------------------
(* A commit is a call of SessionTable, or changes nothing.                 *)

LEMMA CommittedRows ==
  ASSUME IInv, NEW i \in Instance, Committed(i), NEW w, w = tx[i].changed
  PROVE  /\ DOMAIN rows' = DOMAIN rows \cup DOMAIN w
         /\ \A y \in DOMAIN rows' : rows'[y] = IF y \in DOMAIN w THEN w[y] ELSE rows[y]
         /\ DOMAIN w = {} => rows' = rows
  <1>1. rows' = [y \in DOMAIN rows \cup DOMAIN w |-> IF y \in DOMAIN w THEN w[y] ELSE rows[y]]
    BY DEF Committed, Update
  <1>2. rows = [y \in DOMAIN rows |-> rows[y]]
    BY DEF IInv, TableOK
  <1>3. QED
    BY <1>1, <1>2

(* A commit of revocations is a call that ends a set of rows.              *)
LEMMA CommittedEnds ==
  ASSUME IInv, NEW i \in Instance, Committed(i), NEW w, w = tx[i].changed,
         \A y \in DOMAIN w : w[y] = "revoked" /\ y \in DOMAIN rows,
         NEW X, DOMAIN w \subseteq X, X \cap Live(rows) \subseteq DOMAIN w
  PROVE  rows' = Ended(rows, X)
  <1>1. rows' = [y \in DOMAIN rows \cup DOMAIN w |-> IF y \in DOMAIN w THEN w[y] ELSE rows[y]]
    BY DEF Committed, Update
  <1>2. \A y \in DOMAIN rows : rows[y] \in {"live", "revoked"}
    BY DEF IInv, TableOK
  <1>3. \A y \in DOMAIN rows :
          (IF y \in DOMAIN w THEN w[y] ELSE rows[y]) = IF y \in X THEN "revoked" ELSE rows[y]
    BY <1>2 DEF Live
  <1>4. DOMAIN rows \cup DOMAIN w = DOMAIN rows
    OBVIOUS
  <1>5. rows' = [y \in DOMAIN rows |-> IF y \in DOMAIN w THEN w[y] ELSE rows[y]]
    BY <1>1, <1>4
  <1>6. QED
    BY <1>3, <1>5 DEF Ended

LEMMA CommittedCounts ==
  ASSUME IInv, NEW i \in Instance, Committed(i), NEW n, n = tx[i].failures
  PROVE  /\ failures \in [Key -> Nat] /\ tally \in [Key -> Nat]
         /\ DOMAIN failures' = Key \cup DOMAIN n
         /\ \A k \in DOMAIN failures' : failures'[k] = IF k \in DOMAIN n THEN n[k] ELSE failures[k]
         /\ DOMAIN n = {} => failures' = failures
  <1>1. failures \in [Key -> Nat] /\ tally \in [Key -> Nat]
    BY DEF IInv, TableOK
  <1>2. failures' = [k \in DOMAIN failures \cup DOMAIN n |->
                       IF k \in DOMAIN n THEN n[k] ELSE failures[k]]
    BY DEF Committed, Update
  <1>3. failures = [k \in Key |-> failures[k]]
    BY <1>1
  <1>4. QED
    BY <1>1, <1>2, <1>3

LEMMA CreateCommits ==
  ASSUME IInv, NEW i \in Instance, pc[i] = "commit", Committed(i), cmd[i].op = "create"
  PROVE  [TableNext]_table
  <1>1. PICK c, t, x, u, w :
          c = cmd[i] /\ t = tx[i] /\ x = c.on /\ u = UserOf(x) /\ w = t.changed
    OBVIOUS
  <1>2. /\ c \in Command /\ Asked(c) /\ Creating(c, "commit", t)
        /\ x \in Token /\ DOMAIN rows \subseteq Token
        /\ \A y \in DOMAIN rows : rows[y] \in {"live", "revoked"}
    BY <1>1, UnderWay, CommandParts DEF Working, IInv, TableOK
  <1>3. UNCHANGED <<spent, failures, tally, closed>>
    <2>1. DOMAIN t.failures = {} /\ t.spends = {}
      BY <1>2 DEF Creating
    <2>2. failures' = failures
      BY <1>1, <2>1, CommittedCounts
    <2>3. QED
      BY <1>1, <1>2, <2>1, <2>2 DEF Committed
  <1>4. /\ DOMAIN rows' = DOMAIN rows \cup DOMAIN w
        /\ rows' = [y \in DOMAIN rows \cup DOMAIN w |-> IF y \in DOMAIN w THEN w[y] ELSE rows[y]]
        /\ DOMAIN w = {} => rows' = rows
    <2>1. w = tx[i].changed
      BY <1>1
    <2>2. rows' = [y \in DOMAIN rows \cup DOMAIN w |-> IF y \in DOMAIN w THEN w[y] ELSE rows[y]]
      BY <2>1 DEF Committed, Update
    <2>3. DOMAIN w = {} => rows' = rows
      BY <2>1, CommittedRows
    <2>4. QED
      BY <2>2, <2>3
  <1>5. CASE DOMAIN w = {}
    <2>1. brought' = brought \ {UserOf(y) : y \in DOMAIN w}
      BY <1>1 DEF Committed
    <2>2. brought' = brought
      BY <1>5, <2>1
    <2>3. QED
      BY <1>3, <1>4, <1>5, <2>2 DEF table
  <1>6. CASE DOMAIN w # {}
    <2>1. /\ x \in DOMAIN w /\ w[x] = "live" /\ x \notin DOMAIN rows
          /\ \A y \in DOMAIN w \ {x} : w[y] = "revoked" /\ UserOf(y) = u
          /\ x[2] = 0 \/ (Pred(x) \in Live(rows) /\ Pred(x) \in DOMAIN w)
          /\ Cardinality(LiveOf(rows, u) \ DOMAIN w) < MaxConcurrent
      <3>1. Inserting(c, "commit", t) /\ t.todo = {}
        BY <1>1, <1>2, <1>6 DEF Creating
      <3>2. t.todo \cup DOMAIN w = DOMAIN w
        BY <3>1
      <3>3. QED
        BY <1>1, <3>1, <3>2 DEF Inserting
    <2>2. DOMAIN w \subseteq DOMAIN rows \cup {x}
      <3>1. Guarded(c, t) /\ c.op = "create"
        BY <1>1, UnderWay DEF Working
      <3>2. QED
        BY <1>1, <3>1 DEF Guarded
    <2>3. PICK kept : kept = LiveOf(rows, u) \ DOMAIN w
      OBVIOUS
    <2>0. brought' = brought \ {u}
      <3>1. brought' = brought \ {UserOf(y) : y \in DOMAIN w}
        BY <1>1 DEF Committed
      <3>2. {UserOf(y) : y \in DOMAIN w} = {u}
        BY <1>1, <2>1
      <3>3. QED
        BY <3>1, <3>2
    <2>4. ASSUME NEW all, DOMAIN all = DOMAIN rows,
                 \A y \in DOMAIN rows : all[y] = rows[y] \/ (all[y] = "revoked" /\ y \in DOMAIN w)
          PROVE  Insert(all, x)
      <3>1. kept \in SUBSET LiveOf(all, u)
        BY <2>3, <2>4 DEF LiveOf, Live
      <3>2. DOMAIN rows \cup DOMAIN w = DOMAIN all \cup {x}
        BY <2>1, <2>2, <2>4
      <3>3. ASSUME NEW y \in DOMAIN all \cup {x}
            PROVE  (IF y \in DOMAIN w THEN w[y] ELSE rows[y])
                     = IF y = x THEN "live"
                       ELSE IF y \in LiveOf(all, u) \ kept THEN "revoked" ELSE all[y]
        <4>1. CASE y = x
          BY <2>1, <4>1
        <4>2. CASE y # x /\ y \in DOMAIN w
          <5>1. y \in DOMAIN rows /\ w[y] = "revoked" /\ UserOf(y) = u /\ y \notin kept
            BY <2>1, <2>2, <2>3, <4>2
          <5>2. all[y] = "revoked" \/ all[y] = "live"
            BY <1>2, <2>4, <5>1
          <5>3. all[y] = "live" => y \in LiveOf(all, u)
            BY <2>4, <5>1 DEF LiveOf, Live
          <5>4. QED
            BY <4>2, <5>1, <5>2, <5>3
        <4>3. CASE y # x /\ y \notin DOMAIN w
          <5>1. y \in DOMAIN rows /\ all[y] = rows[y]
            BY <2>4, <3>3, <4>3
          <5>2. y \in LiveOf(all, u) => y \in kept
            BY <2>3, <2>4, <4>3, <5>1 DEF LiveOf, Live
          <5>3. QED
            BY <4>3, <5>1, <5>2
        <4>4. QED
          BY <4>1, <4>2, <4>3
      <3>4. rows' = [y \in DOMAIN all \cup {x} |->
                       IF y \in DOMAIN w THEN w[y] ELSE rows[y]]
        BY <1>4, <3>2
      <3>5. rows' = [y \in DOMAIN all \cup {x} |->
                       IF y = x THEN "live"
                       ELSE IF y \in LiveOf(all, u) \ kept THEN "revoked" ELSE all[y]]
        BY <3>3, <3>4
      <3>6. QED
        BY <1>1, <2>0, <2>1, <2>3, <3>1, <3>5 DEF Insert
    <2>5. CASE x[2] = 0
      <3>1. x = <<x[1], 0>> /\ x[1] \in Family
        BY <1>2, <2>5, TokenParts
      <3>2. \A y \in DOMAIN rows : y[1] # x[1]
        BY <1>1, <1>2, <2>1, <2>5 DEF Asked
      <3>3. Insert(rows, x)
        BY <2>4
      <3>4. Login(x[1])
        BY <1>3, <3>1, <3>2, <3>3 DEF Login
      <3>5. QED
        BY <3>1, <3>4 DEF TableNext
    <2>6. CASE x[2] # 0
      <3>1. PICK q : q = Pred(x)
        OBVIOUS
      <3>2. q \in Live(rows) /\ q \in DOMAIN w /\ q \in Token
        BY <1>2, <2>1, <2>6, <3>1 DEF Live
      <3>3. Succ(q) = x
        BY <1>2, <3>1, TokenParts DEF Succ, Pred
      <3>4. PICK all : all = Ended(rows, {q})
        OBVIOUS
      <3>5. /\ DOMAIN all = DOMAIN rows
            /\ \A y \in DOMAIN rows : all[y] = rows[y] \/ (all[y] = "revoked" /\ y \in DOMAIN w)
        BY <3>2, <3>4 DEF Ended
      <3>6. Insert(all, x)
        BY <2>4, <3>5
      <3>7. Rotate(q)
        BY <1>2, <1>3, <2>1, <3>2, <3>3, <3>4, <3>6 DEF Rotate
      <3>8. QED
        BY <3>2, <3>7 DEF TableNext
    <2>7. QED
      BY <2>5, <2>6
  <1>7. QED
    BY <1>5, <1>6

LEMMA EndingCommits ==
  ASSUME IInv, NEW i \in Instance, pc[i] = "commit", Committed(i),
         cmd[i].op \in {"consume", "logout", "lookup"}
  PROVE  [TableNext]_table
  <1>1. PICK c, t, w : c = cmd[i] /\ t = tx[i] /\ w = t.changed
    OBVIOUS
  <1>2. c \in Command /\ Asked(c) /\ Working(c, "commit", t)
    BY <1>1, UnderWay
  <1>3. UNCHANGED <<failures, tally, brought>>
    <2>1. DOMAIN t.failures = {}
      BY <1>1, <1>2 DEF Working, Ending, LookingUp
    <2>2. failures' = failures
      BY <1>1, <2>1, CommittedCounts
    <2>3. QED
      BY <1>1, <2>2 DEF Committed
  <1>4. \A y \in DOMAIN w : w[y] = "revoked" /\ y \in DOMAIN rows
    BY <1>1, <1>2 DEF Working, Guarded, Ending, LookingUp
  <1>5. CASE c.op = "logout"
    <2>1. PICK f : f = c.on[1]
      OBVIOUS
    <2>2. f \in Family /\ c.on \in DOMAIN rows
      BY <1>2, <1>5, <2>1, CommandParts, TokenParts DEF Asked
    <2>3. /\ Target(c) = {x \in DOMAIN rows : x[1] = f}
          /\ DOMAIN w \subseteq Target(c) /\ Target(c) \cap Live(rows) \subseteq DOMAIN w
      BY <1>1, <1>2, <1>5, <2>1 DEF Working, Ending, Target
    <2>4. rows' = Ended(rows, {x \in DOMAIN rows : x[1] = f})
      BY <1>1, <1>4, <2>3, CommittedEnds
    <2>5. spent' = spent /\ closed' = closed \cup {f}
      BY <1>1, <1>2, <1>5, <2>1 DEF Committed, Working, LoggingOut
    <2>6. Logout(f)
      BY <1>3, <2>1, <2>2, <2>4, <2>5 DEF Logout
    <2>7. QED
      BY <2>2, <2>6 DEF TableNext
  <1>6. CASE c.op = "consume"
    <2>1. PICK k : k = c.on
      OBVIOUS
    <2>2. closed' = closed /\ spent' = spent \cup t.spends
      BY <1>1, <1>6 DEF Committed
    <2>3. CASE t.spends = {}
      <3>1. DOMAIN w = {}
        BY <1>1, <1>2, <1>6, <2>3 DEF Working, Consuming
      <3>2. rows' = rows
        BY <1>1, <3>1, CommittedRows
      <3>3. QED
        BY <1>3, <2>2, <2>3, <3>2 DEF table
    <2>4. CASE t.spends # {}
      <3>1. t.spends = {k} /\ k \notin spent /\ k \in LogoutToken
        BY <1>2, <1>6, <2>1, <2>4, CommandParts DEF Working, Consuming
      <3>2. /\ Target(c) = Named(rows, k)
            /\ DOMAIN w \subseteq Target(c) /\ Target(c) \cap Live(rows) \subseteq DOMAIN w
        BY <1>1, <1>2, <1>6, <2>1, <2>4 DEF Working, Ending, Target
      <3>3. rows' = Ended(rows, Named(rows, k))
        BY <1>1, <1>4, <3>2, CommittedEnds
      <3>4. Consume(k)
        BY <1>3, <2>2, <3>1, <3>3 DEF Consume
      <3>5. QED
        BY <3>1, <3>4 DEF TableNext
    <2>5. QED
      BY <2>3, <2>4
  <1>7. CASE c.op = "lookup"
    <2>1. PICK x : x = c.on
      OBVIOUS
    <2>2. x \in Token /\ DOMAIN w \subseteq {x}
      BY <1>1, <1>2, <1>7, <2>1, CommandParts DEF Working, LookingUp
    <2>3. UNCHANGED <<spent, failures, tally, closed, brought>>
      BY <1>1, <1>2, <1>3, <1>7 DEF Committed, Working, LookingUp
    <2>4. CASE DOMAIN w = {}
      <3>1. rows' = rows
        BY <1>1, <2>4, CommittedRows
      <3>2. QED
        BY <2>3, <3>1 DEF table
    <2>5. CASE DOMAIN w = {x}
      <3>1. rows' = Ended(rows, {x})
        BY <1>1, <1>4, <2>5, CommittedEnds
      <3>2. Lapse(x)
        BY <2>3, <3>1 DEF Lapse
      <3>3. QED
        BY <2>2, <3>2 DEF TableNext
    <2>6. QED
      BY <2>2, <2>4, <2>5
  <1>8. QED
    BY <1>1, <1>5, <1>6, <1>7

LEMMA CountingCommits ==
  ASSUME IInv, NEW i \in Instance, pc[i] = "commit", Committed(i),
         cmd[i].op \in {"limited", "failure", "clear", "recover", "other"}
  PROVE  [TableNext]_table
  <1>1. PICK c, t : c = cmd[i] /\ t = tx[i]
    OBVIOUS
  <1>2. c \in Command /\ Working(c, "commit", t)
    BY <1>1, UnderWay
  <1>3. DOMAIN t.changed = {} /\ t.spends = {}
    BY <1>1, <1>2 DEF Working, Counting, Reading
  <1>4. rows' = rows
    BY <1>1, <1>3, CommittedRows
  <1>5. UNCHANGED <<rows, spent, closed, brought>>
    BY <1>1, <1>3, <1>4 DEF Committed
  <1>6. CASE c.op \in {"limited", "failure", "clear"}
    <2>1. PICK k, n : k = c.on /\ n = Result(c)
      OBVIOUS
    <2>2. k \in Key
      BY <1>2, <1>6, <2>1, CommandParts
    <2>3. t.failures = Count(k, n)
      BY <1>2, <1>6, <2>1 DEF Working, Counting
    <2>4. /\ failures \in [Key -> Nat] /\ tally \in [Key -> Nat]
          /\ failures' = [l \in Key |-> IF l = k THEN n ELSE failures[l]]
      <3>1. failures \in [Key -> Nat] /\ tally \in [Key -> Nat]
        BY <1>1, CommittedCounts
      <3>2. failures' = [l \in DOMAIN failures \cup DOMAIN t.failures |->
                           IF l \in DOMAIN t.failures THEN t.failures[l] ELSE failures[l]]
        BY <1>1 DEF Committed, Update
      <3>3. DOMAIN t.failures = {k} /\ t.failures[k] = n
        BY <2>3 DEF Count
      <3>4. DOMAIN failures \cup DOMAIN t.failures = Key
        BY <2>2, <3>1, <3>3
      <3>5. failures' = [l \in Key |-> IF l \in DOMAIN t.failures THEN t.failures[l] ELSE failures[l]]
        BY <3>2, <3>4
      <3>6. \A l \in Key : (IF l \in DOMAIN t.failures THEN t.failures[l] ELSE failures[l])
                             = IF l = k THEN n ELSE failures[l]
        BY <3>3
      <3>7. QED
        BY <3>1, <3>5, <3>6
    <2>5. CASE c.op = "failure"
      <3>1. n = failures[k] + 1
        BY <2>1, <2>5 DEF Result
      <3>2. tally' = [tally EXCEPT ![k] = @ + 1]
        BY <1>1, <2>1, <2>5 DEF Committed
      <3>3. failures' = [failures EXCEPT ![k] = @ + 1]
        BY <2>2, <2>4, <3>1
      <3>4. RecordFailure(k)
        BY <1>5, <3>2, <3>3 DEF RecordFailure
      <3>5. QED
        BY <2>2, <3>4 DEF TableNext
    <2>6. CASE c.op = "clear"
      <3>1. n = 0
        BY <2>1, <2>6 DEF Result
      <3>2. tally' = [tally EXCEPT ![k] = 0]
        BY <1>1, <2>1, <2>6 DEF Committed
      <3>3. failures' = [failures EXCEPT ![k] = 0]
        BY <2>2, <2>4, <3>1
      <3>4. ClearFailures(k)
        BY <1>5, <3>2, <3>3 DEF ClearFailures
      <3>5. QED
        BY <2>2, <3>4 DEF TableNext
    <2>7. CASE c.op = "limited"
      <3>1. n = failures[k] /\ tally' = tally
        BY <1>1, <2>1, <2>7 DEF Result, Committed
      <3>2. \A l \in Key : (IF l = k THEN n ELSE failures[l]) = failures[l]
        BY <3>1
      <3>3. failures' = [l \in Key |-> failures[l]]
        BY <2>4, <3>2
      <3>4. failures' = failures
        BY <2>4, <3>3
      <3>5. QED
        BY <1>5, <3>1, <3>4 DEF table
    <2>8. QED
      BY <1>6, <2>5, <2>6, <2>7
  <1>7. CASE c.op \in {"recover", "other"}
    <2>1. DOMAIN t.failures = {}
      BY <1>2, <1>7 DEF Working, Reading
    <2>2. failures' = failures
      BY <1>1, <2>1, CommittedCounts
    <2>3. tally' = tally
      BY <1>1, <1>7 DEF Committed
    <2>4. QED
      BY <1>5, <2>2, <2>3 DEF table
  <1>8. QED
    BY <1>1, <1>6, <1>7

(* An import that holds all it asked for has written all of the snapshot.  *)
LEMMA ImportCommits ==
  ASSUME IInv, NEW i \in Instance, pc[i] = "commit", Committed(i), cmd[i].op = "import"
  PROVE  [TableNext]_table
  <1>1. PICK c, t, s, new, w : /\ c = cmd[i] /\ t = tx[i] /\ s = c.on /\ w = t.changed
                               /\ new = Contents[s].sessions
    OBVIOUS
  <1>2. /\ c \in Command /\ Importing(c, "commit", t) /\ s \in Snapshot
        /\ Agenda(c) \subseteq t.held
    <2>1. c \in Command /\ Working(c, "commit", t)
      BY <1>1, UnderWay
    <2>2. QED
      BY <1>1, <2>1, CommandParts DEF Working, Importing
  <1>3. DOMAIN w = DOMAIN new /\ \A y \in DOMAIN w : w[y] = Merged(rows, new, y)
    <2>1. DOMAIN w \subseteq DOMAIN new /\ \A y \in DOMAIN w : w[y] = Merged(rows, new, y)
      BY <1>1, <1>2 DEF Importing
    <2>2. \A y \in DOMAIN new : <<"row", y>> \in Agenda(c)
      BY <1>1, AgendaParts
    <2>3. \A y \in DOMAIN new : y \in DOMAIN w
      BY <1>1, <1>2, <2>2 DEF Importing, HoldsRow
    <2>4. QED
      BY <2>1, <2>3
  <1>4. t.spends = Contents[s].tokens
    <2>1. t.spends \subseteq Contents[s].tokens
      BY <1>1, <1>2 DEF Importing
    <2>2. \A k \in Contents[s].tokens : <<"token", k>> \in Agenda(c)
      BY <1>1, AgendaParts
    <2>3. \A k \in Contents[s].tokens : k \in t.spends
      BY <1>1, <1>2, <2>2 DEF Importing
    <2>4. QED
      BY <2>1, <2>3
  <1>5. PICK counts, n : counts = Contents[s].counts /\ n = t.failures
    OBVIOUS
  <1>6. DOMAIN n = DOMAIN counts /\ \A k \in DOMAIN n : n[k] \in 1..(failures[k] + counts[k])
    <2>1. /\ DOMAIN n \subseteq DOMAIN counts
          /\ \A k \in DOMAIN n : n[k] \in 1..(failures[k] + counts[k])
      BY <1>1, <1>2, <1>5 DEF Importing
    <2>2. \A k \in DOMAIN counts : <<"failures", k>> \in Agenda(c)
      BY <1>1, <1>5, AgendaParts
    <2>3. \A k \in DOMAIN counts : k \in DOMAIN n
      BY <1>1, <1>2, <1>5, <2>2 DEF Importing
    <2>4. QED
      BY <2>1, <2>3
  <1>7. DOMAIN counts \subseteq Key /\ \A k \in DOMAIN counts : counts[k] \in Nat
    BY <1>2, <1>5, ContentsAssumption
  <1>8. rows' = Update(rows, [x \in DOMAIN new |-> Merged(rows, new, x)])
    <2>1. rows' = [y \in DOMAIN rows \cup DOMAIN w |-> IF y \in DOMAIN w THEN w[y] ELSE rows[y]]
      BY <1>1 DEF Committed, Update
    <2>2. \A y \in DOMAIN rows \cup DOMAIN w :
            (IF y \in DOMAIN w THEN w[y] ELSE rows[y])
              = IF y \in DOMAIN new THEN Merged(rows, new, y) ELSE rows[y]
      BY <1>3
    <2>3. rows' = [y \in DOMAIN rows \cup DOMAIN new |->
                     IF y \in DOMAIN new THEN Merged(rows, new, y) ELSE rows[y]]
      BY <1>3, <2>1, <2>2
    <2>4. Update(rows, [x \in DOMAIN new |-> Merged(rows, new, x)])
            = [y \in DOMAIN rows \cup DOMAIN new |->
                 IF y \in DOMAIN new THEN Merged(rows, new, y) ELSE rows[y]]
      BY DEF Update
    <2>5. QED
      BY <2>3, <2>4
  <1>9. /\ failures \in [Key -> Nat] /\ tally \in [Key -> Nat]
        /\ DOMAIN failures' = Key
        /\ \A k \in Key : failures'[k] = IF k \in DOMAIN n THEN n[k] ELSE failures[k]
    BY <1>1, <1>5, <1>6, <1>7, CommittedCounts
  <1>10. failures' \in [Key -> Nat]
    <2>1. failures' = [k \in Key |-> failures'[k]]
      <3>1. failures' = Update(failures, n)
        BY <1>1, <1>5 DEF Committed
      <3>2. QED
        BY <1>9, <3>1 DEF Update
    <2>2. ASSUME NEW k \in Key
          PROVE  failures'[k] \in Nat
      <3>1. CASE k \in DOMAIN n
        <4>1. n[k] \in 1..(failures[k] + counts[k]) /\ failures[k] \in Nat /\ counts[k] \in Nat
          BY <1>6, <1>7, <1>9, <3>1
        <4>2. QED
          BY <1>9, <3>1, <4>1
      <3>2. CASE k \notin DOMAIN n
        BY <1>9, <3>2
      <3>3. QED
        BY <3>1, <3>2
    <2>3. QED
      BY <2>1, <2>2
  <1>11. MergedCounts(s, failures')
    BY <1>5, <1>6, <1>9 DEF MergedCounts
  <1>12. tally' = [k \in Key |-> IF k \in DOMAIN Contents[s].counts THEN failures'[k] ELSE tally[k]]
    <2>1. tally' = [k \in DOMAIN tally \cup DOMAIN n |-> IF k \in DOMAIN n THEN n[k] ELSE tally[k]]
      BY <1>1, <1>5 DEF Committed, Update
    <2>2. DOMAIN tally \cup DOMAIN n = Key
      BY <1>6, <1>7, <1>9
    <2>3. \A k \in Key : (IF k \in DOMAIN n THEN n[k] ELSE tally[k])
                           = IF k \in DOMAIN counts THEN failures'[k] ELSE tally[k]
      BY <1>6, <1>9
    <2>4. QED
      BY <1>5, <2>1, <2>2, <2>3
  <1>13. /\ spent' = spent \cup Contents[s].tokens /\ closed' = closed
         /\ brought' = brought \cup {UserOf(x) : x \in DOMAIN new}
    BY <1>1, <1>3, <1>4 DEF Committed
  <1>14. Import(s)
    BY <1>1, <1>8, <1>10, <1>11, <1>12, <1>13 DEF Import
  <1>15. QED
    BY <1>2, <1>14 DEF TableNext

LEMMA CommitIsCall ==
  ASSUME IInv, NEW i \in Instance, pc[i] = "commit", Committed(i)
  PROVE  [TableNext]_table
  <1>1. cmd[i] \in Command
    BY UnderWay
  <1>2. QED
    BY <1>1, CommandParts, CreateCommits, EndingCommits, CountingCommits, ImportCommits

-----------------------------------------------------------------------------
(* What the commit of one transaction leaves to the others.                *)

Undisturbed(t) ==
  /\ DOMAIN rows \subseteq DOMAIN rows'
  /\ \A y : HoldsRow(t, y) => /\ y \in DOMAIN rows' <=> y \in DOMAIN rows
                              /\ y \in DOMAIN rows => rows'[y] = rows[y]
  /\ \A y \in Live(rows') \ Live(rows) :
       /\ y \in Token /\ ~HoldsUser(t, UserOf(y))
       /\ SidOf(y) # None => ~HoldsSid(t, SidOf(y))
  /\ \A k \in spent' \ spent : <<"token", k>> \notin t.held
  /\ \A k \in Key : <<"key", k>> \in t.held => failures'[k] = failures[k]

Grows ==
  /\ DOMAIN rows \subseteq DOMAIN rows' /\ DOMAIN rows' \subseteq Token
  /\ drawn \subseteq drawn'
  /\ \A y \in DOMAIN rows' \ DOMAIN rows :
       y[1] \in drawn /\ (y[2] = 0 \/ Abroad(y[1]) \/ \E x \in DOMAIN rows : x[1] = y[1])

LEMMA AskedGrows ==
  ASSUME Grows, NEW c \in Command, Asked(c)
  PROVE  Asked(c)'
  <1>1. c.op \in {"create", "lookup", "recover", "logout"} => c.on \in Token
    BY CommandParts
  <1>2. ASSUME c.op = "create", c.on[2] = 0, NEW y \in DOMAIN rows', y[1] = c.on[1]
        PROVE  c.on \in DOMAIN rows'
    <2>1. CASE \E x \in DOMAIN rows : x[1] = c.on[1]
      BY <1>2, <2>1 DEF Asked, Grows
    <2>2. CASE ~ \E x \in DOMAIN rows : x[1] = c.on[1]
      <3>0. ~Abroad(c.on[1])
        BY <1>2 DEF Asked
      <3>1. y \in Token /\ y[2] = 0
        BY <1>2, <2>2, <3>0 DEF Grows
      <3>2. y = c.on
        BY <1>1, <1>2, <3>1, TokenParts
      <3>3. QED
        BY <1>2, <3>2
    <2>3. QED
      BY <2>1, <2>2
  <1>3. c.op = "create" => c.on[2] \in Nat
    BY <1>1, TokenParts
  <1>4. QED
    BY <1>2, <1>3 DEF Asked, Grows, Abroad

LEMMA CommitGrows ==
  ASSUME IInv, NEW i \in Instance, pc[i] = "commit", Committed(i), UNCHANGED drawn
  PROVE  TableOK' /\ Grows
  <1>1. TableOK'
    BY CommitIsCall, TypeStep DEF IInv
  <1>2. PICK c, t : c = cmd[i] /\ t = tx[i]
    OBVIOUS
  <1>3. c \in Command /\ Asked(c) /\ Working(c, "commit", t)
    BY <1>2, UnderWay
  <1>4. DOMAIN rows' = DOMAIN rows \cup DOMAIN t.changed
    <2>1. PICK w : w = tx[i].changed
      OBVIOUS
    <2>2. DOMAIN rows' = DOMAIN rows \cup DOMAIN w
      BY <2>1, CommittedRows
    <2>3. QED
      BY <1>2, <2>1, <2>2
  <1>5. ASSUME NEW y \in DOMAIN t.changed \ DOMAIN rows
        PROVE  y[1] \in drawn /\ (y[2] = 0 \/ Abroad(y[1]) \/ \E x \in DOMAIN rows : x[1] = y[1])
    <2>1. CASE c.op = "create" /\ c.on = y
      <3>1. Inserting(c, "commit", t)
        BY <1>3, <1>5, <2>1 DEF Working, Creating
      <3>2. y[2] = 0 \/ (Pred(y) \in DOMAIN rows /\ Pred(y)[1] = y[1])
        BY <2>1, <3>1 DEF Inserting, Live, Pred
      <3>3. QED
        BY <1>3, <2>1, <3>2 DEF Asked
    <2>2. CASE c.op = "import"
      <3>1. c.on \in Snapshot /\ y \in DOMAIN Contents[c.on].sessions
        BY <1>3, <1>5, <2>2, CommandParts DEF Working, Importing
      <3>2. QED
        BY <3>1 DEF IInv, Families, Abroad
    <2>3. QED
      BY <1>3, <1>5, <2>1, <2>2 DEF Working, Guarded
  <1>6. QED
    BY <1>1, <1>4, <1>5 DEF Grows, TableOK

LEMMA CommitLeaves ==
  ASSUME IInv, NEW i \in Instance, pc[i] = "commit", Committed(i),
         NEW j \in Instance \ {i}
  PROVE  Undisturbed(tx[j])
  <1>1. PICK c, s, t : c = cmd[i] /\ s = tx[i] /\ t = tx[j]
    OBVIOUS
  <1>2. /\ c \in Command /\ Working(c, "commit", s) /\ Guarded(c, s)
        /\ \A l : ~(l \in s.held /\ l \in t.held)
    BY <1>1, UnderWay DEF Working, Exclusive
  <1>3. /\ DOMAIN rows' = DOMAIN rows \cup DOMAIN s.changed
        /\ \A y \in DOMAIN rows' :
             rows'[y] = IF y \in DOMAIN s.changed THEN s.changed[y] ELSE rows[y]
    <2>1. PICK w : w = tx[i].changed
      OBVIOUS
    <2>2. /\ DOMAIN rows' = DOMAIN rows \cup DOMAIN w
          /\ \A y \in DOMAIN rows' : rows'[y] = IF y \in DOMAIN w THEN w[y] ELSE rows[y]
      BY <2>1, CommittedRows
    <2>3. QED
      BY <1>1, <2>1, <2>2
  <1>4. ASSUME NEW y, HoldsRow(t, y)
        PROVE  y \notin DOMAIN s.changed
    BY <1>2, <1>4 DEF Guarded, HoldsRow
  <1>5. ASSUME NEW y \in Live(rows') \ Live(rows)
        PROVE  /\ y \in Token /\ ~HoldsUser(t, UserOf(y))
               /\ SidOf(y) # None => ~HoldsSid(t, SidOf(y))
    <2>1. y \in DOMAIN s.changed /\ s.changed[y] = "live"
      BY <1>3, <1>5 DEF Live
    <2>2. y \in Token /\ HoldsUser(s, UserOf(y)) /\ HoldsSid(s, SidOf(y))
      BY <1>2, <2>1 DEF Guarded
    <2>3. QED
      BY <1>2, <2>2 DEF HoldsUser, HoldsSid
  <1>6. ASSUME NEW k \in spent' \ spent
        PROVE  <<"token", k>> \notin t.held
    <2>1. k \in s.spends
      BY <1>1, <1>6 DEF Committed
    <2>2. QED
      BY <1>2, <2>1 DEF Guarded
  <1>7. ASSUME NEW k \in Key, <<"key", k>> \in t.held
        PROVE  failures'[k] = failures[k]
    <2>1. k \notin DOMAIN s.failures
      BY <1>2, <1>7 DEF Guarded
    <2>2. PICK n : n = s.failures
      OBVIOUS
    <2>3. /\ DOMAIN failures' = Key \cup DOMAIN n
          /\ \A l \in DOMAIN failures' : failures'[l] = IF l \in DOMAIN n THEN n[l] ELSE failures[l]
      BY <1>1, <2>2, CommittedCounts
    <2>4. QED
      BY <2>1, <2>2, <2>3
  <1>8. QED
    BY <1>1, <1>3, <1>4, <1>5, <1>6, <1>7 DEF Undisturbed

(* What it relied on still holds.                                          *)
LEMMA InsertingStays ==
  ASSUME NEW c, NEW p, NEW t, Inserting(c, p, t), Guarded(c, t), Undisturbed(t), TableOK,
         HoldsUser(t, UserOf(c.on))
  PROVE  Inserting(c, p, t)'
  <1>1. PICK x, u, W : x = c.on /\ u = UserOf(x) /\ W = t.todo \cup DOMAIN t.changed
    OBVIOUS
  <1>2. \A y \in DOMAIN t.changed : /\ y \in DOMAIN rows' <=> y \in DOMAIN rows
                                    /\ y \in DOMAIN rows => rows'[y] = rows[y]
    BY DEF Guarded, Undisturbed
  <1>3. x \notin DOMAIN rows'
    BY <1>1, <1>2 DEF Inserting
  <1>4. x[2] = 0 \/ (Pred(x) \in Live(rows') /\ Pred(x) \in DOMAIN t.changed)
    BY <1>1, <1>2 DEF Inserting, Live
  <1>5. t.todo \subseteq {y \in DOMAIN rows' : UserOf(y) = u}
    BY <1>1 DEF Inserting, Undisturbed
  <1>6. ASSUME p # "prune"
        PROVE  Cardinality(LiveOf(rows', u) \ W) < MaxConcurrent
    <2>1. LiveOf(rows', u) \subseteq LiveOf(rows, u)
      BY <1>1 DEF LiveOf, Undisturbed
    <2>2. IsFiniteSet(LiveOf(rows, u) \ W)
      BY TokenFinite, FS_Subset DEF TableOK, LiveOf, Live
    <2>3. /\ IsFiniteSet(LiveOf(rows', u) \ W)
          /\ Cardinality(LiveOf(rows', u) \ W) <= Cardinality(LiveOf(rows, u) \ W)
      BY <2>1, <2>2, FS_Subset
    <2>4. Cardinality(LiveOf(rows, u) \ W) < MaxConcurrent
      BY <1>1, <1>6 DEF Inserting
    <2>5. QED
      BY <2>2, <2>3, <2>4, FS_CardinalityType, CapAssumption
  <1>7. QED
    BY <1>1, <1>3, <1>4, <1>5, <1>6 DEF Inserting

LEMMA CreatingStays ==
  ASSUME NEW c, NEW p, NEW t, Creating(c, p, t), Guarded(c, t), Undisturbed(t), TableOK
  PROVE  Creating(c, p, t)'
  <1>1. ASSUME p \in {"prune", "revoke"} \/ DOMAIN t.changed # {}
        PROVE  Inserting(c, p, t)'
    BY <1>1, InsertingStays DEF Creating
  <1>2. p = "insert" => c.on[2] = 0 \/ (Pred(c.on) \in Live(rows') /\ HoldsRow(t, Pred(c.on)))
    BY DEF Creating, Undisturbed, Live
  <1>3. QED
    BY <1>1, <1>2 DEF Creating

LEMMA EndingStays ==
  ASSUME NEW c \in Command, NEW p, NEW t, c.op \in {"consume", "logout"}, Undisturbed(t),
         Ending(c, p, t), c.op = "logout" => LoggingOut(c, p, t),
         c.op = "consume" => Consuming(c, p, t)
  PROVE  Ending(c, p, t)'
  <1>1. Target(c) \subseteq Target(c)'
    BY DEF Target, Named, Undisturbed
  <1>2. ASSUME p = "revoke" \/ p = "commit", NEW y \in Target(c)', y \in Live(rows')
        PROVE  y \in Target(c) /\ y \in Live(rows)
    <2>1. y \in Live(rows)
      <3>1. SUFFICES ASSUME y \notin Live(rows) PROVE FALSE
        OBVIOUS
      <3>2. /\ y \in Token /\ ~HoldsUser(t, UserOf(y))
            /\ SidOf(y) # None => ~HoldsSid(t, SidOf(y))
        BY <1>2, <3>1 DEF Undisturbed
      <3>3. CASE c.op = "logout"
        <4>1. UserOf(y) = UserOf(c.on)
          BY <1>2, <3>3 DEF Target, UserOf
        <4>2. QED
          BY <1>2, <3>2, <3>3, <4>1 DEF LoggingOut
      <3>4. CASE c.op = "consume"
        <4>1. PICK k : k = c.on
          OBVIOUS
        <4>2. /\ SidOf(y) # None /\ Claims[k].sid \in {None, SidOf(y)}
              /\ Claims[k].user \in {None, UserOf(y)}
          BY <1>2, <3>4, <4>1 DEF Target, Named
        <4>3. HoldsSid(t, Claims[k].sid) /\ (Claims[k].user # None => HoldsUser(t, Claims[k].user))
          BY <1>2, <3>4, <4>1 DEF Consuming
        <4>4. Claims[k].user # None \/ Claims[k].sid # None
          BY <3>4, <4>1, CommandParts, ClaimsAssumption
        <4>5. QED
          BY <3>2, <4>2, <4>3, <4>4
      <3>5. QED
        BY <3>3, <3>4
    <2>2. QED
      BY <1>2, <2>1 DEF Target, Named, Live
  <1>3. QED
    BY <1>1, <1>2 DEF Ending

LEMMA ImportingStays ==
  ASSUME NEW c \in Command, NEW p, NEW t, c.op = "import", Importing(c, p, t), Guarded(c, t),
         Undisturbed(t)
  PROVE  Importing(c, p, t)'
  <1>1. PICK s : s = Contents[c.on]
    OBVIOUS
  <1>2. c.on \in Snapshot
    BY CommandParts
  <1>3. DOMAIN s.counts \subseteq Key
    BY <1>1, <1>2, ContentsAssumption
  <1>4. ASSUME NEW y \in DOMAIN t.changed
        PROVE  Merged(rows', s.sessions, y) = Merged(rows, s.sessions, y)
    <2>1. HoldsRow(t, y)
      BY <1>4 DEF Guarded
    <2>2. QED
      BY <2>1 DEF Undisturbed, Merged
  <1>5. \A k \in DOMAIN t.failures : failures'[k] = failures[k]
    <2>1. \A k \in DOMAIN t.failures : k \in Key
      BY <1>1, <1>3 DEF Importing
    <2>2. QED
      BY <2>1 DEF Guarded, Undisturbed
  <1>6. /\ \A y \in DOMAIN t.changed : HoldsRow(t, y) /\ t.changed[y] = Merged(rows', s.sessions, y)
        /\ \A k \in DOMAIN t.failures : t.failures[k] \in 1..(failures'[k] + s.counts[k])
    BY <1>1, <1>4, <1>5 DEF Importing
  <1>7. QED
    BY <1>1, <1>6 DEF Importing

LEMMA SaneStays ==
  ASSUME NEW c, NEW p, NEW t, Sane(c, p, t), Undisturbed(t), Grows, TableOK
  PROVE  Sane(c, p, t)'
  <1>1. p # "idle" => Asked(c)'
    BY AskedGrows DEF Sane
  <1>2. ASSUME p \notin {"idle", "reconnect", "migrate"}
        PROVE  Working(c, p, t)'
    <2>1. c \in Command /\ Working(c, p, t) /\ Guarded(c, t)
      BY <1>2 DEF Sane, Working
    <2>2. Guarded(c, t)'
      BY <2>1 DEF Guarded, Undisturbed
    <2>3. c.op = "create" => Creating(c, p, t)'
      BY <2>1, CreatingStays DEF Working
    <2>4. c.op \in {"consume", "logout"} => Ending(c, p, t)'
      BY <2>1, EndingStays DEF Working
    <2>5. c.op = "consume" => Consuming(c, p, t)'
      <3>1. \A k \in t.spends : k \notin spent => k \notin spent'
        BY <2>1 DEF Guarded, Undisturbed
      <3>2. QED
        BY <2>1, <3>1 DEF Working, Consuming
    <2>6. c.op \in {"limited", "failure", "clear"} => Counting(c, p, t)'
      <3>1. SUFFICES ASSUME c.op \in {"limited", "failure", "clear"}
                     PROVE  Counting(c, p, t)'
        OBVIOUS
      <3>2. Counting(c, p, t) /\ c.on \in Key
        BY <2>1, <3>1, CommandParts DEF Working
      <3>3. p # "key" => Result(c)' = Result(c)
        BY <3>2 DEF Counting, Undisturbed, Result
      <3>4. QED
        BY <3>2, <3>3 DEF Counting
    <2>7. c.op = "import" => Importing(c, p, t)'
      BY <2>1, ImportingStays DEF Working
    <2>8. QED
      BY <2>1, <2>2, <2>3, <2>4, <2>5, <2>6, <2>7 DEF Working
  <1>3. QED
    BY <1>1, <1>2 DEF Sane

-----------------------------------------------------------------------------
(* The steps of a worker at the ends of a transaction.                     *)

LEMMA NoTxParts ==
  /\ Shape(NoTx) /\ NoTx.held = {} /\ DOMAIN NoTx.changed = {}
  /\ NoTx.todo = {} /\ NoTx.spends = {} /\ DOMAIN NoTx.failures = {}
  BY DEF Shape, NoTx

LEMMA FirstSane ==
  ASSUME NEW c \in Command, Asked(c)
  PROVE  Sane(c, First(c), NoTx)
  <1>1. PICK p, t : p = First(c) /\ t = NoTx
    OBVIOUS
  <1>2. /\ c.op = "create" => p = "provider"
        /\ c.op = "consume" => p = "provider"
        /\ c.op = "recover" => p = "first"
        /\ c.op = "logout" => p = "family"
        /\ c.op \in {"limited", "failure", "clear"} => p = "key"
        /\ c.op \in {"lookup", "import", "other"} => p = c.op
    BY <1>1 DEF First
  <1>3. /\ Shape(t) /\ t.held = {} /\ DOMAIN t.changed = {}
        /\ t.todo = {} /\ t.spends = {} /\ DOMAIN t.failures = {}
    BY <1>1, NoTxParts
  <1>4. c.op \in {"create", "lookup", "recover", "logout", "consume", "limited", "failure",
                  "clear", "import", "other"}
    BY CommandParts
  <1>5. PlaceOf(c, p) /\ p \in Place \ {"idle", "reconnect", "migrate"}
    BY <1>2, <1>4 DEF PlaceOf, Place
  <1>6. Guarded(c, t)
    BY <1>3 DEF Guarded
  <1>7. c.op = "create" => Creating(c, p, t)
    BY <1>2, <1>3 DEF Creating
  <1>8. c.op \in {"consume", "logout"} => Ending(c, p, t)
    BY <1>2, <1>3 DEF Ending
  <1>9. /\ c.op = "logout" => LoggingOut(c, p, t)
        /\ c.op = "consume" => Consuming(c, p, t)
    BY <1>2, <1>3 DEF LoggingOut, Consuming
  <1>10. /\ c.op = "lookup" => LookingUp(c, p, t)
         /\ c.op \in {"limited", "failure", "clear"} => Counting(c, p, t)
         /\ c.op = "import" => Importing(c, p, t)
         /\ c.op \in {"recover", "other"} => Reading(t)
    BY <1>2, <1>3 DEF LookingUp, Counting, Importing, Reading, HoldsRow
  <1>11. Working(c, p, t)
    BY <1>5, <1>6, <1>7, <1>8, <1>9, <1>10 DEF Working
  <1>12. QED
    BY <1>1, <1>3, <1>5, <1>11 DEF Sane

LEMMA OthersStay ==
  ASSUME IInv, NEW i \in Instance, Grows, \A j \in Instance \ {i} : Undisturbed(tx[j]),
         \A j \in Instance \ {i} : cmd'[j] = cmd[j] /\ pc'[j] = pc[j] /\ tx'[j] = tx[j],
         NEW c, NEW p, cmd'[i] = c, pc'[i] = p, tx'[i] = NoTx, Sane(c, p, NoTx)',
         TableOK', Queued', Workers', Families'
  PROVE  IInv'
  <1>1. ASSUME NEW j \in Instance \ {i}
        PROVE  Sane(cmd[j], pc[j], tx[j])'
    <2>1. PICK d, q, t : d = cmd[j] /\ q = pc[j] /\ t = tx[j]
      OBVIOUS
    <2>2. Sane(d, q, t) /\ Undisturbed(t) /\ TableOK
      BY <1>1, <2>1 DEF IInv
    <2>3. Sane(d, q, t)'
      BY <2>2, SaneStays
    <2>4. d = cmd'[j] /\ q = pc'[j] /\ t = tx'[j]
      BY <1>1, <2>1
    <2>5. QED
      BY <2>3, <2>4
  <1>2. Sane(cmd[i], pc[i], tx[i])'
    <2>1. PICK t : t = NoTx
      OBVIOUS
    <2>2. Sane(c, p, t)' /\ t = tx'[i]
      BY <2>1 DEF NoTx
    <2>3. QED
      BY <2>2
  <1>3. Exclusive'
    BY NoTxParts DEF IInv, Exclusive
  <1>4. QED
    BY <1>1, <1>2, <1>3 DEF IInv

LEMMA QuietGrows ==
  ASSUME IInv, UNCHANGED <<rows, spent, failures>>, drawn \subseteq drawn'
  PROVE  Grows /\ \A j \in Instance : Undisturbed(tx[j])
  BY DEF IInv, TableOK, Grows, Undisturbed, Live

(* The end of a transaction, committed or rolled back.                     *)
Left(i) ==
  /\ tx' = [tx EXCEPT ![i] = NoTx]
  /\ \/ pc' = [pc EXCEPT ![i] = "idle"] /\ cmd' = [cmd EXCEPT ![i] = None]
     \/ pc' = [pc EXCEPT ![i] = "reconnect"] /\ cmd' = cmd
  /\ UNCHANGED <<queue, drawn>>

LEMMA LeftKeeps ==
  ASSUME IInv, NEW i \in Instance, pc[i] # "idle", Left(i), Grows, TableOK',
         \A j \in Instance \ {i} : Undisturbed(tx[j])
  PROVE  IInv'
  <1>1. Workers /\ Queued /\ cmd[i] \in Command /\ Asked(cmd[i])
    BY DEF IInv, Sane
  <1>2. Workers'
    BY <1>1 DEF Workers, Left, Place
  <1>3. Queued'
    <2>1. queue' = queue
      BY DEF Left
    <2>2. \A j \in Instance : \A n \in 1..Len(queue[j]) : queue[j][n] \in Command
      BY <1>1 DEF Queued
    <2>3. \A j \in Instance : \A n \in 1..Len(queue[j]) : Asked(queue[j][n])'
      <3>1. SUFFICES ASSUME NEW j \in Instance, NEW n \in 1..Len(queue[j])
                     PROVE  Asked(queue[j][n])'
        OBVIOUS
      <3>2. PICK d : d = queue[j][n]
        OBVIOUS
      <3>3. d \in Command /\ Asked(d)
        BY <1>1, <2>2, <3>2 DEF Queued
      <3>4. Asked(d)' /\ d = queue'[j][n]
        BY <2>1, <3>2, <3>3, AskedGrows
      <3>5. QED
        BY <3>4
    <2>4. QED
      BY <1>1, <2>1, <2>3 DEF Queued
  <1>4. Families'
    BY DEF IInv, Families, Grows, Left
  <1>5. \A j \in Instance \ {i} : cmd'[j] = cmd[j] /\ pc'[j] = pc[j] /\ tx'[j] = tx[j]
    BY <1>1 DEF Workers, Left
  <1>6. tx'[i] = NoTx /\ \/ pc'[i] = "idle" /\ cmd'[i] = None
                         \/ pc'[i] = "reconnect" /\ cmd'[i] = cmd[i]
    BY <1>1 DEF Workers, Left
  <1>7. PICK c, p : c = cmd'[i] /\ p = pc'[i]
    OBVIOUS
  <1>8. Sane(c, p, NoTx)'
    <2>1. CASE p = "idle"
      BY <2>1, NoTxParts DEF Sane, Place
    <2>2. CASE p = "reconnect" /\ c = cmd[i]
      <3>1. c \in Command /\ Asked(c)'
        BY <1>1, <2>2, AskedGrows
      <3>2. QED
        BY <2>2, <3>1, NoTxParts DEF Sane, Place
    <2>3. QED
      BY <1>6, <1>7, <2>1, <2>2
  <1>9. QED
    BY <1>2, <1>3, <1>4, <1>5, <1>6, <1>7, <1>8, OthersStay

LEMMA RolledBackKeeps ==
  ASSUME IInv, NEW i \in Instance,
         Refuse(i) \/ ConnectionLost(i) \/ LockTimeout(i) \/ ReconnectFails(i)
  PROVE  IInv' /\ UNCHANGED table
  <1>1. pc[i] # "idle" /\ Left(i) /\ UNCHANGED table
    <2>1. CASE Refuse(i)
      BY <2>1 DEF Refuse, Failed, Answer, Left
    <2>2. CASE ConnectionLost(i)
      BY <2>2 DEF ConnectionLost, AtDatabase, Failed, Answer, Left
    <2>3. CASE LockTimeout(i)
      <3>1. pc[i] # "idle"
        <4>1. Wants(i) = {} => Granted(i)
          BY DEF Granted, Free
        <4>2. pc[i] = "idle" => Wants(i) = {} /\ (Waiting(i) <=> ~Granted(i))
          BY DEF Wants, Waiting
        <4>3. QED
          BY <2>3, <4>1, <4>2 DEF LockTimeout
      <3>2. QED
        BY <2>3, <3>1 DEF LockTimeout, Failed, Answer, Left
    <2>4. CASE ReconnectFails(i)
      BY <2>4 DEF ReconnectFails, Answer, Left
    <2>5. QED
      BY <2>1, <2>2, <2>3, <2>4
  <1>2. Grows /\ \A j \in Instance : Undisturbed(tx[j])
    BY <1>1, QuietGrows DEF table, Left
  <1>3. TableOK'
    BY <1>1 DEF IInv, TableOK, table
  <1>4. QED
    BY <1>1, <1>2, <1>3, LeftKeeps

LEMMA CommitKeeps ==
  ASSUME IInv, NEW i \in Instance, Commit(i) \/ CommitUnheard(i)
  PROVE  IInv' /\ [TableNext]_table
  <1>1. pc[i] = "commit" /\ Committed(i) /\ Left(i)
    BY DEF Commit, CommitUnheard, Failed, Answer, Left
  <1>2. TableOK' /\ Grows
    BY <1>1, CommitGrows DEF Left
  <1>3. \A j \in Instance \ {i} : Undisturbed(tx[j])
    BY <1>1, CommitLeaves
  <1>4. QED
    BY <1>1, <1>2, <1>3, LeftKeeps, CommitIsCall

-----------------------------------------------------------------------------
(* The channel of a worker.                                                *)

LEMMA QueuedStays ==
  ASSUME Queued, Grows, queue' \in [Instance -> Seq(Command)],
         \A j \in Instance : \A n \in 1..Len(queue'[j]) :
           \/ \E m \in 1..Len(queue[j]) : queue'[j][n] = queue[j][m]
           \/ Asked(queue[j][n])'
  PROVE  Queued'
  <1>1. ASSUME NEW j \in Instance, NEW n \in 1..Len(queue'[j]),
               NEW m \in 1..Len(queue[j]), queue'[j][n] = queue[j][m]
        PROVE  Asked(queue[j][n])'
    <2>1. PICK c : c = queue[j][m]
      OBVIOUS
    <2>2. queue[j] \in Seq(Command)
      BY DEF Queued
    <2>3. c \in Command /\ Asked(c)
      BY <2>1, <2>2 DEF Queued
    <2>4. Asked(c)' /\ c = queue'[j][n]
      BY <1>1, <2>1, <2>3, AskedGrows
    <2>5. QED
      BY <2>4
  <1>2. \A j \in Instance : \A n \in 1..Len(queue'[j]) : Asked(queue[j][n])'
    BY <1>1
  <1>3. QED
    BY <1>2 DEF Queued

LEMMA AskKeeps ==
  ASSUME IInv, NEW i \in Instance, NEW c \in Command, Ask(i, c)
  PROVE  IInv' /\ UNCHANGED table
  <1>1. /\ UNCHANGED <<rows, spent, failures, tally, closed, brought, cmd, pc, tx>>
        /\ queue' = [queue EXCEPT ![i] = Append(@, c)] /\ drawn \subseteq drawn'
    BY DEF Ask, table
  <1>2. Grows /\ \A j \in Instance : Undisturbed(tx[j])
    BY <1>1, QuietGrows
  <1>3. TableOK' /\ Workers' /\ Exclusive' /\ Families'
    BY <1>1 DEF IInv, TableOK, Workers, Exclusive, Families
  <1>4. Asked(c)'
    <2>1. c.op \in {"create", "lookup", "recover", "logout"} => c.on \in Token
      BY CommandParts
    <2>2. c.op = "create" => c.on[1] \in drawn'
      BY DEF Ask
    <2>3. QED
      BY <1>1, <2>1, <2>2 DEF Ask, Asked, IInv, Families, Abroad
  <1>5. Queued'
    <2>1. queue \in [Instance -> Seq(Command)]
      BY DEF IInv, Queued
    <2>2. PICK s, z : s = queue[i] /\ z = Append(s, c)
      OBVIOUS
    <2>3. /\ s \in Seq(Command) /\ z \in Seq(Command) /\ Len(z) = Len(s) + 1
          /\ z[Len(z)] = c /\ \A n \in 1..Len(s) : z[n] = s[n]
      BY <2>1, <2>2
    <2>4. queue'[i] = z /\ \A j \in Instance \ {i} : queue'[j] = queue[j]
      BY <1>1, <2>1, <2>2
    <2>5. queue' \in [Instance -> Seq(Command)]
      BY <1>1, <2>1, <2>2, <2>3
    <2>6. ASSUME NEW n \in 1..Len(z), n \notin 1..Len(s)
          PROVE  Asked(queue[i][n])'
      <3>1. n = Len(z)
        BY <2>3, <2>6
      <3>2. queue'[i][n] = c
        BY <2>3, <2>4, <3>1
      <3>3. QED
        BY <1>4, <3>2
    <2>7. ASSUME NEW j \in Instance, NEW n \in 1..Len(queue'[j])
          PROVE  \/ \E m \in 1..Len(queue[j]) : queue'[j][n] = queue[j][m]
                 \/ Asked(queue[j][n])'
      <3>1. CASE j = i
        BY <2>2, <2>3, <2>4, <2>6, <2>7, <3>1
      <3>2. CASE j # i
        BY <2>4, <2>7, <3>2
      <3>3. QED
        BY <3>1, <3>2
    <2>8. QED
      BY <1>2, <2>5, <2>7, QueuedStays DEF IInv
  <1>6. ASSUME NEW j \in Instance
        PROVE  Sane(cmd[j], pc[j], tx[j])'
    <2>1. PICK d, q, t : d = cmd[j] /\ q = pc[j] /\ t = tx[j]
      OBVIOUS
    <2>2. Sane(d, q, t)'
      BY <1>2, <2>1, SaneStays DEF IInv
    <2>3. d = cmd'[j] /\ q = pc'[j] /\ t = tx'[j]
      BY <1>1, <2>1
    <2>4. QED
      BY <2>2, <2>3
  <1>7. QED
    BY <1>1, <1>3, <1>5, <1>6 DEF IInv, table

LEMMA TakeKeeps ==
  ASSUME IInv, NEW i \in Instance, Take(i)
  PROVE  IInv' /\ UNCHANGED table
  <1>1. /\ UNCHANGED <<rows, spent, failures, tally, closed, brought, tx, drawn>>
        /\ pc[i] = "idle" /\ queue[i] # <<>>
        /\ queue' = [queue EXCEPT ![i] = Tail(@)]
        /\ cmd' = [cmd EXCEPT ![i] = Head(queue[i])]
        /\ pc' = [pc EXCEPT ![i] = IF down[i] THEN "reconnect" ELSE First(Head(queue[i]))]
    BY DEF Take, table
  <1>2. Grows /\ \A j \in Instance : Undisturbed(tx[j])
    BY <1>1, QuietGrows
  <1>3. PICK s, c, p : s = queue[i] /\ c = Head(s)
                       /\ p = IF down[i] THEN "reconnect" ELSE First(c)
    OBVIOUS
  <1>4. Workers /\ queue \in [Instance -> Seq(Command)] /\ Sane(cmd[i], pc[i], tx[i])
    BY DEF IInv, Queued
  <1>5. /\ s \in Seq(Command) /\ s # <<>> /\ c = s[1] /\ 1 \in 1..Len(s)
        /\ Tail(s) \in Seq(Command) /\ Len(Tail(s)) = Len(s) - 1
        /\ \A n \in 1..Len(Tail(s)) : n + 1 \in 1..Len(s) /\ Tail(s)[n] = s[n + 1]
    BY <1>1, <1>3, <1>4
  <1>6. c \in Command /\ Asked(c)
    BY <1>3, <1>5 DEF IInv, Queued
  <1>7. Asked(c)'
    BY <1>2, <1>6, AskedGrows
  <1>8. Sane(c, p, NoTx)'
    <2>1. CASE p = "reconnect"
      BY <1>6, <1>7, <2>1, NoTxParts DEF Sane, Place
    <2>2. CASE p = First(c)
      <3>1. Sane(c, p, NoTx)
        BY <1>6, <2>2, FirstSane
      <3>2. QED
        BY <1>1, <3>1, SaneSame
    <2>3. QED
      BY <1>3, <2>1, <2>2
  <1>9. /\ cmd'[i] = c /\ pc'[i] = p
        /\ \A j \in Instance \ {i} : cmd'[j] = cmd[j] /\ pc'[j] = pc[j] /\ tx'[j] = tx[j]
    BY <1>1, <1>3, <1>4 DEF Workers
  <1>10. tx'[i] = NoTx
    BY <1>1, <1>4 DEF Sane
  <1>11. Workers'
    <2>1. p \in Place
      BY <1>8 DEF Sane
    <2>2. QED
      BY <1>1, <1>3, <1>4, <1>6, <2>1 DEF Workers
  <1>12. Queued'
    <2>1. queue'[i] = Tail(s) /\ \A j \in Instance \ {i} : queue'[j] = queue[j]
      BY <1>1, <1>3, <1>4
    <2>2. queue' \in [Instance -> Seq(Command)]
      BY <1>1, <1>3, <1>4, <1>5
    <2>3. ASSUME NEW j \in Instance, NEW n \in 1..Len(queue'[j])
          PROVE  \E m \in 1..Len(queue[j]) : queue'[j][n] = queue[j][m]
      <3>1. CASE j = i
        BY <1>3, <1>5, <2>1, <2>3, <3>1
      <3>2. CASE j # i
        BY <2>1, <2>3, <3>2
      <3>3. QED
        BY <3>1, <3>2
    <2>4. QED
      BY <1>2, <2>2, <2>3, QueuedStays DEF IInv
  <1>13. TableOK' /\ Families'
    BY <1>1 DEF IInv, TableOK, Families
  <1>14. QED
    BY <1>1, <1>2, <1>8, <1>9, <1>10, <1>11, <1>12, <1>13, OthersStay DEF table

LEMMA ReconnectKeeps ==
  ASSUME IInv, NEW i \in Instance, Reconnect(i)
  PROVE  IInv' /\ UNCHANGED table
  <1>1. /\ UNCHANGED <<rows, spent, failures, tally, closed, brought, queue, cmd, tx, drawn>>
        /\ pc[i] = "reconnect" /\ pc' = [pc EXCEPT ![i] = "migrate"]
    BY DEF Reconnect, table
  <1>2. Grows /\ \A j \in Instance : Undisturbed(tx[j])
    BY <1>1, QuietGrows
  <1>3. PICK c, p : c = cmd[i] /\ p = "migrate"
    OBVIOUS
  <1>4. Workers /\ Sane(cmd[i], pc[i], tx[i])
    BY DEF IInv
  <1>5. c \in Command /\ Asked(c) /\ tx[i] = NoTx
    BY <1>1, <1>3, <1>4 DEF Sane
  <1>6. Sane(c, p, NoTx)
    BY <1>3, <1>5, NoTxParts DEF Sane, Place
  <1>7. Sane(c, p, NoTx)' /\ p \in Place
    <2>1. p \in Place
      BY <1>6 DEF Sane
    <2>2. QED
      BY <1>1, <1>6, <2>1, SaneSame
  <1>8. /\ cmd'[i] = c /\ pc'[i] = p /\ tx'[i] = NoTx
        /\ \A j \in Instance \ {i} : cmd'[j] = cmd[j] /\ pc'[j] = pc[j] /\ tx'[j] = tx[j]
    BY <1>1, <1>3, <1>4, <1>5 DEF Workers
  <1>9. Workers'
    BY <1>1, <1>3, <1>4, <1>7 DEF Workers
  <1>10. TableOK' /\ Queued' /\ Families'
    BY <1>1 DEF IInv, TableOK, Queued, Asked, Families
  <1>11. QED
    BY <1>1, <1>2, <1>7, <1>8, <1>9, <1>10, OthersStay DEF table

LEMMA MigratedKeeps ==
  ASSUME IInv, NEW i \in Instance, Migrated(i)
  PROVE  IInv' /\ UNCHANGED table
  <1>1. /\ UNCHANGED <<rows, spent, failures, tally, closed, brought, queue, cmd, drawn>>
        /\ pc[i] = "migrate" /\ pc' = [pc EXCEPT ![i] = First(cmd[i])]
        /\ tx' = [tx EXCEPT ![i] = NoTx]
    BY DEF Migrated, table
  <1>2. Grows /\ \A j \in Instance : Undisturbed(tx[j])
    BY <1>1, QuietGrows
  <1>3. PICK c, p : c = cmd[i] /\ p = First(c)
    OBVIOUS
  <1>4. Workers /\ Sane(cmd[i], pc[i], tx[i])
    BY DEF IInv
  <1>5. c \in Command /\ Asked(c)
    BY <1>1, <1>3, <1>4 DEF Sane
  <1>6. Sane(c, p, NoTx)
    BY <1>3, <1>5, FirstSane
  <1>7. Sane(c, p, NoTx)' /\ p \in Place
    <2>1. p \in Place
      BY <1>6 DEF Sane
    <2>2. QED
      BY <1>1, <1>6, <2>1, SaneSame
  <1>8. /\ cmd'[i] = c /\ pc'[i] = p /\ tx'[i] = NoTx
        /\ \A j \in Instance \ {i} : cmd'[j] = cmd[j] /\ pc'[j] = pc[j] /\ tx'[j] = tx[j]
    BY <1>1, <1>3, <1>4 DEF Workers
  <1>9. Workers'
    BY <1>1, <1>3, <1>4, <1>7 DEF Workers
  <1>10. TableOK' /\ Queued' /\ Families'
    BY <1>1 DEF IInv, TableOK, Queued, Asked, Families
  <1>11. QED
    BY <1>1, <1>2, <1>7, <1>8, <1>9, <1>10, OthersStay DEF table

-----------------------------------------------------------------------------
(* The theorems.                                                           *)

LEMMA InitIInv == Init => IInv
  <1>1. SUFFICES ASSUME Init
                 PROVE  IInv
    OBVIOUS
  <1>2. TableOK
    BY <1>1, PromiseInit DEF Init, Promise
  <1>3. Queued /\ Workers
    BY <1>1 DEF Init, Queued, Workers, Place
  <1>4. Exclusive
    BY <1>1, NoTxParts DEF Init, Exclusive
  <1>5. \A i \in Instance : Sane(cmd[i], pc[i], tx[i])
    <2>1. SUFFICES ASSUME NEW i \in Instance
                   PROVE  Sane(cmd[i], pc[i], tx[i])
      OBVIOUS
    <2>2. PICK p, t : p = pc[i] /\ t = tx[i]
      OBVIOUS
    <2>3. p = "idle" /\ t = NoTx /\ Shape(t)
      BY <1>1, <2>2, NoTxParts DEF Init
    <2>4. QED
      BY <2>2, <2>3 DEF Sane, Place
  <1>6. Families
    <2>1. drawn = {x[1] : x \in (DOMAIN rows) \cup (UNION {DOMAIN Contents[s].sessions : s \in Snapshot})}
      BY <1>1 DEF Init, TableInit
    <2>2. QED
      BY <2>1 DEF Families
  <1>7. QED
    BY <1>2, <1>3, <1>4, <1>5, <1>6 DEF IInv

LEMMA StatementsKeep ==
  ASSUME IInv, NEW i \in Instance,
         \/ LockProvider(i) \/ FindUsers(i) \/ FindFamily(i) \/ LockUser(i)
         \/ LockPredecessor(i) \/ Repeated(i) \/ InsertRow(i) \/ Prune(i)
         \/ SelectRows(i) \/ RevokeRow(i) \/ SpendToken(i)
         \/ Lookup(i) \/ LockFirst(i) \/ LockSecond(i)
         \/ LockKey(i) \/ LoadFailures(i) \/ StoreFailures(i) \/ FindStale(i) \/ DropRow(i)
         \/ LockAhead(i) \/ ImportSession(i) \/ ImportToken(i) \/ ImportLimit(i) \/ ImportDone(i)
         \/ WorkElsewhere(i) \/ Migrate(i)
  PROVE  IInv' /\ UNCHANGED table
  <1>1. IInv'
    BY LockProviderKeeps, FindUsersKeeps, FindFamilyKeeps, LockUserKeeps, LockPredecessorKeeps,
       RepeatedKeeps, InsertRowKeeps, PruneKeeps, SelectRowsKeeps, RevokeRowKeeps,
       SpendTokenKeeps, LookupKeeps, LockRowsKeeps, FailuresKeep, StaleKeeps,
       ImportKeeps, ImportDoneKeeps, WorkElsewhereKeeps, MigrateKeeps
  <1>2. UNCHANGED table
    BY DEF Goto, LockProvider, FindUsers, FindFamily, LockUser, LockPredecessor, Repeated,
       InsertRow, Prune, SelectRows, Revoke, RevokeRow, SpendToken, Lookup, LockFirst,
       LockSecond, LockKey, LoadFailures, StoreFailures, FindStale, DropRow, LockAhead,
       ImportSession, ImportToken, ImportLimit, ImportDone, WorkElsewhere, Migrate
  <1>3. QED
    BY <1>1, <1>2

LEMMA StepKeeps == IInv /\ [Next]_vars => IInv' /\ [TableNext]_table
  <1>1. SUFFICES ASSUME IInv, [Next]_vars
                 PROVE  IInv' /\ [TableNext]_table
    OBVIOUS
  <1>2. ASSUME NEW i \in Instance, NEW c \in Command, Ask(i, c)
        PROVE  IInv' /\ [TableNext]_table
    BY <1>1, <1>2, AskKeeps
  <1>3. ASSUME NEW i \in Instance, Serve(i)
        PROVE  IInv' /\ [TableNext]_table
    BY <1>1, <1>3, TakeKeeps, ReconnectKeeps, MigratedKeeps, StatementsKeep, RolledBackKeeps, CommitKeeps
    DEF Serve
  <1>4. ASSUME NEW i \in Instance,
               ConnectionLost(i) \/ CommitUnheard(i) \/ ReconnectFails(i) \/ LockTimeout(i)
        PROVE  IInv' /\ [TableNext]_table
    BY <1>1, <1>4, RolledBackKeeps, CommitKeeps
  <1>5. CASE UNCHANGED vars
    <2>1. UNCHANGED <<rows, spent, failures, tally, closed, brought, queue, cmd, pc, tx, drawn>>
      BY <1>5 DEF vars, table
    <2>2. TableOK' /\ Queued' /\ Workers' /\ Exclusive' /\ Families'
      BY <1>1, <2>1 DEF IInv, TableOK, Queued, Asked, Workers, Exclusive, Families
    <2>3. ASSUME NEW j \in Instance
          PROVE  Sane(cmd[j], pc[j], tx[j])'
      <3>1. PICK d, q, t : d = cmd[j] /\ q = pc[j] /\ t = tx[j]
        OBVIOUS
      <3>2. Sane(d, q, t)'
        BY <1>1, <2>1, <3>1, SaneSame DEF IInv
      <3>3. d = cmd'[j] /\ q = pc'[j] /\ t = tx'[j]
        BY <2>1, <3>1
      <3>4. QED
        BY <3>2, <3>3
    <2>4. QED
      BY <1>5, <2>2, <2>3 DEF IInv, vars
  <1>6. QED
    BY <1>1, <1>2, <1>3, <1>4, <1>5 DEF Next

(* No two transactions hold the same lock, and what each has read and      *)
(* written so far is what the committed rows, tokens and failures say.     *)
THEOREM TransactionsSound == Spec => []IInv
  <1>1. IInv /\ [Next]_vars => IInv'
    BY StepKeeps
  <1>2. QED
    BY <1>1, InitIInv, PTL DEF Spec

(* Whatever the workers of any number of instances do at the same time,    *)
(* imports and migrations among it, with connections that are lost,        *)
(* commits that go unheard and commands that run twice, each commit is one *)
(* of the calls of SessionTable.                                           *)
THEOREM CallsImplemented == Spec => ImplementsCalls
  <1>1. Init => TableInit
    BY DEF Init
  <1>2. IInv /\ [Next]_vars => [TableNext]_table
    BY StepKeeps
  <1>3. QED
    BY <1>1, <1>2, TransactionsSound, PTL DEF Spec, ImplementsCalls, TableSpec

(* So the instances together keep to the cap on the sessions of a user,    *)
(* but for a user whose sessions an instance brought from another store    *)
(* and who had no new session since: the import prunes nothing, and the    *)
(* next login or rotation of the user, on whichever instance, prunes all.  *)
THEOREM CappedAcross == Spec => []Capped
  BY CallsImplemented, SessionsCapped, PTL DEF ImplementsCalls

(* No failure of any account is lost between two instances that record     *)
(* one, or between one that records and one that imports, checks or prunes.*)
THEOREM CountedAcross == Spec => []Counted
  BY CallsImplemented, FailuresCounted, PTL DEF ImplementsCalls

(* No instance brings back a login that another one has ended, except with *)
(* a session that it imports and that this database never saw.             *)
THEOREM OverAcross == Spec => OverForGood
  BY CallsImplemented, OverStaysOver, PTL DEF ImplementsCalls

=============================================================================
