------------------------ MODULE AuthSessionsProofs -------------------------
(* The safety properties of AuthSessions hold for any requests, users,     *)
(* families, durations and bounds.                                         *)
EXTENDS AuthSessions, FiniteSetTheorems, TLAPS

(* The rows may have been revoked or touched, and nothing else.            *)
Kept ==
  /\ DOMAIN rows' = DOMAIN rows
  /\ \A x \in DOMAIN rows :
       /\ rows'[x] \in Row
       /\ rows'[x].user = rows[x].user
       /\ rows'[x].created = rows[x].created
       /\ rows'[x].expires = rows[x].expires
       /\ rows'[x].revoked = 0 => rows[x].revoked = 0

LEMMA RevokedRow ==
  ASSUME NEW row \in Row, NEW t \in Nat
  PROVE  /\ Revoked(row, t) \in Row
         /\ Revoked(row, t).user = row.user
         /\ Revoked(row, t).created = row.created
         /\ Revoked(row, t).expires = row.expires
         /\ Revoked(row, t).revoked = 0 => row.revoked = 0
         /\ t # 0 => Revoked(row, t).revoked # 0
  BY DEF Revoked, Row

LEMMA TouchedRow ==
  ASSUME NEW row \in Row, NEW t \in Nat
  PROVE  /\ Touched(row, t) \in Row
         /\ Touched(row, t).user = row.user
         /\ Touched(row, t).created = row.created
         /\ Touched(row, t).expires = row.expires
         /\ Touched(row, t).revoked = row.revoked
  BY DEF Touched, Row

LEMMA RevokeKeeps ==
  ASSUME TypeOK, NEW X, NEW t \in Nat, Revoke(X, t)
  PROVE  Kept
  <1>1. \A x \in DOMAIN rows : rows[x] \in Row
    BY DEF TypeOK
  <1>2. /\ DOMAIN rows' = DOMAIN rows
        /\ \A x \in DOMAIN rows :
             rows'[x] = IF x \in X THEN Revoked(rows[x], t) ELSE rows[x]
    BY DEF Revoke
  <1>3. QED
    BY <1>1, <1>2, RevokedRow DEF Kept

LEMMA TouchKeeps ==
  ASSUME TypeOK, NEW x \in DOMAIN rows, NEW t \in Nat, Touch(x, t)
  PROVE  Kept
  <1>1. \A y \in DOMAIN rows : rows[y] \in Row
    BY DEF TypeOK
  <1>2. /\ DOMAIN rows' = DOMAIN rows
        /\ \A y \in DOMAIN rows :
             rows'[y] = IF y = x THEN Touched(rows[x], t) ELSE rows[y]
    BY DEF Touch
  <1>3. QED
    BY <1>1, <1>2, TouchedRow DEF Kept

LEMMA SameKeeps ==
  ASSUME TypeOK, UNCHANGED rows
  PROVE  Kept
  BY DEF TypeOK, Kept

(* What the transaction that inserts a row leaves in the table.            *)
LEMMA StoredRows ==
  ASSUME TypeOK, Holding, NEW r \in Request, pc[r] = "write", Stored(r)
  PROVE  /\ token[r] \in Token /\ token[r] \notin DOMAIN rows
         /\ DOMAIN rows' \subseteq DOMAIN rows \cup {token[r]}
         /\ \A y \in DOMAIN rows' : rows'[y] \in Row
         /\ token[r] \in DOMAIN rows' =>
              /\ rows'[token[r]].created = held[r].created
              /\ rows'[token[r]].expires = held[r].expires
         /\ \A y \in DOMAIN rows' \ {token[r]} :
              /\ rows'[y].created = rows[y].created
              /\ rows'[y].expires = rows[y].expires
              /\ rows'[y].revoked = 0 => rows[y].revoked = 0 /\ y # Pred(token[r])
  <1> DEFINE x == token[r]
             t == now[r]
             table == Replaced(x, held[r], t)
  <1>1. x \in Token /\ held[r] \in Row /\ t \in Nat /\ t # 0
    BY DEF Holding, WithSession, TypeOK
  <1>2. x \notin DOMAIN rows
    BY DEF Stored
  <1>3. /\ DOMAIN table = DOMAIN rows \cup {x}
        /\ table[x] = held[r]
        /\ \A y \in DOMAIN rows :
             table[y] = IF y = Pred(x) THEN Revoked(rows[y], t) ELSE rows[y]
    BY <1>2 DEF Replaced
  <1>4. \A y \in DOMAIN rows : rows[y] \in Row
    BY DEF TypeOK
  <1>5. \A y \in DOMAIN table : table[y] \in Row
    BY <1>1, <1>3, <1>4, RevokedRow
  <1>6. PICK X \in Surplus(table, x, t) :
          rows' = [y \in {z \in DOMAIN table : ~Outdated(table[z], t)} |->
                     IF y \in X THEN Revoked(table[y], t) ELSE table[y]]
    BY DEF Stored
  <1>7. /\ DOMAIN rows' \subseteq DOMAIN table
        /\ \A y \in DOMAIN rows' :
             rows'[y] = IF y \in X THEN Revoked(table[y], t) ELSE table[y]
    BY <1>6
  <1>8. \A y \in DOMAIN rows' :
          /\ rows'[y] \in Row
          /\ rows'[y].created = table[y].created
          /\ rows'[y].expires = table[y].expires
          /\ rows'[y].revoked = 0 => table[y].revoked = 0
    BY <1>1, <1>5, <1>7, RevokedRow
  <1>9. \A y \in DOMAIN rows :
          /\ table[y].created = rows[y].created
          /\ table[y].expires = rows[y].expires
          /\ table[y].revoked = 0 => rows[y].revoked = 0 /\ y # Pred(x)
    BY <1>1, <1>3, <1>4, RevokedRow
  <1> HIDE DEF table
  <1>10. QED
    BY <1>1, <1>2, <1>3, <1>7, <1>8, <1>9

(* Every duration is a natural number.                                     *)
LEMMA DurationTypes ==
  /\ Timeout \in Nat /\ Lifetime \in Nat /\ Idle \in Nat /\ TouchEvery \in Nat
  /\ RotateEvery \in Nat /\ Grace \in Nat /\ Skew \in Nat /\ Retention \in Nat
  /\ MaxGen \in Nat /\ Timeout # 0
  BY DurationAssumption

THEOREM InitIInv == Init => IInv
  <1> SUFFICES ASSUME Init PROVE IInv
    OBVIOUS
  <1>1. DOMAIN rows = {} /\ DOMAIN spent = {}
    BY DEF Init
  <1>2. TypeOK
    BY <1>1 DEF Init, TypeOK, Place, What
  <1>3. Holding /\ Drawn /\ HeldDeadline
    BY <1>1 DEF Init, Holding, Drawn, HeldDeadline, WithSession
  <1>4. OneActivePerFamily /\ DeadlineKept
    BY <1>1 DEF OneActivePerFamily, ActiveOf, DeadlineKept
  <1>5. InTime /\ LogoutsRemembered
    BY <1>1 DEF Init, InTime, LogoutsRemembered
  <1>6. IsFiniteSet(DOMAIN rows) /\ ConcurrencyCapped
    <2>1. \A u \in User : {x \in DOMAIN rows : /\ rows[x].user = u
                                               /\ rows[x].revoked = 0
                                               /\ rows[x].expires > clock} = {}
      BY <1>1
    <2>2. IsFiniteSet({}) /\ Cardinality({}) = 0 /\ MaxConcurrent \in Nat
      BY FS_EmptySet, DurationAssumption
    <2>3. QED
      BY <1>1, <2>1, <2>2 DEF ConcurrencyCapped
  <1>7. QED
    BY <1>2, <1>3, <1>4, <1>5, <1>6 DEF IInv

-----------------------------------------------------------------------------
(* Types.                                                                  *)

(* The row that a login builds.                                            *)
LEMMA IssuedRow ==
  ASSUME NEW u \in User, NEW s \in Sid \cup {None}, NEW t \in Nat
  PROVE  /\ Issued(u, s, t) \in Row
         /\ Issued(u, s, t).revoked = 0
         /\ Issued(u, s, t).expires <= Issued(u, s, t).created + Lifetime
  BY DurationTypes DEF Issued, Row, Earliest

LEMMA DeadlineType ==
  ASSUME NEW session \in Row, NEW t \in Nat
  PROVE  /\ Deadline(session, t) \in Nat
         /\ Deadline(session, t) <= session.created + Lifetime
         /\ session.expires > t /\ session.expires <= session.created + Lifetime
              => Deadline(session, t) = session.expires
  BY DurationTypes DEF Deadline, Row, Earliest

(* The store after a step of a request: revoked and touched, or with one   *)
(* row more.                                                               *)
LEMMA StoreStep ==
  ASSUME IInv, NEW r \in Request,
         \/ Login(r) \/ Present(r) \/ LogoutStarts(r) \/ ProviderLogout(r)
         \/ LookupFinds(r) \/ LookupMisses(r) \/ Recover(r) \/ Unauthenticated(r)
         \/ Renew(r) \/ Repeat(r) \/ Refuse(r) \/ Overloaded(r)
         \/ Declined(r) \/ Reauthenticate(r)
         \/ Logout(r) \/ Consume(r) \/ Replay(r)
  PROVE  Kept
  <1> USE DEF IInv
  <1>0. now[r] \in Nat
    BY DEF TypeOK
  <1>1. CASE UNCHANGED rows
    BY <1>1, SameKeeps
  <1>2. CASE LookupFinds(r)
    BY <1>0, <1>2, TouchKeeps DEF LookupFinds
  <1>3. CASE LookupMisses(r)
    BY <1>0, <1>3, RevokeKeeps DEF LookupMisses
  <1>4. CASE Recover(r)
    BY <1>0, <1>4, TouchKeeps DEF Recover, Recoverable
  <1>5. CASE Logout(r)
    BY <1>0, <1>1, <1>5, RevokeKeeps DEF Logout
  <1>6. CASE Consume(r)
    BY <1>0, <1>6, RevokeKeeps DEF Consume
  <1>7. CASE \/ Login(r) \/ Present(r) \/ LogoutStarts(r) \/ ProviderLogout(r)
             \/ Unauthenticated(r) \/ Renew(r) \/ Repeat(r) \/ Refuse(r)
             \/ Overloaded(r) \/ Declined(r) \/ Reauthenticate(r) \/ Replay(r)
    <2>1. UNCHANGED rows
      BY <1>7 DEF Login, Present, LogoutStarts, ProviderLogout, Unauthenticated,
           Renew, Repeat, Refuse, Overloaded, Unavailable, Declined,
           Reauthenticate, Replay, store
    <2>2. QED
      BY <1>1, <2>1
  <1>8. QED
    BY <1>2, <1>3, <1>4, <1>5, <1>6, <1>7

(* TypeOK in two parts: the store, and the requests with their surroundings. *)
StoreTypes ==
  /\ DOMAIN rows \subseteq Token
  /\ \A x \in DOMAIN rows : rows[x] \in Row
  /\ DOMAIN spent \subseteq LogoutToken
  /\ \A k \in DOMAIN spent : spent[k] \in Nat
  /\ replayed \subseteq LogoutToken

RequestTypes ==
  /\ known \subseteq Token
  /\ drawn \subseteq Family
  /\ issued \in [LogoutToken -> Nat]
  /\ pc \in [Request -> Place]
  /\ kind \in [Request -> What]
  /\ token \in [Request -> Token \cup LogoutToken \cup {None}]
  /\ now \in [Request -> Nat]
  /\ held \in [Request -> Row \cup {NoSession}]
  /\ pending \in [Request -> Token \cup {None}]
  /\ clock \in Nat \ {0}
  /\ starts \in Nat

LEMMA TypeParts == TypeOK <=> StoreTypes /\ RequestTypes
  BY DEF TypeOK, StoreTypes, RequestTypes

LEMMA EndTypes ==
  ASSUME RequestTypes, NEW r \in Request,
         NEW cookies \in SUBSET (Token \cup {None}), End(r, cookies)
  PROVE  RequestTypes'
  BY DEF End, RequestTypes, Place, What

LEMMA BeginTypes ==
  ASSUME RequestTypes, NEW r \in Request, NEW place \in Place, NEW what \in What,
         NEW t \in Token \cup LogoutToken, Begin(r, place, what, t)
  PROVE  /\ pc' \in [Request -> Place]
         /\ kind' \in [Request -> What]
         /\ token' \in [Request -> Token \cup LogoutToken \cup {None}]
         /\ now' \in [Request -> Nat]
         /\ pending' \in [Request -> Token \cup {None}]
         /\ starts' \in Nat
  BY DEF Begin, RequestTypes

LEMMA VerifiedTypes ==
  ASSUME RequestTypes, NEW r \in Request, NEW x \in Token, NEW row \in Row,
         NEW replacement \in Token \cup {None}, Verified(r, x, row, replacement)
  PROVE  RequestTypes'
  <1>1. CASE End(r, {replacement})
    <2>1. {replacement} \in SUBSET (Token \cup {None})
      OBVIOUS
    <2>2. QED
      BY <1>1, <2>1, EndTypes
  <1>2. CASE ~End(r, {replacement})
    BY <1>2 DEF Verified, RequestTypes, outside, Place
  <1>3. QED
    BY <1>1, <1>2

LEMMA FirstToken ==
  ASSUME NEW f \in Family
  PROVE  <<f, 0>> \in Token
  BY DurationTypes DEF Token

LEMMA SuccToken ==
  ASSUME NEW t \in Token, t[2] < MaxGen
  PROVE  Succ(t) \in Token /\ Succ(t)[1] = t[1] /\ Succ(t)[2] # 0
  BY DurationTypes DEF Token, Succ

LEMMA PredToken ==
  ASSUME NEW t \in Token
  PROVE  Pred(t)[1] = t[1]
  BY DEF Pred

(* Cookies of answers are cookies.                                         *)
LEMMA Cookies ==
  ASSUME IInv, NEW r \in Request
  PROVE  /\ {pending[r]} \in SUBSET (Token \cup {None})
         /\ {} \in SUBSET (Token \cup {None})
         /\ pc[r] = "write" => {Cookie(r)} \in SUBSET (Token \cup {None})
  BY DEF IInv, TypeOK, Holding, WithSession, Cookie

(* What a step does to the requests keeps their types.                     *)
LEMMA RequestTypesStep ==
  ASSUME IInv, Next
  PROVE  RequestTypes'
  <1> USE DEF IInv
  <1>0. RequestTypes /\ StoreTypes /\ Holding
    BY TypeParts
  <1>1. ASSUME NEW r \in Request, Login(r) PROVE RequestTypes'
    <2>1. PICK f \in Family \ drawn, u \in User, t \in Sid \cup {None} :
            /\ Begin(r, "write", "login", <<f, 0>>)
            /\ held' = [held EXCEPT ![r] = Issued(u, t, clock)]
            /\ drawn' = drawn \cup {f}
            /\ UNCHANGED <<store, known, issued, clock>>
      BY <1>1 DEF Login
    <2>2. "write" \in Place /\ "login" \in What /\ <<f, 0>> \in Token
      BY FirstToken DEF Place, What
    <2>3. Issued(u, t, clock) \in Row
      BY <1>0, IssuedRow DEF RequestTypes
    <2>4. QED
      BY <1>0, <2>1, <2>2, <2>3, BeginTypes DEF RequestTypes
  <1>2. ASSUME NEW r \in Request, Present(r) PROVE RequestTypes'
    <2>1. PICK t \in known, what \in {"page", "reauth"} :
            /\ Begin(r, "lookup", what, t)
            /\ UNCHANGED <<store, known, drawn, issued, clock, held>>
      BY <1>2 DEF Present
    <2>2. "lookup" \in Place /\ what \in What /\ t \in Token
      BY <1>0 DEF Place, What, RequestTypes
    <2>3. QED
      BY <1>0, <2>1, <2>2, BeginTypes DEF RequestTypes
  <1>3. ASSUME NEW r \in Request, LogoutStarts(r) PROVE RequestTypes'
    <2>1. PICK t \in known :
            /\ Begin(r, "logout", "logout", t)
            /\ UNCHANGED <<store, known, drawn, issued, clock, held>>
      BY <1>3 DEF LogoutStarts
    <2>2. "logout" \in Place /\ "logout" \in What /\ t \in Token
      BY <1>0 DEF Place, What, RequestTypes
    <2>3. QED
      BY <1>0, <2>1, <2>2, BeginTypes DEF RequestTypes
  <1>4. ASSUME NEW r \in Request, ProviderLogout(r) PROVE RequestTypes'
    <2>1. PICK k \in LogoutToken :
            /\ issued' = [issued EXCEPT ![k] = IF @ = 0 THEN clock ELSE @]
            /\ Begin(r, "provider", "logout", k)
            /\ UNCHANGED <<store, known, drawn, clock, held>>
      BY <1>4 DEF ProviderLogout
    <2>2. "provider" \in Place /\ "logout" \in What
      BY DEF Place, What
    <2>3. issued' \in [LogoutToken -> Nat]
      BY <1>0, <2>1 DEF RequestTypes
    <2>4. QED
      BY <1>0, <2>1, <2>2, <2>3, BeginTypes DEF RequestTypes
  <1>5. ASSUME NEW r \in Request, LookupFinds(r) PROVE RequestTypes'
    <2>1. token[r] \in DOMAIN rows /\ now[r] \in Nat
      BY <1>0, <1>5 DEF LookupFinds, RequestTypes
    <2>2. Touched(rows[token[r]], now[r]) \in Row /\ token[r] \in Token
      BY <1>0, <2>1, TouchedRow DEF StoreTypes
    <2>3. QED
      BY <1>0, <1>5, <2>2, VerifiedTypes DEF LookupFinds
  <1>6. ASSUME NEW r \in Request, LookupMisses(r) PROVE RequestTypes'
    BY <1>0, <1>6 DEF LookupMisses, RequestTypes, outside, Place
  <1>7. ASSUME NEW r \in Request, Recover(r) PROVE RequestTypes'
    <2>1. Succ(token[r]) \in DOMAIN rows /\ now[r] \in Nat
      BY <1>0, <1>7 DEF Recover, Recoverable, RequestTypes
    <2>2. Touched(rows[Succ(token[r])], now[r]) \in Row /\ Succ(token[r]) \in Token
      BY <1>0, <2>1, TouchedRow DEF StoreTypes
    <2>3. QED
      BY <1>0, <1>7, <2>2, VerifiedTypes DEF Recover
  <1>8. ASSUME NEW r \in Request,
               \/ Unauthenticated(r) \/ Refuse(r) \/ Overloaded(r) \/ Declined(r)
               \/ Logout(r) \/ Consume(r) \/ Replay(r)
        PROVE  RequestTypes'
    BY <1>0, <1>8, EndTypes, Cookies
       DEF Unauthenticated, Refuse, Overloaded, Unavailable, Declined, Logout,
           Consume, Replay
  <1>9. ASSUME NEW r \in Request, Renew(r) PROVE RequestTypes'
    <2>1. token[r] \in Token /\ held[r] \in Row /\ clock \in Nat
      BY <1>0, <1>9 DEF Renew, Holding, WithSession, RequestTypes
    <2>2. Succ(token[r]) \in Token /\ Deadline(held[r], clock) \in Nat
      BY <1>9, <2>1, SuccToken, DeadlineType DEF Renew
    <2>3. held' \in [Request -> Row \cup {NoSession}]
      BY <1>0, <1>9, <2>1, <2>2 DEF Renew, RequestTypes, Row
    <2>4. QED
      BY <1>0, <1>9, <2>1, <2>2, <2>3 DEF Renew, RequestTypes, outside, Place
  <1>10. ASSUME NEW r \in Request, pc[r] = "write", GoesOn(r) PROVE RequestTypes'
    <2>1. CASE kind[r] = "reauth"
      BY <1>0, <1>10, <2>1 DEF GoesOn, RequestTypes, outside, Place, Holding, WithSession
    <2>2. CASE kind[r] # "reauth"
      BY <1>0, <1>10, <2>2, EndTypes, Cookies DEF GoesOn
    <2>3. QED
      BY <2>1, <2>2
  <1>11. ASSUME NEW r \in Request, Reauthenticate(r) PROVE RequestTypes'
    <2>1. held[r] \in Row /\ clock \in Nat
      BY <1>0, <1>11 DEF Reauthenticate, Holding, WithSession, RequestTypes
    <2>2. held' \in [Request -> Row \cup {NoSession}]
      BY <1>0, <1>11, <2>1 DEF Reauthenticate, RequestTypes, Row
    <2>3. QED
      BY <1>0, <1>11, <2>2 DEF Reauthenticate, RequestTypes, outside, Place, What
  <1>12. CASE Tick
    BY <1>0, <1>12 DEF Tick, RequestTypes
  <1>13. QED
    BY <1>1, <1>2, <1>3, <1>4, <1>5, <1>6, <1>7, <1>8, <1>9, <1>10, <1>11, <1>12
       DEF Next, Insert, Repeat

(* The steps of a request that do not insert a row.                        *)
Moving(r) ==
  \/ Login(r) \/ Present(r) \/ LogoutStarts(r) \/ ProviderLogout(r)
  \/ LookupFinds(r) \/ LookupMisses(r) \/ Recover(r) \/ Unauthenticated(r)
  \/ Renew(r) \/ Repeat(r) \/ Refuse(r) \/ Overloaded(r)
  \/ Declined(r) \/ Reauthenticate(r)
  \/ Logout(r) \/ Consume(r) \/ Replay(r)

LEMMA Steps ==
  Next <=> (\E r \in Request : Moving(r) \/ Insert(r)) \/ Tick
  BY DEF Next, Moving

LEMMA MovingKeeps ==
  ASSUME IInv, NEW r \in Request, Moving(r)
  PROVE  Kept
  BY StoreStep DEF Moving

LEMMA TickKeeps ==
  ASSUME IInv, Tick
  PROVE  Kept
  BY SameKeeps DEF IInv, Tick, store

(* The facts about an insertion in the terms of the invariant: the family  *)
(* is new, or its active row is the predecessor.                           *)
LEMMA InsertRows ==
  ASSUME IInv, NEW r \in Request, Insert(r)
  PROVE  /\ pc[r] = "write" /\ token[r] \in Token /\ token[r] \notin DOMAIN rows
         /\ DOMAIN rows' \subseteq DOMAIN rows \cup {token[r]}
         /\ \A y \in DOMAIN rows' : rows'[y] \in Row
         /\ token[r] \in DOMAIN rows' =>
              /\ rows'[token[r]].created = held[r].created
              /\ rows'[token[r]].expires = held[r].expires
         /\ \A y \in DOMAIN rows' \ {token[r]} :
              /\ rows'[y].created = rows[y].created
              /\ rows'[y].expires = rows[y].expires
              /\ rows'[y].revoked = 0 => rows[y].revoked = 0 /\ y # Pred(token[r])
         /\ \/ token[r][2] = 0 /\ \A y \in DOMAIN rows : y[1] # token[r][1]
            \/ /\ Pred(token[r]) \in ActiveOf(token[r][1])
               /\ token[r][2] # 0
               /\ rows[Pred(token[r])].expires > now[r]
  <1>1. TypeOK /\ Holding /\ Drawn
    BY DEF IInv
  <1>2. pc[r] = "write" /\ MayInsert(r) /\ Stored(r)
    BY DEF Insert
  <1>3. token[r] \in Token
    BY <1>1, <1>2, StoredRows
  <1>4. CASE token[r][2] = 0
    BY <1>1, <1>2, <1>4, StoredRows DEF Drawn
  <1>5. CASE token[r][2] # 0
    <2>1. token[r][2] > 0
      BY <1>3, <1>5, DurationTypes DEF Token
    <2>2. Pred(token[r]) \in DOMAIN rows /\ Alive(rows[Pred(token[r])], now[r])
      BY <1>2, <2>1 DEF MayInsert, Replaceable
    <2>3. Pred(token[r]) \in ActiveOf(token[r][1])
            /\ rows[Pred(token[r])].expires > now[r]
      BY <1>3, <2>2, PredToken DEF Alive, ActiveOf
    <2>4. QED
      BY <1>1, <1>2, <1>5, <2>3, StoredRows
  <1>6. QED
    BY <1>4, <1>5

LEMMA StoreTypesStep ==
  ASSUME IInv, Next
  PROVE  StoreTypes'
  <1>1. StoreTypes /\ RequestTypes /\ Holding
    BY TypeParts DEF IInv
  <1>2. DOMAIN rows' \subseteq Token /\ \A x \in DOMAIN rows' : rows'[x] \in Row
    <2>1. CASE Kept
      BY <1>1, <2>1 DEF Kept, StoreTypes
    <2>2. ASSUME NEW r \in Request, Insert(r)
          PROVE  DOMAIN rows' \subseteq Token /\ \A x \in DOMAIN rows' : rows'[x] \in Row
      BY <1>1, <2>2, InsertRows DEF StoreTypes
    <2>3. QED
      BY <2>1, <2>2, Steps, MovingKeeps, TickKeeps
  <1>3. /\ DOMAIN spent' \subseteq LogoutToken /\ \A k \in DOMAIN spent' : spent'[k] \in Nat
        /\ replayed' \subseteq LogoutToken
    <2>1. CASE UNCHANGED <<spent, replayed>>
      BY <1>1, <2>1 DEF StoreTypes
    <2>2. ASSUME NEW r \in Request, Consume(r) PROVE <1>3!:
      <3>1. token[r] \in LogoutToken /\ now[r] \in Nat
        BY <1>1, <2>2 DEF Consume, Holding, RequestTypes
      <3>2. Remembered(now[r]) \subseteq DOMAIN spent
        BY DEF Remembered
      <3>3. QED
        BY <1>1, <2>2, <3>1, <3>2, DurationTypes DEF Consume, StoreTypes
    <2>3. ASSUME NEW r \in Request, Replay(r) PROVE <1>3!:
      <3>1. Remembered(now[r]) \subseteq DOMAIN spent
        BY DEF Remembered
      <3>2. QED
        BY <1>1, <2>3, <3>1 DEF Replay, StoreTypes
    <2>4. ASSUME NEW r \in Request, Moving(r), ~Consume(r), ~Replay(r)
          PROVE  UNCHANGED <<spent, replayed>>
      BY <2>4 DEF Moving, Login, Present, LogoutStarts, ProviderLogout, LookupFinds,
         LookupMisses, Recover, Unauthenticated, Renew, Repeat, Refuse, Overloaded,
         Unavailable, Declined, Reauthenticate, Logout, store
    <2>5. QED
      BY <2>1, <2>2, <2>3, <2>4, Steps DEF Insert, Tick, store
  <1>4. QED
    BY <1>2, <1>3 DEF StoreTypes

LEMMA TypeStep ==
  ASSUME IInv, Next
  PROVE  TypeOK'
  BY StoreTypesStep, RequestTypesStep, TypeParts DEF TypeOK, StoreTypes, RequestTypes

-----------------------------------------------------------------------------
(* The rows of a family.                                                   *)

LEMMA OneActiveStep ==
  ASSUME IInv, Next
  PROVE  OneActivePerFamily'
  <1>1. SUFFICES ASSUME NEW f \in Family, NEW x \in ActiveOf(f)', NEW y \in ActiveOf(f)'
                 PROVE  x = y
    BY DEF OneActivePerFamily
  <1>2. OneActivePerFamily
    BY DEF IInv
  <1>3. CASE Kept
    BY <1>1, <1>2, <1>3 DEF Kept, ActiveOf, OneActivePerFamily
  <1>4. ASSUME NEW r \in Request, Insert(r) PROVE x = y
    <2>1. \A z \in ActiveOf(f)' : \/ z = token[r]
                                  \/ z \in ActiveOf(f) /\ z # Pred(token[r])
      BY <1>4, InsertRows DEF ActiveOf
    <2>2. token[r] \in ActiveOf(f)' => ActiveOf(f) \subseteq {Pred(token[r])}
      BY <1>2, <1>4, InsertRows DEF ActiveOf, OneActivePerFamily
    <2>3. QED
      BY <1>1, <1>2, <2>1, <2>2 DEF OneActivePerFamily
  <1>5. QED
    BY <1>3, <1>4, Steps, MovingKeeps, TickKeeps

LEMMA DeadlineStep ==
  ASSUME IInv, Next
  PROVE  DeadlineKept'
  <1>1. DeadlineKept /\ HeldDeadline /\ TypeOK /\ Holding
    BY DEF IInv
  <1>2. CASE Kept
    BY <1>1, <1>2 DEF Kept, DeadlineKept
  <1>3. ASSUME NEW r \in Request, Insert(r) PROVE DeadlineKept'
    <2>1. held[r].expires <= held[r].created + Lifetime
      BY <1>1, <1>3, InsertRows DEF HeldDeadline, WithSession
    <2>2. \A y \in DOMAIN rows :
            y[1] = token[r][1] => /\ rows[y].created = held[r].created
                                  /\ rows[y].expires = held[r].expires
      <3>1. SUFFICES ASSUME NEW y \in DOMAIN rows, y[1] = token[r][1]
                     PROVE  /\ rows[y].created = held[r].created
                            /\ rows[y].expires = held[r].expires
        OBVIOUS
      <3>2. /\ Pred(token[r]) \in DOMAIN rows
            /\ Pred(token[r])[1] = token[r][1]
            /\ rows[Pred(token[r])].expires > now[r]
        BY <1>3, <3>1, InsertRows DEF ActiveOf
      <3>3. rows[y].expires = rows[Pred(token[r])].expires
        BY <1>1, <3>1, <3>2 DEF DeadlineKept
      <3>4. rows[y].expires \in Nat /\ now[r] \in Nat
        BY <1>1 DEF TypeOK, Row
      <3>5. ~(rows[y].expires <= now[r])
        BY <3>2, <3>3, <3>4
      <3>6. QED
        BY <1>1, <1>3, <3>1, <3>5, InsertRows DEF HeldDeadline, WithSession
    <2>3. QED
      BY <1>1, <1>3, <2>1, <2>2, InsertRows DEF DeadlineKept
  <1>4. QED
    BY <1>2, <1>3, Steps, MovingKeeps, TickKeeps

-----------------------------------------------------------------------------
(* The requests.                                                           *)

(* A step of a request leaves the others alone.                            *)
LEMMA OthersKeep ==
  ASSUME IInv, NEW r \in Request, Moving(r) \/ Insert(r), NEW q \in Request \ {r}
  PROVE  /\ pc'[q] = pc[q] /\ token'[q] = token[q] /\ held'[q] = held[q]
         /\ now'[q] = now[q]
  <1>1. RequestTypes
    BY TypeParts DEF IInv
  <1>2. ASSUME NEW cookies, End(r, cookies)
        PROVE  /\ pc'[q] = pc[q] /\ token'[q] = token[q] /\ held'[q] = held[q]
               /\ now'[q] = now[q]
    BY <1>1, <1>2 DEF End, RequestTypes
  <1>3. ASSUME NEW x, NEW row, NEW c, Verified(r, x, row, c)
        PROVE  /\ pc'[q] = pc[q] /\ token'[q] = token[q] /\ held'[q] = held[q]
               /\ now'[q] = now[q]
    BY <1>1, <1>2, <1>3 DEF Verified, RequestTypes
  <1>4. ASSUME GoesOn(r)
        PROVE  /\ pc'[q] = pc[q] /\ token'[q] = token[q] /\ held'[q] = held[q]
               /\ now'[q] = now[q]
    BY <1>1, <1>2, <1>4 DEF GoesOn, RequestTypes
  <1>5. CASE Login(r) \/ Present(r) \/ LogoutStarts(r) \/ ProviderLogout(r)
    BY <1>1, <1>5 DEF Login, Present, LogoutStarts, ProviderLogout, Begin, RequestTypes
  <1>6. CASE LookupFinds(r) \/ Recover(r)
    BY <1>3, <1>6 DEF LookupFinds, Recover
  <1>7. CASE \/ Unauthenticated(r) \/ Refuse(r) \/ Overloaded(r) \/ Declined(r)
             \/ Logout(r) \/ Consume(r) \/ Replay(r)
    BY <1>2, <1>7 DEF Unauthenticated, Refuse, Overloaded, Unavailable, Declined,
       Logout, Consume, Replay
  <1>8. CASE LookupMisses(r) \/ Renew(r) \/ Reauthenticate(r)
    BY <1>1, <1>8 DEF LookupMisses, Renew, Reauthenticate, RequestTypes
  <1>9. CASE Insert(r) \/ Repeat(r)
    BY <1>4, <1>9 DEF Insert, Repeat
  <1>10. QED
    BY <1>5, <1>6, <1>7, <1>8, <1>9 DEF Moving

(* A request that ends holds nothing.                                      *)
LEMMA EndIdle ==
  ASSUME IInv, NEW r \in Request, NEW cookies, End(r, cookies)
  PROVE  pc'[r] = "idle" /\ drawn' = drawn
  BY DEF End, IInv, TypeOK

(* A request that was verified and has not ended holds a row of the table. *)
LEMMA VerifiedHolds ==
  ASSUME IInv, NEW r \in Request, LookupFinds(r) \/ Recover(r)
  PROVE  /\ drawn' = drawn
         /\ \/ pc'[r] = "idle"
            \/ /\ pc'[r] \in {"renew", "handler"}
               /\ token'[r] \in DOMAIN rows
               /\ held'[r] \in Row
               /\ held'[r].created = rows[token'[r]].created
               /\ held'[r].expires = rows[token'[r]].expires
  <1>1. RequestTypes /\ StoreTypes
    BY TypeParts DEF IInv
  <1>2. ASSUME NEW x \in DOMAIN rows, NEW c,
               Verified(r, x, Touched(rows[x], now[r]), c)
        PROVE  /\ drawn' = drawn
               /\ \/ pc'[r] = "idle"
                  \/ /\ pc'[r] \in {"renew", "handler"}
                     /\ token'[r] = x
                     /\ held'[r] = Touched(rows[x], now[r])
    BY <1>1, <1>2, EndIdle DEF Verified, RequestTypes, outside
  <1>3. \A x \in DOMAIN rows :
          /\ Touched(rows[x], now[r]) \in Row
          /\ Touched(rows[x], now[r]).created = rows[x].created
          /\ Touched(rows[x], now[r]).expires = rows[x].expires
    BY <1>1, TouchedRow DEF StoreTypes, RequestTypes
  <1>4. QED
    BY <1>2, <1>3 DEF LookupFinds, Recover, Recoverable

(* A request that goes on after it stored its row holds that row.          *)
LEMMA GoesOnHolds ==
  ASSUME IInv, NEW r \in Request, GoesOn(r)
  PROVE  /\ drawn' = drawn
         /\ \/ pc'[r] = "idle"
            \/ pc'[r] = "handler" /\ token'[r] = token[r] /\ held'[r] = held[r]
  BY EndIdle DEF GoesOn, IInv, TypeOK, outside

(* A row that is built has the successor of the cookie.                    *)
LEMMA RenewHolds ==
  ASSUME IInv, NEW r \in Request, Renew(r)
  PROVE  /\ drawn' = drawn /\ pc'[r] = "write" /\ now'[r] = clock
         /\ token'[r] \in Token /\ token'[r][1] = token[r][1] /\ token'[r][2] # 0
         /\ held'[r] \in Row /\ held'[r].revoked = 0
         /\ held'[r].created = held[r].created
         /\ held'[r].expires = Deadline(held[r], clock)
  <1>1. token[r] \in Token /\ held[r] \in Row /\ clock \in Nat
    BY DEF IInv, TypeOK, Renew, Holding, WithSession
  <1>2. Succ(token[r]) \in Token /\ Succ(token[r])[1] = token[r][1]
          /\ Succ(token[r])[2] # 0 /\ Deadline(held[r], clock) \in Nat
    BY <1>1, SuccToken, DeadlineType DEF Renew
  <1>3. held'[r] = [held[r] EXCEPT !.seen = clock, !.rotated = clock,
                                   !.expires = Deadline(held[r], clock), !.revoked = 0]
    BY DEF Renew, IInv, TypeOK
  <1> DEFINE e == Deadline(held[r], clock)
             new == [held[r] EXCEPT !.seen = clock, !.rotated = clock, !.expires = e,
                                    !.revoked = 0]
  <1>4. /\ held'[r] \in Row /\ held'[r].revoked = 0
        /\ held'[r].created = held[r].created
        /\ held'[r].expires = e
    <2>1. e \in Nat /\ held'[r] = new
      BY <1>2, <1>3
    <2> HIDE DEF e
    <2>2. new \in Row /\ new.created = held[r].created /\ new.expires = e /\ new.revoked = 0
      BY <1>1, <2>1 DEF Row
    <2>3. QED
      BY <2>1, <2>2
  <1>5. QED
    BY <1>2, <1>4 DEF Renew, IInv, TypeOK, outside

LEMMA ReauthenticateHolds ==
  ASSUME IInv, NEW r \in Request, Reauthenticate(r)
  PROVE  /\ drawn' = drawn /\ pc[r] = "handler" /\ pc'[r] = "renew"
         /\ token'[r] = token[r] /\ held'[r] \in Row
         /\ held'[r].created = held[r].created /\ held'[r].expires = held[r].expires
  <1>1. held[r] \in Row /\ clock \in Nat
    BY DEF IInv, TypeOK, Reauthenticate, Holding, WithSession
  <1>2. held'[r] = [held[r] EXCEPT !.sudo = clock]
    BY DEF Reauthenticate, IInv, TypeOK
  <1>3. QED
    BY <1>1, <1>2 DEF Reauthenticate, IInv, TypeOK, outside, Row

LEMMA LoginHolds ==
  ASSUME IInv, NEW r \in Request, Login(r)
  PROVE  \E f \in Family \ drawn :
           /\ drawn' = drawn \cup {f} /\ pc'[r] = "write" /\ now'[r] = clock
           /\ token'[r] = <<f, 0>> /\ token'[r] \in Token
           /\ held'[r] \in Row /\ held'[r].revoked = 0
           /\ held'[r].expires <= held'[r].created + Lifetime
           /\ UNCHANGED rows
  <1>1. PICK f \in Family \ drawn, u \in User, t \in Sid \cup {None} :
          /\ Begin(r, "write", "login", <<f, 0>>)
          /\ held' = [held EXCEPT ![r] = Issued(u, t, clock)]
          /\ drawn' = drawn \cup {f}
          /\ UNCHANGED <<store, known, issued, clock>>
    BY DEF Login
  <1>2. held'[r] = Issued(u, t, clock) /\ clock \in Nat
    BY <1>1 DEF IInv, TypeOK
  <1>3. QED
    BY <1>1, <1>2, IssuedRow, FirstToken DEF Begin, IInv, TypeOK, store

(* Any other step leaves the request without a session.                    *)
LEMMA NoSessionAfter ==
  ASSUME IInv, NEW r \in Request,
         \/ Present(r) \/ LogoutStarts(r) \/ ProviderLogout(r) \/ LookupMisses(r)
         \/ Unauthenticated(r) \/ Refuse(r) \/ Overloaded(r) \/ Declined(r)
         \/ Logout(r) \/ Consume(r) \/ Replay(r)
  PROVE  /\ drawn' = drawn
         /\ \/ pc'[r] = "idle"
            \/ /\ pc'[r] \in {"lookup", "logout", "recover"} /\ token'[r] \in Token
               /\ now'[r] # 0
            \/ /\ pc'[r] = "provider" /\ token'[r] \in LogoutToken /\ now'[r] # 0
  <1>1. TypeOK /\ Holding
    BY DEF IInv
  <1>2. CASE Present(r) \/ LogoutStarts(r) \/ ProviderLogout(r)
    BY <1>1, <1>2 DEF Present, LogoutStarts, ProviderLogout, Begin, TypeOK
  <1>3. CASE LookupMisses(r)
    BY <1>1, <1>3 DEF LookupMisses, TypeOK, Holding, outside
  <1>4. CASE \/ Unauthenticated(r) \/ Refuse(r) \/ Overloaded(r) \/ Declined(r)
             \/ Logout(r) \/ Consume(r) \/ Replay(r)
    BY <1>4, EndIdle DEF Unauthenticated, Refuse, Overloaded, Unavailable, Declined,
       Logout, Consume, Replay
  <1>5. QED
    BY <1>2, <1>3, <1>4

(* Every step of a request in one of the ways above.                       *)
LEMMA Ways ==
  ASSUME IInv, NEW r \in Request, Moving(r) \/ Insert(r)
  PROVE  \/ Login(r)
         \/ LookupFinds(r) \/ Recover(r)
         \/ Renew(r)
         \/ (Insert(r) \/ Repeat(r)) /\ GoesOn(r)
         \/ Reauthenticate(r)
         \/ \/ Present(r) \/ LogoutStarts(r) \/ ProviderLogout(r) \/ LookupMisses(r)
            \/ Unauthenticated(r) \/ Refuse(r) \/ Overloaded(r) \/ Declined(r)
            \/ Logout(r) \/ Consume(r) \/ Replay(r)
  BY DEF Moving, Insert, Repeat

(* What the request itself holds after its step.                           *)
LEMMA HoldsAfter ==
  ASSUME IInv, NEW r \in Request, Moving(r) \/ Insert(r)
  PROVE  /\ pc'[r] \in WithSession \cup {"lookup", "recover", "logout"}
              => token'[r] \in Token
         /\ pc'[r] = "provider" => token'[r] \in LogoutToken
         /\ pc'[r] \in WithSession => held'[r] \in Row
         /\ pc'[r] = "write" => held'[r].revoked = 0
         /\ pc'[r] \in {"lookup", "recover", "write", "logout", "provider"} => now'[r] # 0
  <1> USE DEF WithSession
  <1>1. TypeOK /\ Holding
    BY DEF IInv
  <1>2. CASE Login(r)
    BY <1>1, <1>2, LoginHolds DEF TypeOK
  <1>3. CASE LookupFinds(r) \/ Recover(r)
    BY <1>1, <1>3, VerifiedHolds DEF TypeOK
  <1>4. CASE Renew(r)
    BY <1>1, <1>4, RenewHolds DEF TypeOK
  <1>5. CASE (Insert(r) \/ Repeat(r)) /\ GoesOn(r)
    BY <1>1, <1>5, GoesOnHolds DEF Insert, Repeat, Holding
  <1>6. CASE Reauthenticate(r)
    BY <1>1, <1>6, ReauthenticateHolds DEF Holding
  <1>7. CASE \/ Present(r) \/ LogoutStarts(r) \/ ProviderLogout(r) \/ LookupMisses(r)
             \/ Unauthenticated(r) \/ Refuse(r) \/ Overloaded(r) \/ Declined(r)
             \/ Logout(r) \/ Consume(r) \/ Replay(r)
    BY <1>7, NoSessionAfter
  <1>8. QED
    BY <1>2, <1>3, <1>4, <1>5, <1>6, <1>7, Ways

LEMMA HoldingStep ==
  ASSUME IInv, Next
  PROVE  Holding'
  <1>1. Holding
    BY DEF IInv
  <1>2. CASE Tick
    BY <1>1, <1>2 DEF Tick, Holding
  <1>3. ASSUME NEW r \in Request, Moving(r) \/ Insert(r) PROVE Holding'
    BY <1>1, <1>3, HoldsAfter, OthersKeep DEF Holding
  <1>4. QED
    BY <1>2, <1>3, Steps

(* The family a request works with was drawn, and it is the family that it *)
(* worked with before, that of a row, or new.                              *)
LEMMA FamilyAfter ==
  ASSUME IInv, NEW r \in Request, Moving(r) \/ Insert(r)
  PROVE  \/ /\ drawn' = drawn
            /\ pc'[r] \in WithSession =>
                 \/ pc[r] \in WithSession /\ token'[r][1] = token[r][1]
                 \/ \E x \in DOMAIN rows : token'[r][1] = x[1]
            /\ pc'[r] = "write" => token'[r][2] # 0
         \/ \E f \in Family \ drawn :
              drawn' = drawn \cup {f} /\ pc'[r] = "write" /\ token'[r][1] = f /\ UNCHANGED rows
  <1> USE DEF WithSession
  <1>2. CASE Login(r)
    BY <1>2, LoginHolds
  <1>3. CASE LookupFinds(r) \/ Recover(r)
    BY <1>3, VerifiedHolds
  <1>4. CASE Renew(r)
    BY <1>4, RenewHolds DEF Renew
  <1>5. CASE (Insert(r) \/ Repeat(r)) /\ GoesOn(r)
    BY <1>5, GoesOnHolds DEF Insert, Repeat
  <1>6. CASE Reauthenticate(r)
    BY <1>6, ReauthenticateHolds
  <1>7. CASE \/ Present(r) \/ LogoutStarts(r) \/ ProviderLogout(r) \/ LookupMisses(r)
             \/ Unauthenticated(r) \/ Refuse(r) \/ Overloaded(r) \/ Declined(r)
             \/ Logout(r) \/ Consume(r) \/ Replay(r)
    BY <1>7, NoSessionAfter
  <1>8. QED
    BY <1>2, <1>3, <1>4, <1>5, <1>6, <1>7, Ways

LEMMA DrawnStep ==
  ASSUME IInv, Next
  PROVE  Drawn'
  <1>1. Drawn /\ TypeOK
    BY DEF IInv
  <1>2. CASE Tick
    BY <1>1, <1>2 DEF Tick, Drawn, store
  <1>3. ASSUME NEW r \in Request, Moving(r) \/ Insert(r) PROVE Drawn'
    <2>1. \A y \in DOMAIN rows' :
            \/ y \in DOMAIN rows
            \/ pc[r] \in WithSession /\ y = token[r]
      BY <1>3, MovingKeeps, InsertRows DEF Kept, WithSession
    <2>2. drawn \subseteq drawn'
      BY <1>3, FamilyAfter
    <2>3. \A y \in DOMAIN rows' : y[1] \in drawn'
      BY <1>1, <2>1, <2>2 DEF Drawn
    <2>4. ASSUME NEW q \in Request, pc'[q] \in WithSession
          PROVE  token'[q][1] \in drawn'
      <3>1. CASE q = r
        BY <1>1, <1>3, <2>2, <2>4, <3>1, FamilyAfter DEF Drawn
      <3>2. CASE q # r
        BY <1>1, <1>3, <2>2, <2>4, <3>2, OthersKeep DEF Drawn
      <3>3. QED
        BY <3>1, <3>2
    <2>5. ASSUME NEW p \in Request, pc'[p] = "write", token'[p][2] = 0
          PROVE  /\ \A y \in DOMAIN rows' : y[1] # token'[p][1]
                 /\ \A q \in Request \ {p} :
                      pc'[q] \in WithSession => token'[q][1] # token'[p][1]
      <3>1. CASE p = r
        <4>1. PICK f \in Family \ drawn : token'[r][1] = f /\ UNCHANGED rows
          BY <1>3, <2>5, <3>1, FamilyAfter
        <4>2. \A q \in Request \ {r} : pc'[q] \in WithSession => token'[q][1] \in drawn
          BY <1>1, <1>3, OthersKeep DEF Drawn
        <4>3. QED
          BY <1>1, <3>1, <4>1, <4>2 DEF Drawn
      <3>2. CASE p # r
        <4>1. pc[p] = "write" /\ token'[p] = token[p] /\ token[p][2] = 0
          BY <1>3, <2>5, <3>2, OthersKeep
        <4>2. /\ token[p][1] \in drawn
              /\ \A y \in DOMAIN rows : y[1] # token[p][1]
              /\ \A q \in Request \ {p} : pc[q] \in WithSession => token[q][1] # token[p][1]
          BY <1>1, <4>1 DEF Drawn, WithSession
        <4>3. \A y \in DOMAIN rows' : y[1] # token[p][1]
          BY <2>1, <3>2, <4>2
        <4>4. ASSUME NEW q \in Request \ {p}, pc'[q] \in WithSession
              PROVE  token'[q][1] # token[p][1]
          <5>1. CASE q = r
            BY <1>3, <4>2, <4>4, <5>1, FamilyAfter
          <5>2. CASE q # r
            BY <1>3, <4>2, <4>4, <5>2, OthersKeep
          <5>3. QED
            BY <5>1, <5>2
        <4>5. QED
          BY <4>1, <4>3, <4>4
      <3>3. QED
        BY <3>1, <3>2
    <2>6. QED
      BY <2>3, <2>4, <2>5 DEF Drawn
  <1>4. QED
    BY <1>2, <1>3, Steps

(* HeldDeadline of one request.                                            *)
Bound(q) ==
  /\ held[q].expires <= held[q].created + Lifetime
  /\ \A x \in DOMAIN rows : x[1] = token[q][1] =>
       /\ rows[x].created = held[q].created
       /\ \/ rows[x].expires = held[q].expires
          \/ pc[q] = "write" /\ rows[x].expires <= now[q]

LEMMA BoundParts == HeldDeadline <=> \A q \in Request : pc[q] \in WithSession => Bound(q)
  BY DEF HeldDeadline, Bound

(* A request with a session keeps to the deadline as long as its place and *)
(* what it holds stay the same and the rows are kept.                      *)
LEMMA KeptBound ==
  ASSUME Kept, NEW q \in Request, Bound(q),
         token'[q] = token[q], held'[q].created = held[q].created,
         held'[q].expires = held[q].expires,
         pc[q] = "write" => pc'[q] = "write" /\ now'[q] = now[q]
  PROVE  Bound(q)'
  BY DEF Kept, Bound

(* The row that is inserted has the deadline of the family.                *)
LEMMA InsertDeadline ==
  ASSUME IInv, NEW r \in Request, Insert(r), NEW y \in DOMAIN rows, y[1] = token[r][1]
  PROVE  /\ rows[y].created = held[r].created
         /\ rows[y].expires = held[r].expires
  <1>1. DeadlineKept /\ HeldDeadline /\ TypeOK
    BY DEF IInv
  <1>2. /\ Pred(token[r]) \in DOMAIN rows
        /\ Pred(token[r])[1] = token[r][1]
        /\ rows[Pred(token[r])].expires > now[r]
    BY InsertRows DEF ActiveOf
  <1>3. rows[y].expires = rows[Pred(token[r])].expires
    BY <1>1, <1>2 DEF DeadlineKept
  <1>4. rows[y].expires \in Nat /\ now[r] \in Nat
    BY <1>1 DEF TypeOK, Row
  <1>5. ~(rows[y].expires <= now[r])
    BY <1>2, <1>3, <1>4
  <1>6. QED
    BY <1>1, <1>5, InsertRows DEF HeldDeadline, WithSession

(* The other requests of the family agree with the row that is inserted.   *)
LEMMA InsertBoundOthers ==
  ASSUME IInv, NEW r \in Request, Insert(r), NEW q \in Request \ {r},
         pc[q] \in WithSession
  PROVE  Bound(q)'
  <1>1. /\ Bound(q) /\ pc'[q] = pc[q] /\ token'[q] = token[q] /\ held'[q] = held[q]
        /\ now'[q] = now[q]
    BY OthersKeep, BoundParts DEF IInv
  <1>2. ASSUME token[r] \in DOMAIN rows', token[r][1] = token[q][1]
        PROVE  /\ rows'[token[r]].created = held[q].created
               /\ \/ rows'[token[r]].expires = held[q].expires
                  \/ pc[q] = "write" /\ rows'[token[r]].expires <= now[q]
    <2>1. Pred(token[r]) \in ActiveOf(token[r][1])
      BY <1>2, InsertRows DEF IInv, Drawn
    <2>2. Pred(token[r]) \in DOMAIN rows /\ Pred(token[r])[1] = token[r][1]
      BY <2>1 DEF ActiveOf
    <2>3. QED
      BY <1>1, <1>2, <2>2, InsertRows, InsertDeadline DEF Bound
  <1>3. QED
    BY <1>1, <1>2, InsertRows DEF Bound

(* The request that inserted its row.                                      *)
LEMMA InsertBound ==
  ASSUME IInv, NEW r \in Request, Insert(r), pc'[r] \in WithSession
  PROVE  Bound(r)'
  <1>1. held'[r] = held[r] /\ token'[r] = token[r]
    BY GoesOnHolds DEF Insert, WithSession
  <1>2. Bound(r)
    BY InsertRows, BoundParts DEF IInv, WithSession
  <1>3. QED
    BY <1>1, <1>2, InsertRows, InsertDeadline DEF Bound

(* A request whose row another one had stored.                             *)
LEMMA RepeatBound ==
  ASSUME IInv, NEW r \in Request, Repeat(r), pc'[r] \in WithSession
  PROVE  Bound(r)'
  <1>1. held'[r] = held[r] /\ token'[r] = token[r] /\ rows' = rows
    BY GoesOnHolds DEF Repeat, WithSession, store
  <1>2. Bound(r)
    BY BoundParts DEF IInv, WithSession, Repeat
  <1>3. token[r] \in DOMAIN rows /\ rows[token[r]].expires = held[r].expires
    BY DEF Repeat, AlreadyInserted
  <1>4. QED
    BY <1>1, <1>2, <1>3 DEF Bound, IInv, DeadlineKept

(* A row that is built has the deadline of the family, unless that is over. *)
LEMMA RenewBound ==
  ASSUME IInv, NEW r \in Request, Renew(r)
  PROVE  Bound(r)'
  <1>1. /\ token'[r][1] = token[r][1] /\ rows' = rows
        /\ pc'[r] = "write" /\ now'[r] = clock
        /\ held'[r].created = held[r].created
        /\ held'[r].expires = Deadline(held[r], clock)
    BY RenewHolds DEF Renew, store
  <1>2. held[r] \in Row /\ clock \in Nat /\ Bound(r) /\ pc[r] = "renew"
    BY BoundParts DEF IInv, TypeOK, Holding, WithSession, Renew
  <1>3. /\ Deadline(held[r], clock) <= held[r].created + Lifetime
        /\ Deadline(held[r], clock) = held[r].expires \/ held[r].expires <= clock
    BY <1>2, DeadlineType DEF Bound, Row
  <1>4. QED
    BY <1>1, <1>2, <1>3 DEF Bound

(* A request that was verified holds a row of the table.                   *)
LEMMA VerifiedBound ==
  ASSUME IInv, NEW r \in Request, LookupFinds(r) \/ Recover(r), pc'[r] \in WithSession
  PROVE  Bound(r)'
  <1>1. /\ token'[r] \in DOMAIN rows
        /\ held'[r].created = rows[token'[r]].created
        /\ held'[r].expires = rows[token'[r]].expires
    BY VerifiedHolds DEF WithSession
  <1>2. Kept
    BY MovingKeeps DEF Moving
  <1>3. QED
    BY <1>1, <1>2 DEF Kept, Bound, IInv, DeadlineKept

(* The row of a login is the first of its family.                          *)
LEMMA LoginBound ==
  ASSUME IInv, NEW r \in Request, Login(r)
  PROVE  Bound(r)'
  BY LoginHolds DEF Bound, IInv, Drawn

LEMMA HeldDeadlineStep ==
  ASSUME IInv, Next
  PROVE  HeldDeadline'
  <1>1. \A q \in Request : pc[q] \in WithSession => Bound(q)
    BY BoundParts DEF IInv
  <1>2. SUFFICES ASSUME NEW q \in Request, pc'[q] \in WithSession
                 PROVE  Bound(q)'
    BY DEF HeldDeadline, Bound
  <1>3. CASE Tick
    BY <1>1, <1>2, <1>3, KeptBound, TickKeeps DEF Tick
  <1>4. ASSUME NEW r \in Request, Moving(r) \/ Insert(r), q # r
        PROVE  Bound(q)'
    <2>1. pc'[q] = pc[q] /\ token'[q] = token[q] /\ held'[q] = held[q] /\ now'[q] = now[q]
      BY <1>4, OthersKeep
    <2>2. CASE Moving(r)
      BY <1>1, <1>2, <2>1, <2>2, KeptBound, MovingKeeps
    <2>3. CASE Insert(r)
      BY <1>2, <1>4, <2>1, <2>3, InsertBoundOthers
    <2>4. QED
      BY <1>4, <2>2, <2>3
  <1>5. ASSUME Moving(q) \/ Insert(q)
        PROVE  Bound(q)'
    <2>1. CASE Login(q)
      BY <2>1, LoginBound
    <2>2. CASE LookupFinds(q) \/ Recover(q)
      BY <1>2, <2>2, VerifiedBound
    <2>3. CASE Renew(q)
      BY <2>3, RenewBound
    <2>4. CASE (Insert(q) \/ Repeat(q)) /\ GoesOn(q)
      BY <1>2, <2>4, InsertBound, RepeatBound
    <2>5. CASE Reauthenticate(q)
      <3>1. Kept
        BY <2>5, MovingKeeps DEF Moving
      <3>2. QED
        BY <1>1, <2>5, <3>1, KeptBound, ReauthenticateHolds DEF WithSession
    <2>6. CASE \/ Present(q) \/ LogoutStarts(q) \/ ProviderLogout(q) \/ LookupMisses(q)
               \/ Unauthenticated(q) \/ Refuse(q) \/ Overloaded(q) \/ Declined(q)
               \/ Logout(q) \/ Consume(q) \/ Replay(q)
      BY <1>2, <2>6, NoSessionAfter DEF WithSession
    <2>7. QED
      BY <1>5, <2>1, <2>2, <2>3, <2>4, <2>5, <2>6, Ways
  <1>6. QED
    BY <1>3, <1>4, <1>5, Steps

-----------------------------------------------------------------------------
(* Times: what a transaction works with is not older than Delay.           *)

Timed == {"lookup", "recover", "write", "logout", "provider"}

(* A step of a request takes no time, and only the provider issues tokens. *)
LEMMA ClockKept ==
  ASSUME IInv, NEW r \in Request, Moving(r) \/ Insert(r)
  PROVE  clock' = clock /\ (issued' = issued \/ ProviderLogout(r))
  <1>1. CASE Login(r) \/ Present(r) \/ LogoutStarts(r) \/ ProviderLogout(r)
    BY <1>1 DEF Login, Present, LogoutStarts, ProviderLogout
  <1>2. CASE LookupFinds(r) \/ Recover(r)
    BY <1>2 DEF LookupFinds, Recover, Verified, End, outside
  <1>3. CASE Insert(r) \/ Repeat(r)
    BY <1>3 DEF Insert, Repeat, GoesOn, End, outside
  <1>4. CASE LookupMisses(r) \/ Renew(r) \/ Reauthenticate(r)
    BY <1>4 DEF LookupMisses, Renew, Reauthenticate, outside
  <1>5. CASE \/ Unauthenticated(r) \/ Refuse(r) \/ Overloaded(r) \/ Declined(r)
             \/ Logout(r) \/ Consume(r) \/ Replay(r)
    BY <1>5 DEF Unauthenticated, Refuse, Overloaded, Unavailable, Declined, Logout,
       Consume, Replay, End
  <1>6. QED
    BY <1>1, <1>2, <1>3, <1>4, <1>5 DEF Moving

(* A request reads the clock before its transaction, or goes on with the   *)
(* time it read.                                                           *)
LEMMA NowAfter ==
  ASSUME IInv, NEW r \in Request, Moving(r) \/ Insert(r), pc'[r] \in Timed
  PROVE  \/ now'[r] = clock
         \/ pc[r] \in Timed /\ now'[r] = now[r]
  <1> USE DEF Timed
  <1>1. CASE Login(r) \/ Renew(r)
    BY <1>1, LoginHolds, RenewHolds
  <1>2. CASE LookupFinds(r) \/ Recover(r)
    BY <1>2, VerifiedHolds
  <1>3. CASE (Insert(r) \/ Repeat(r)) /\ GoesOn(r)
    BY <1>3, GoesOnHolds
  <1>4. CASE Reauthenticate(r)
    BY <1>4, ReauthenticateHolds
  <1>5. CASE Present(r) \/ LogoutStarts(r) \/ ProviderLogout(r)
    BY <1>5 DEF Present, LogoutStarts, ProviderLogout, Begin, IInv, TypeOK
  <1>6. CASE LookupMisses(r)
    BY <1>6 DEF LookupMisses
  <1>7. CASE \/ Unauthenticated(r) \/ Refuse(r) \/ Overloaded(r) \/ Declined(r)
             \/ Logout(r) \/ Consume(r) \/ Replay(r)
    BY <1>7, EndIdle DEF Unauthenticated, Refuse, Overloaded, Unavailable, Declined,
       Logout, Consume, Replay
  <1>8. QED
    BY <1>1, <1>2, <1>3, <1>4, <1>5, <1>6, <1>7, Ways

(* A logout token comes to the server as the provider sent it.             *)
LEMMA ProviderAfter ==
  ASSUME IInv, NEW r \in Request, Moving(r) \/ Insert(r), pc'[r] = "provider"
  PROVE  ProviderLogout(r)
  <1>1. CASE Login(r) \/ Renew(r)
    BY <1>1, LoginHolds, RenewHolds
  <1>2. CASE LookupFinds(r) \/ Recover(r)
    BY <1>2, VerifiedHolds
  <1>3. CASE (Insert(r) \/ Repeat(r)) /\ GoesOn(r)
    BY <1>3, GoesOnHolds
  <1>4. CASE Reauthenticate(r)
    BY <1>4, ReauthenticateHolds
  <1>5. CASE Present(r) \/ LogoutStarts(r) \/ LookupMisses(r)
    BY <1>5 DEF Present, LogoutStarts, LookupMisses, Begin, IInv, TypeOK
  <1>6. CASE \/ Unauthenticated(r) \/ Refuse(r) \/ Overloaded(r) \/ Declined(r)
             \/ Logout(r) \/ Consume(r) \/ Replay(r)
    BY <1>6, EndIdle DEF Unauthenticated, Refuse, Overloaded, Unavailable, Declined,
       Logout, Consume, Replay
  <1>7. QED
    BY <1>1, <1>2, <1>3, <1>4, <1>5, <1>6, Ways

(* A token that is sent was issued within LogoutAge.                       *)
LEMMA Sent ==
  ASSUME IInv, NEW r \in Request, ProviderLogout(r)
  PROVE  \E k \in LogoutToken :
           /\ token'[r] = k /\ now'[r] = clock
           /\ issued'[k] # 0 /\ issued'[k] <= clock /\ clock <= issued'[k] + LogoutAge
           /\ \A j \in LogoutToken : issued[j] # 0 => issued'[j] = issued[j]
           /\ UNCHANGED <<spent, replayed>>
  <1>1. PICK k \in LogoutToken :
          /\ issued[k] # 0 => clock - issued[k] <= LogoutAge
          /\ issued' = [issued EXCEPT ![k] = IF @ = 0 THEN clock ELSE @]
          /\ Begin(r, "provider", "logout", k)
          /\ UNCHANGED <<store, known, drawn, clock, held>>
    BY DEF ProviderLogout
  <1>2. /\ issued \in [LogoutToken -> Nat] /\ clock \in Nat \ {0} /\ LogoutAge \in Nat
        /\ token'[r] = k /\ now'[r] = clock
    BY <1>1, DurationAssumption DEF Begin, IInv, TypeOK
  <1>3. issued[k] <= clock
    BY DEF IInv, InTime
  <1>4. issued'[k] = IF issued[k] = 0 THEN clock ELSE issued[k]
    BY <1>1, <1>2
  <1>5. QED
    BY <1>1, <1>2, <1>3, <1>4 DEF store

LEMMA InTimeStep ==
  ASSUME IInv, Next
  PROVE  InTime'
  <1> USE DEF Timed
  <1>1. TypeOK /\ InTime /\ Holding
    BY DEF IInv
  <1>2. Delay \in Nat /\ LogoutAge \in Nat /\ clock \in Nat
    BY <1>1, DurationAssumption DEF TypeOK
  <1>3. CASE Tick
    <2>1. /\ clock' = clock + 1
          /\ UNCHANGED <<issued, pc, token, now>>
          /\ \A r \in Request : pc[r] \in Timed => clock - now[r] < Delay
      BY <1>3 DEF Tick
    <2>2. \A k \in LogoutToken : issued[k] \in Nat /\ issued[k] <= clock
      BY <1>1 DEF TypeOK, InTime
    <2>3. \A k \in LogoutToken : issued'[k] <= clock'
      BY <1>2, <2>1, <2>2
    <2>4. ASSUME NEW r \in Request, pc[r] \in Timed
          PROVE  now[r] <= clock + 1 /\ clock + 1 <= now[r] + Delay
      <3>1. now[r] \in Nat /\ now[r] <= clock /\ clock - now[r] < Delay
        BY <1>1, <2>1, <2>4 DEF TypeOK, InTime
      <3>2. QED
        BY <1>2, <3>1
    <2>5. QED
      BY <1>1, <2>1, <2>3, <2>4 DEF InTime
  <1>4. ASSUME NEW r \in Request, Moving(r) \/ Insert(r)
        PROVE  InTime'
    <2>1. clock' = clock
      BY <1>4, ClockKept
    <2>2. /\ \A k \in LogoutToken : issued'[k] <= clock
          /\ \A k \in LogoutToken : issued[k] # 0 => issued'[k] = issued[k]
      <3>1. CASE issued' = issued
        BY <1>1, <3>1 DEF InTime
      <3>2. CASE ProviderLogout(r)
        <4>1. PICK k \in LogoutToken :
                /\ issued' = [issued EXCEPT ![k] = IF @ = 0 THEN clock ELSE @]
          BY <3>2 DEF ProviderLogout
        <4>2. QED
          BY <1>1, <1>2, <4>1 DEF InTime, TypeOK
      <3>3. QED
        BY <1>4, <3>1, <3>2, ClockKept
    <2>3. ASSUME NEW q \in Request, pc'[q] \in Timed
          PROVE  now'[q] <= clock /\ clock <= now'[q] + Delay
      <3>1. CASE q = r
        BY <1>1, <1>2, <1>4, <2>3, <3>1, NowAfter DEF InTime
      <3>2. CASE q # r
        BY <1>1, <1>4, <2>3, <3>2, OthersKeep DEF InTime
      <3>3. QED
        BY <3>1, <3>2
    <2>4. ASSUME NEW q \in Request, pc'[q] = "provider"
          PROVE  /\ issued'[token'[q]] # 0
                 /\ issued'[token'[q]] <= now'[q]
                 /\ now'[q] <= issued'[token'[q]] + LogoutAge
      <3>1. CASE q = r
        <4>1. ProviderLogout(r)
          BY <1>4, <2>4, <3>1, ProviderAfter
        <4>2. QED
          BY <3>1, <4>1, Sent
      <3>2. CASE q # r
        <4>1. pc[q] = "provider" /\ token'[q] = token[q] /\ now'[q] = now[q]
          BY <1>4, <2>4, <3>2, OthersKeep
        <4>2. /\ token[q] \in LogoutToken /\ issued[token[q]] # 0
              /\ issued[token[q]] <= now[q] /\ now[q] <= issued[token[q]] + LogoutAge
          BY <1>1, <4>1 DEF InTime, Holding
        <4>3. QED
          BY <2>2, <4>1, <4>2
      <3>3. QED
        BY <3>1, <3>2
    <2>5. QED
      BY <2>1, <2>2, <2>3, <2>4 DEF InTime
  <1>5. QED
    BY <1>3, <1>4, Steps

-----------------------------------------------------------------------------
(* The logout tokens that took effect.                                     *)

(* Only the transactions of the provider's logouts touch their record.     *)
LEMMA RecordKept ==
  ASSUME IInv, NEW r \in Request, Moving(r) \/ Insert(r), ~Consume(r), ~Replay(r)
  PROVE  UNCHANGED <<spent, replayed>>
  BY DEF Moving, Login, Present, LogoutStarts, ProviderLogout, LookupFinds,
     LookupMisses, Recover, Unauthenticated, Renew, Insert, Repeat, Refuse, Overloaded,
     Unavailable, Declined, Reauthenticate, Logout, store

LEMMA RememberedStep ==
  ASSUME IInv, Next
  PROVE  LogoutsRemembered'
  <1>1. TypeOK /\ InTime /\ Holding /\ LogoutsRemembered
    BY DEF IInv
  <1>2. /\ Retention \in Nat /\ clock \in Nat
        /\ issued \in [LogoutToken -> Nat] /\ replayed \subseteq LogoutToken
        /\ \A k \in DOMAIN spent : spent[k] \in Nat
    BY <1>1, DurationTypes DEF TypeOK
  <1>3. CASE Tick
    <2>1. UNCHANGED <<spent, replayed, issued>> /\ clock' = clock + 1
      BY <1>3 DEF Tick, store
    <2>2. ASSUME NEW k \in replayed, clock >= issued[k] + Retention
          PROVE  clock' >= issued'[k] + Retention
      BY <1>2, <2>1, <2>2
    <2>3. QED
      BY <1>1, <2>1, <2>2 DEF LogoutsRemembered
  <1>4. ASSUME NEW r \in Request, Consume(r) \/ Replay(r)
        PROVE  LogoutsRemembered'
    <2>1. /\ pc[r] = "provider" /\ issued' = issued /\ clock' = clock
          /\ token[r] \in LogoutToken /\ now[r] \in Nat /\ now[r] <= clock
          /\ issued[token[r]] # 0 /\ issued[token[r]] <= now[r]
      BY <1>1, <1>4 DEF Consume, Replay, End, Holding, InTime, TypeOK
    <2>2. ASSUME NEW k \in replayed, k # token[r] \/ Replay(r)
          PROVE  /\ issued[k] # 0
                 /\ \/ k \in DOMAIN spent' /\ spent'[k] >= issued[k] + Retention
                    \/ clock >= issued[k] + Retention
      <3>1. CASE clock >= issued[k] + Retention
        BY <1>1, <3>1 DEF LogoutsRemembered
      <3>2. CASE k \in DOMAIN spent /\ spent[k] >= issued[k] + Retention /\ spent[k] > now[r]
        <4>1. k \in Remembered(now[r])
          BY <3>2 DEF Remembered
        <4>2. k \in DOMAIN spent' /\ spent'[k] = spent[k]
          BY <1>4, <2>2, <4>1 DEF Consume, Replay
        <4>3. QED
          BY <1>1, <3>2, <4>2 DEF LogoutsRemembered
      <3>3. CASE k \in DOMAIN spent /\ spent[k] >= issued[k] + Retention /\ ~(spent[k] > now[r])
        <4>1. spent[k] \in Nat /\ issued[k] \in Nat
          BY <1>2, <3>3
        <4>2. clock >= issued[k] + Retention
          BY <1>2, <2>1, <3>3, <4>1
        <4>3. QED
          BY <1>1, <4>2 DEF LogoutsRemembered
      <3>4. QED
        BY <1>1, <3>1, <3>2, <3>3 DEF LogoutsRemembered
    <2>3. CASE Consume(r)
      <3>1. /\ replayed' = replayed \cup {token[r]}
            /\ token[r] \in DOMAIN spent' /\ spent'[token[r]] = now[r] + Retention
        BY <2>3 DEF Consume
      <3>2. spent'[token[r]] >= issued[token[r]] + Retention
        BY <1>2, <2>1, <3>1
      <3>3. QED
        BY <2>1, <2>2, <3>1, <3>2 DEF LogoutsRemembered
    <2>4. CASE Replay(r)
      <3>1. replayed' = replayed
        BY <2>4 DEF Replay
      <3>2. QED
        BY <2>1, <2>2, <2>4, <3>1 DEF LogoutsRemembered
    <2>5. QED
      BY <1>4, <2>3, <2>4
  <1>5. ASSUME NEW r \in Request, Moving(r) \/ Insert(r), ~Consume(r), ~Replay(r)
        PROVE  LogoutsRemembered'
    <2>1. UNCHANGED <<spent, replayed>> /\ clock' = clock
      BY <1>5, RecordKept, ClockKept
    <2>2. \A k \in LogoutToken : issued[k] # 0 => issued'[k] = issued[k]
      BY <1>5, ClockKept, Sent
    <2>3. QED
      BY <1>1, <1>2, <2>1, <2>2 DEF LogoutsRemembered
  <1>6. QED
    BY <1>3, <1>4, <1>5, Steps

(* A token that took effect is still remembered when it comes again.       *)
LEMMA ReplayRefused ==
  ASSUME IInv, NEW r \in Request, pc[r] = "provider", token[r] \in replayed
  PROVE  token[r] \in Remembered(now[r])
  <1> DEFINE k == token[r]
             first == issued[k]
  <1>1. /\ k \in LogoutToken /\ first \in Nat /\ now[r] \in Nat /\ clock \in Nat
        /\ \A j \in DOMAIN spent : spent[j] \in Nat
    BY DEF IInv, TypeOK, Holding
  <1>2. /\ now[r] <= first + LogoutAge
        /\ clock <= now[r] + Delay
    BY DEF IInv, InTime
  <1>3. \/ k \in DOMAIN spent /\ spent[k] >= first + Retention
        \/ clock >= first + Retention
    BY DEF IInv, LogoutsRemembered
  <1>4. LogoutAge \in Nat /\ Delay \in Nat /\ Retention \in Nat /\ LogoutAge + Delay < Retention
    BY DurationAssumption, RetentionAssumption
  <1>5. ~(clock >= first + Retention)
    BY <1>1, <1>2, <1>4
  <1>6. k \in DOMAIN spent /\ spent[k] \in Nat /\ spent[k] >= first + Retention
    BY <1>1, <1>3, <1>5
  <1>7. spent[k] > now[r]
    BY <1>1, <1>2, <1>4, <1>6
  <1>8. QED
    BY <1>6, <1>7 DEF Remembered

-----------------------------------------------------------------------------
(* The sessions of a user.                                                 *)

Usable(u) == {x \in DOMAIN rows : /\ rows[x].user = u
                                  /\ rows[x].revoked = 0
                                  /\ rows[x].expires > clock}

LEMMA CappedIsUsable == ConcurrencyCapped <=> \A u \in User : Cardinality(Usable(u)) <= MaxConcurrent
  BY DEF ConcurrencyCapped, Usable

LEMMA FewerUsable ==
  ASSUME IsFiniteSet(DOMAIN rows), NEW u \in User, Cardinality(Usable(u)) <= MaxConcurrent,
         Usable(u)' \subseteq Usable(u)
  PROVE  Cardinality(Usable(u)') <= MaxConcurrent
  <1>1. IsFiniteSet(Usable(u))
    BY FS_Subset DEF Usable
  <1>2. IsFiniteSet(Usable(u)') /\ Cardinality(Usable(u)') <= Cardinality(Usable(u))
    BY <1>1, FS_Subset
  <1>3. Cardinality(Usable(u)) \in Nat /\ Cardinality(Usable(u)') \in Nat /\ MaxConcurrent \in Nat
    BY <1>1, <1>2, FS_CardinalityType, DurationAssumption
  <1>4. QED
    BY <1>2, <1>3

(* A new session leaves room for itself among the others of its user.      *)
LEMMA InsertUsable ==
  ASSUME IInv, NEW r \in Request, Insert(r), NEW u \in User
  PROVE  \/ Usable(u)' \subseteq Usable(u)
         \/ Cardinality(Usable(u)') <= MaxConcurrent
  <1> DEFINE x == token[r]
             t == now[r]
             table == Replaced(x, held[r], t)
  <1>1. /\ x \in Token /\ held[r] \in Row /\ t \in Nat /\ t # 0 /\ x \notin DOMAIN rows
        /\ clock \in Nat /\ t <= clock /\ clock' = clock
    BY InsertRows, ClockKept DEF IInv, Holding, WithSession, TypeOK, InTime
  <1>2. /\ DOMAIN table = DOMAIN rows \cup {x}
        /\ table[x] = held[r]
        /\ \A y \in DOMAIN rows :
             table[y] = IF y = Pred(x) THEN Revoked(rows[y], t) ELSE rows[y]
    BY <1>1 DEF Replaced
  <1>5. PICK X \in Surplus(table, x, t) :
          rows' = [y \in {z \in DOMAIN table : ~Outdated(table[z], t)} |->
                     IF y \in X THEN Revoked(table[y], t) ELSE table[y]]
    BY DEF Insert, Stored
  <1> HIDE DEF x, t, table
  <1>3. \A y \in DOMAIN rows : rows[y] \in Row
    BY DEF IInv, TypeOK
  <1>4. \A y \in DOMAIN rows :
          /\ table[y] \in Row /\ table[y].user = rows[y].user
          /\ table[y].expires = rows[y].expires
          /\ table[y].revoked = 0 => rows[y].revoked = 0
    <2> SUFFICES ASSUME NEW y \in DOMAIN rows
                 PROVE  /\ table[y] \in Row /\ table[y].user = rows[y].user
                        /\ table[y].expires = rows[y].expires
                        /\ table[y].revoked = 0 => rows[y].revoked = 0
      OBVIOUS
    <2>1. rows[y] \in Row
      BY <1>3
    <2>2. CASE y = Pred(x)
      <3>1. table[y] = Revoked(rows[y], t)
        BY <1>2, <2>2
      <3>2. QED
        BY <1>1, <2>1, <3>1, RevokedRow
    <2>3. CASE y # Pred(x)
      <3>1. table[y] = rows[y]
        BY <1>2, <2>3
      <3>2. QED
        BY <2>1, <3>1
    <2>4. QED
      BY <2>2, <2>3
  <1> DEFINE kept == Rivals(table, x, t) \ X
  <1>6. Cardinality(kept) < MaxConcurrent
    BY <1>5 DEF Surplus
  <1>7. IsFiniteSet(kept) /\ x \notin kept
    <2>1. IsFiniteSet(DOMAIN table)
      BY <1>2, FS_AddElement DEF IInv
    <2>2. kept \subseteq DOMAIN table /\ x \notin kept
      BY DEF Rivals
    <2>3. QED
      BY <2>1, <2>2, FS_Subset
  <1>8. \A y \in DOMAIN table : table[y] \in Row
    <2>1. table[x] \in Row
      BY <1>1, <1>2
    <2>2. \A y \in DOMAIN rows : table[y] \in Row
      BY <1>4
    <2>3. QED
      BY <1>2, <2>1, <2>2
  <1>9. \A y \in DOMAIN rows' :
          /\ y \in DOMAIN table /\ rows'[y].user = table[y].user
          /\ rows'[y].expires = table[y].expires
          /\ rows'[y].revoked = 0 => table[y].revoked = 0 /\ y \notin X
    BY <1>1, <1>5, <1>8, RevokedRow
  <1>10. CASE u # held[r].user
    <2>1. \A y \in Usable(u)' : y # x
      BY <1>2, <1>9, <1>10 DEF Usable
    <2>2. ASSUME NEW y \in Usable(u)'
          PROVE  y \in Usable(u)
      <3>1. /\ y \in DOMAIN rows' /\ rows'[y].user = u
            /\ rows'[y].revoked = 0 /\ rows'[y].expires > clock
        BY <1>1 DEF Usable
      <3>2. y \in DOMAIN table /\ y # x
        BY <1>9, <2>1, <3>1
      <3>3. y \in DOMAIN rows
        BY <1>2, <3>2
      <3>4. rows[y].user = u /\ rows[y].revoked = 0 /\ rows[y].expires > clock
        <4>1. /\ rows'[y].user = table[y].user /\ rows'[y].expires = table[y].expires
              /\ table[y].revoked = 0
          BY <1>9, <3>1
        <4>2. /\ table[y].user = rows[y].user /\ table[y].expires = rows[y].expires
              /\ rows[y].revoked = 0
          BY <1>4, <3>3, <4>1
        <4>3. QED
          BY <3>1, <4>1, <4>2
      <3>5. QED
        BY <3>3, <3>4 DEF Usable
    <2>3. QED
      BY <2>2
  <1>11. CASE u = held[r].user
    <2>1. ASSUME NEW y \in Usable(u)', y # x
          PROVE  y \in kept
      <3>1. /\ y \in DOMAIN table /\ table[y].user = u /\ table[y].revoked = 0 /\ y \notin X
            /\ table[y].expires > clock
        BY <1>1, <1>9, <2>1 DEF Usable
      <3>2. table[y].expires \in Nat
        BY <1>8, <3>1 DEF Row
      <3>3. table[y].expires > t
        BY <1>1, <3>1, <3>2
      <3>4. QED
        BY <1>2, <1>11, <2>1, <3>1, <3>3 DEF Rivals
    <2>2. Usable(u)' \subseteq kept \cup {x}
      BY <2>1
    <2> HIDE DEF kept
    <2>3. IsFiniteSet(kept \cup {x}) /\ Cardinality(kept \cup {x}) = Cardinality(kept) + 1
      BY <1>7, FS_AddElement
    <2>4. IsFiniteSet(Usable(u)') /\ Cardinality(Usable(u)') <= Cardinality(kept \cup {x})
      BY <2>2, <2>3, FS_Subset
    <2>5. /\ Cardinality(kept) \in Nat /\ Cardinality(Usable(u)') \in Nat
          /\ MaxConcurrent \in Nat
      BY <1>7, <2>4, FS_CardinalityType, DurationAssumption
    <2>6. QED
      BY <1>6, <2>3, <2>4, <2>5
  <1>12. QED
    BY <1>10, <1>11

LEMMA CappedStep ==
  ASSUME IInv, Next
  PROVE  IsFiniteSet(DOMAIN rows)' /\ ConcurrencyCapped'
  <1>1. /\ IsFiniteSet(DOMAIN rows) /\ TypeOK
        /\ \A u \in User : Cardinality(Usable(u)) <= MaxConcurrent
    BY CappedIsUsable DEF IInv
  <1>2. IsFiniteSet(DOMAIN rows')
    <2>1. \A r \in Request : DOMAIN rows \cup {token[r]} = DOMAIN rows \cup {token[r]}
                             /\ IsFiniteSet(DOMAIN rows \cup {token[r]})
      BY <1>1, FS_AddElement
    <2>2. ASSUME NEW r \in Request, Insert(r)
          PROVE  IsFiniteSet(DOMAIN rows')
      BY <2>1, <2>2, InsertRows, FS_Subset
    <2>3. QED
      BY <1>1, <2>2, Steps, MovingKeeps, TickKeeps DEF Kept
  <1>3. ASSUME NEW u \in User
        PROVE  \/ Usable(u)' \subseteq Usable(u)
               \/ Cardinality(Usable(u)') <= MaxConcurrent
    <2>1. CASE Kept /\ (clock' = clock \/ clock' = clock + 1)
      <3>1. clock \in Nat /\ \A x \in DOMAIN rows : rows[x].expires \in Nat
        BY <1>1 DEF TypeOK, Row
      <3>2. \A x \in Usable(u)' : x \in Usable(u)
        BY <2>1, <3>1 DEF Kept, Usable
      <3>3. QED
        BY <3>2
    <2>2. ASSUME NEW r \in Request, Insert(r)
          PROVE  \/ Usable(u)' \subseteq Usable(u)
                 \/ Cardinality(Usable(u)') <= MaxConcurrent
      BY <2>2, InsertUsable
    <2>3. QED
      BY <2>1, <2>2, Steps, MovingKeeps, TickKeeps, ClockKept DEF Tick
  <1>4. \A u \in User : Cardinality(Usable(u)') <= MaxConcurrent
    BY <1>1, <1>3, FewerUsable
  <1>5. ConcurrencyCapped'
    BY <1>4 DEF ConcurrencyCapped, Usable
  <1>6. QED
    BY <1>2, <1>5

-----------------------------------------------------------------------------
(* The theorems.                                                           *)

(* The invariant is inductive.                                             *)
LEMMA Inductive == IInv /\ [Next]_vars => IInv'
  <1> SUFFICES ASSUME IInv, [Next]_vars PROVE IInv'
    OBVIOUS
  <1>1. CASE Next
    BY <1>1, TypeStep, HoldingStep, DrawnStep, OneActiveStep, DeadlineStep,
       HeldDeadlineStep, InTimeStep, RememberedStep, CappedStep DEF IInv
  <1>2. CASE UNCHANGED vars
    BY <1>2 DEF vars, IInv, TypeOK, Holding, Drawn, OneActivePerFamily, ActiveOf,
       DeadlineKept, HeldDeadline, InTime, LogoutsRemembered, ConcurrencyCapped
  <1>3. QED
    BY <1>1, <1>2

(* The state always has its types, and a request works with a family that  *)
(* a login drew and with the deadline of that family.                      *)
THEOREM Invariance == Spec => []IInv
  BY InitIInv, Inductive, PTL DEF Spec

(* Concurrent rotations of a cookie leave one session of the family that   *)
(* is not revoked (issue_session and rotation.rs).                         *)
THEOREM OneActive == Spec => []OneActivePerFamily
  <1>1. IInv => OneActivePerFamily
    BY DEF IInv
  <1>2. QED
    BY <1>1, Invariance, PTL

(* No rotation and no reauthentication extends a session                   *)
(* (apply_session_expiry).                                                 *)
THEOREM DeadlineFixed == Spec => []DeadlineKept
  <1>1. IInv => DeadlineKept
    BY DEF IInv
  <1>2. QED
    BY <1>1, Invariance, PTL

(* A user never has more usable sessions than the policy allows: what a    *)
(* login revokes is counted at its own time, which is not later than any   *)
(* other's (prune_concurrent).                                             *)
THEOREM SessionsCapped == Spec => []ConcurrencyCapped
  <1>1. IInv => ConcurrencyCapped
    BY DEF IInv
  <1>2. QED
    BY <1>1, Invariance, PTL

(* A logout token that took effect revokes nothing when it is sent again:  *)
(* its record outlives the age up to which it is accepted                  *)
(* (consume_oidc_logout).                                                  *)
THEOREM ReplayRevokesNothing == Spec => ReplayHarmless
  <1>1. ASSUME IInv, Next, NEW r \in Request,
               pc[r] = "provider", token[r] \in replayed, pc'[r] = "idle"
        PROVE  UNCHANGED rows
    <2>1. Moving(r) /\ ~Consume(r)
      <3>1. PICK q \in Request : Moving(q) \/ Insert(q)
        BY <1>1, Steps DEF Tick
      <3>2. q = r
        BY <1>1, <3>1, OthersKeep
      <3>3. ~Consume(r)
        BY <1>1, ReplayRefused DEF Consume
      <3>4. QED
        BY <1>1, <3>1, <3>2, <3>3 DEF Insert
    <2>2. Replay(r) \/ Overloaded(r)
      <3>1. pc[r] \notin {"idle", "lookup", "recover", "renew", "write", "handler", "logout"}
        BY <1>1
      <3>2. QED
        BY <2>1, <3>1 DEF Moving, Login, Present, LogoutStarts, ProviderLogout, Begin,
           LookupFinds, LookupMisses, Recover, Unauthenticated, Renew, Repeat, Refuse,
           Declined, Reauthenticate, Logout
    <2>3. QED
      BY <2>2 DEF Replay, Overloaded, Unavailable, store
  <1>2. IInv /\ [Next]_vars => [\A r \in Request :
           pc[r] = "provider" /\ token[r] \in replayed /\ pc'[r] = "idle"
             => UNCHANGED rows]_vars
    BY <1>1
  <1>3. QED
    BY <1>2, Invariance, PTL DEF Spec, ReplayHarmless

(* A step does not bring back a family without a session.                  *)
LEMMA ClosedStep ==
  ASSUME IInv, Next, NEW f \in Family, Closed(f)
  PROVE  Closed(f)'
  <1>1. TypeOK /\ Drawn
    BY DEF IInv
  <1>2. CASE Tick
    BY <1>2 DEF Tick, Closed, Opening, ActiveOf, store
  <1>3. ASSUME NEW r \in Request, Moving(r) \/ Insert(r) PROVE Closed(f)'
    <2>1. f \in drawn'
      BY <1>3, FamilyAfter DEF Closed
    <2>2. ASSUME NEW p \in Request, pc'[p] = "write", token'[p] = <<f, 0>>
          PROVE  FALSE
      <3>1. CASE p = r
        BY <1>3, <2>2, <3>1, FamilyAfter DEF Closed
      <3>2. CASE p # r
        BY <1>3, <2>2, <3>2, OthersKeep DEF Closed, Opening
      <3>3. QED
        BY <3>1, <3>2
    <2>3. ASSUME NEW x \in ActiveOf(f)'
          PROVE  FALSE
      <3>1. CASE Kept
        BY <2>3, <3>1 DEF Kept, ActiveOf, Closed
      <3>2. CASE Insert(r)
        <4>1. x = token[r]
          BY <2>3, <3>2, InsertRows DEF ActiveOf, Closed
        <4>2. token[r][2] # 0
          <5>1. token[r] # <<f, 0>>
            BY <3>2, InsertRows DEF Closed, Opening
          <5>2. token[r] \in Token /\ token[r][1] = f
            BY <2>3, <3>2, <4>1, InsertRows DEF ActiveOf
          <5>3. QED
            BY <5>1, <5>2 DEF Token
        <4>3. QED
          BY <2>3, <3>2, <4>1, <4>2, InsertRows DEF ActiveOf, Closed
      <3>3. QED
        BY <1>3, <3>1, <3>2, MovingKeeps
    <2>4. QED
      BY <2>1, <2>2, <2>3 DEF Closed, Opening
  <1>4. QED
    BY <1>2, <1>3, Steps

(* A family whose last session was revoked stays without one               *)
(* (ensure_rotation_predecessor_active).                                   *)
THEOREM NeverReopened == Spec => ClosedForGood
  <1>1. IInv /\ [Next]_vars => [\A f \in Family : Closed(f) => Closed(f)']_vars
    BY ClosedStep
  <1>2. QED
    BY <1>1, Invariance, PTL DEF Spec, ClosedForGood

=============================================================================
