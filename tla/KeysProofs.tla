---------------------------- MODULE KeysProofs ----------------------------
(***************************************************************************)
(* Theorems about the keys for any sets of rows, passphrases, processes,   *)
(* requests and tokens: what is stored can be opened, an unlock that was   *)
(* verified stays true, and the engine is the one the daemon's other parts *)
(* see.                                                                    *)
(***************************************************************************)
EXTENDS Keys, TLAPS

CliStep(c) == CliFirst(c) \/ CliLoad(c) \/ CliInsert(c) \/ CliCreate(c) \/ CliEnd(c)

RequestStep(r) ==
    \/ Authenticate(r) \/ BeginUnlock(r) \/ LoadMeta(r) \/ Initialize(r) \/ Verify(r)
    \/ Store(r) \/ CreateToken(r) \/ RevokeToken(r) \/ Answer(r)

(* Next, by who takes the step.                                            *)
LEMMA NextCases ==
    ASSUME Next
    PROVE  \/ \E c \in Clis : CliStep(c)
           \/ \E r \in Requests : RequestStep(r)
           \/ Restart
BY DEF Next, CliStep, RequestStep

(* A row of crypto_meta is never changed or deleted (willCreateCmd).       *)
LEMMA RowsStay ==
    ASSUME TypeOK, [Next]_vars
    PROVE  \A m \in Rows : m \in Rows' /\ metas'[m] = metas[m]
<1>1. ASSUME NEW c \in Clis, CliInsert(c)
      PROVE  \A m \in Rows : m \in Rows' /\ metas'[m] = metas[m]
  BY <1>1 DEF CliInsert, Fresh, Rows, TypeOK, TablesOK
<1>2. ASSUME UNCHANGED metas
      PROVE  \A m \in Rows : m \in Rows' /\ metas'[m] = metas[m]
  BY <1>2 DEF Rows
<1>3. ASSUME NEW c \in Clis, CliStep(c)
      PROVE  CliInsert(c) \/ UNCHANGED metas
  BY <1>3 DEF CliStep, CliFirst, CliLoad, CliCreate, CliEnd
<1>4. ASSUME NEW r \in Requests, RequestStep(r)
      PROVE  UNCHANGED metas
  BY <1>4 DEF RequestStep, Authenticate, BeginUnlock, LoadMeta, Initialize, Verify, Store,
              CreateToken, RevokeToken, Answer, dwVars
<1>5. Restart \/ UNCHANGED vars => UNCHANGED metas
  BY DEF Restart, vars, dwVars
<1> QED BY <1>1, <1>2, <1>3, <1>4, <1>5, NextCases

(* `dw will create` keeps the types of the tables and leaves the daemon    *)
(* alone.                                                                  *)
LEMMA CliTables ==
    ASSUME TypeOK, NEW c \in Clis, CliStep(c)
    PROVE  TablesOK' /\ UNCHANGED <<kek, tokens, req>>
<1>1. CASE CliFirst(c)
  BY <1>1 DEF CliFirst, TypeOK, TablesOK, Cli
<1>2. CASE CliLoad(c)
  BY <1>2 DEF CliLoad, Rows, TypeOK, TablesOK, Cli
<1>3. CASE CliInsert(c)
  <2>1. cli[c].pass \in Passphrases
    BY <1>3 DEF CliInsert, TypeOK, TablesOK, Cli
  <2> QED BY <1>3, <2>1 DEF CliInsert, TypeOK, TablesOK, Cli
<1>4. CASE CliCreate(c)
  BY <1>4 DEF CliCreate, Rows, TypeOK, TablesOK, Cli, Idle
<1>5. CASE CliEnd(c)
  BY <1>5 DEF CliEnd, TypeOK, TablesOK, Cli, Idle
<1> QED BY <1>1, <1>2, <1>3, <1>4, <1>5 DEF CliStep

(* A request that moves to a place whose row is there.                     *)
LEMMA GotoOK ==
    ASSUME RequestsOK, UNCHANGED metas, NEW r \in Requests, NEW place \in Req, Goto(r, place),
           place.pc \in {"initialize", "verify", "unlocked"} => place.meta \in Rows
    PROVE  RequestsOK'
BY DEF RequestsOK, Goto, Rows

LEMMA RequestTypes ==
    ASSUME TypeOK, NEW r \in Requests, RequestStep(r)
    PROVE  TypeOK'
<1>1. req[r] \in Req
  BY DEF TypeOK, RequestsOK
<1>2. CASE Authenticate(r)
  BY <1>2, GotoOK DEF Authenticate, Req, dwVars, TypeOK, TablesOK, EngineOK, Rows
<1>3. CASE BeginUnlock(r)
  BY <1>3, GotoOK DEF BeginUnlock, Req, dwVars, TypeOK, TablesOK, EngineOK, Rows
<1>4. CASE LoadMeta(r)
  <2>1. PICK m \in Rows : Goto(r, [pc |-> "initialize", pass |-> req[r].pass, meta |-> m])
    BY <1>4 DEF LoadMeta
  <2>2. [pc |-> "initialize", pass |-> req[r].pass, meta |-> m] \in Req
    BY <1>1, <1>4, <2>1 DEF LoadMeta, Req, Rows
  <2>3. RequestsOK'
    BY <1>4, <2>1, <2>2, GotoOK DEF LoadMeta, dwVars, TypeOK
  <2> QED BY <1>4, <2>3 DEF LoadMeta, dwVars, TypeOK, TablesOK, EngineOK, Rows
<1>5. CASE Initialize(r)
  <2>1. req[r].pass \in Passphrases /\ req[r].meta \in Rows /\ req[r].meta \in Metas
    BY <1>1, <1>5 DEF Initialize, Req, TypeOK, RequestsOK, Rows
  <2>2. [pc |-> "verify", meta |-> req[r].meta] \in Req
    BY <2>1 DEF Req
  <2>3. RequestsOK'
    BY <1>5, <2>1, <2>2, GotoOK DEF Initialize, dwVars, TypeOK
  <2>4. EngineOK'
    BY <1>5, <2>1 DEF Initialize, dwVars, EngineOK, Key, Rows
  <2> QED BY <1>5, <2>3, <2>4 DEF Initialize, dwVars, TypeOK, TablesOK
<1>6. CASE Verify(r)
  <2>1. req[r].meta \in Rows /\ req[r].meta \in Metas
    BY <1>1, <1>6 DEF Verify, Req, TypeOK, RequestsOK, Rows
  <2>2. [pc |-> "unlocked", meta |-> req[r].meta] \in Req
    BY <2>1 DEF Req
  <2>3. RequestsOK'
    BY <1>6, <2>1, <2>2, GotoOK DEF Verify, dwVars, TypeOK
  <2> QED BY <1>6, <2>3 DEF Verify, dwVars, TypeOK, TablesOK, EngineOK, Rows
<1>7. Idle \in Req /\ Idle.pc = "idle"
  BY DEF Idle, Req
<1>8. CASE Store(r)
  <2>1. RequestsOK'
    BY <1>7, <1>8, GotoOK DEF Store, TypeOK
  <2> QED BY <1>8, <2>1 DEF Store, TypeOK, TablesOK, EngineOK, Rows
<1>9. CASE CreateToken(r) \/ RevokeToken(r) \/ Answer(r)
  <2>1. RequestsOK'
    BY <1>7, <1>9, GotoOK DEF CreateToken, RevokeToken, Answer, dwVars, TypeOK
  <2> QED BY <1>9, <2>1 DEF CreateToken, RevokeToken, Answer, dwVars, TypeOK, TablesOK,
                            EngineOK, Rows
<1> QED BY <1>2, <1>3, <1>4, <1>5, <1>6, <1>8, <1>9 DEF RequestStep

(* Every place has its operands, in every behaviour.                       *)
THEOREM KeysTypeCorrect == Spec => []TypeOK
<1>1. Init => TypeOK
  BY DEF Init, TypeOK, TablesOK, EngineOK, RequestsOK, Cli, Req, Idle
<1>2. ASSUME TypeOK, [Next]_vars PROVE TypeOK'
  <2>1. CASE \E c \in Clis : CliStep(c)
    <3>1. TablesOK' /\ UNCHANGED <<kek, tokens, req>>
      BY <1>2, <2>1, CliTables
    <3>2. EngineOK' /\ RequestsOK'
      BY <1>2, <3>1, RowsStay DEF TypeOK, EngineOK, RequestsOK
    <3> QED BY <3>1, <3>2 DEF TypeOK
  <2>2. CASE \E r \in Requests : RequestStep(r)
    BY <1>2, <2>2, RequestTypes
  <2>3. CASE Restart
    BY <1>2, <2>3 DEF Restart, dwVars, TypeOK, TablesOK, EngineOK, RequestsOK, Req, Idle, Rows
  <2>4. CASE UNCHANGED vars
    BY <1>2, <2>4 DEF vars, TypeOK, TablesOK, EngineOK, RequestsOK, Rows
  <2> QED BY <1>2, <2>1, <2>2, <2>3, <2>4, NextCases
<1> QED BY <1>1, <1>2, PTL DEF Spec

(* What a step stores is encrypted with a row that is there: the statement *)
(* of the CLI is checked, and a request has opened the row (willCreateCmd, *)
(* handleCreateWill, handleAddAction).                                     *)
LEMMA StoredStays ==
    ASSUME TypeOK, KeysAreStored, [Next]_vars
    PROVE  KeysAreStored'
<1>1. ASSUME UNCHANGED sealed PROVE KeysAreStored'
  BY <1>1, RowsStay DEF KeysAreStored
<1>2. ASSUME NEW m \in Rows, NEW x \in Items, sealed' = [sealed EXCEPT ![x] = m]
      PROVE  KeysAreStored'
  BY <1>2, RowsStay DEF KeysAreStored, TypeOK, TablesOK
<1>3. ASSUME NEW c \in Clis, CliStep(c)
      PROVE  \/ UNCHANGED sealed
             \/ \E m \in Rows, x \in Items : sealed' = [sealed EXCEPT ![x] = m]
  BY <1>3 DEF CliStep, CliFirst, CliLoad, CliInsert, CliCreate, CliEnd
<1>4. ASSUME NEW r \in Requests, RequestStep(r)
      PROVE  \/ UNCHANGED sealed
             \/ \E m \in Rows, x \in Items : sealed' = [sealed EXCEPT ![x] = m]
  BY <1>4 DEF RequestStep, Authenticate, BeginUnlock, LoadMeta, Initialize, Verify, Store,
              CreateToken, RevokeToken, Answer, dwVars
<1>5. Restart \/ UNCHANGED vars => UNCHANGED sealed
  BY DEF Restart, vars, dwVars
<1> QED BY <1>1, <1>2, <1>3, <1>4, <1>5, NextCases

(* Every will and action can be opened with a key that is stored.          *)
THEOREM KeysAlwaysStored == Spec => []KeysAreStored
<1>1. Init => KeysAreStored
  BY DEF Init, KeysAreStored
<1> QED BY <1>1, StoredStays, KeysTypeCorrect, PTL DEF Spec

(* A key that opens its row opens it until the process ends: no request    *)
(* replaces it, and the row stays.                                         *)
LEMMA OpenStays ==
    ASSUME TypeOK, [Next]_vars, NEW m \in Metas, Opens(m)
    PROVE  Opens(m)' \/ (kek' = NULL /\ \A r \in Requests : req'[r] = Idle)
<1>1. m \in Rows
  BY DEF Opens, TypeOK, EngineOK
<1>2. ASSUME UNCHANGED kek PROVE Opens(m)'
  BY <1>1, <1>2, RowsStay DEF Opens
<1>3. CASE \E c \in Clis : CliStep(c)
  BY <1>2, <1>3, CliTables DEF Opens
<1>4. CASE \E r \in Requests : RequestStep(r)
  BY <1>2, <1>4 DEF RequestStep, Authenticate, BeginUnlock, LoadMeta, Initialize, Verify, Store,
                    CreateToken, RevokeToken, Answer, Opens
<1>5. CASE Restart
  BY <1>5 DEF Restart
<1>6. CASE UNCHANGED vars
  BY <1>2, <1>6 DEF vars, Opens
<1> QED BY <1>3, <1>4, <1>5, <1>6, NextCases

(* A request gets to "unlocked" by the check that the key opens its row.   *)
LEMMA VerifiedOpens ==
    ASSUME TypeOK, [Next]_vars, NEW r \in Requests, req'[r].pc = "unlocked"
    PROVE  \/ req[r].pc = "unlocked" /\ req'[r].meta = req[r].meta
           \/ Opens(req[r].meta)'
<1>1. CASE \E c \in Clis : CliStep(c)
  BY <1>1, CliTables
<1>2. CASE \E q \in Requests : RequestStep(q)
  <2>1. PICK q \in Requests : RequestStep(q)
    BY <1>2
  <2>2. CASE q # r
    BY <2>1, <2>2 DEF RequestStep, Authenticate, BeginUnlock, LoadMeta, Initialize, Verify, Store,
                      CreateToken, RevokeToken, Answer, Goto, TypeOK, RequestsOK
  <2>3. CASE q = r /\ Verify(r)
    BY <2>3 DEF Verify, Goto, Opens, dwVars, TypeOK, RequestsOK
  <2>4. CASE q = r /\ ~Verify(r)
    BY <2>1, <2>4 DEF RequestStep, Authenticate, BeginUnlock, LoadMeta, Initialize, Store,
                      CreateToken, RevokeToken, Answer, Goto, Idle, TypeOK, RequestsOK
  <2> QED BY <2>2, <2>3, <2>4
<1>3. CASE Restart
  BY <1>3 DEF Restart, Idle
<1>4. CASE UNCHANGED vars
  BY <1>4 DEF vars
<1> QED BY <1>1, <1>2, <1>3, <1>4, NextCases

(* An unlock that was verified is true as long as the process runs.        *)
THEOREM UnlockedStaysTrue == Spec => []UnlockedIsTrue
<1>1. Init => UnlockedIsTrue
  BY DEF Init, UnlockedIsTrue, Idle
<1>2. ASSUME TypeOK, UnlockedIsTrue, [Next]_vars
      PROVE  UnlockedIsTrue'
  <2> SUFFICES ASSUME NEW r \in Requests, req'[r].pc = "unlocked"
               PROVE  Opens(req[r].meta)'
    BY DEF UnlockedIsTrue
  <2>1. CASE req[r].pc = "unlocked" /\ req'[r].meta = req[r].meta
    <3>1. Opens(req[r].meta) /\ req[r].meta \in Metas
      BY <1>2, <2>1 DEF UnlockedIsTrue, TypeOK, RequestsOK, Rows
    <3>2. req'[r] # Idle
      BY DEF Idle
    <3> QED BY <1>2, <2>1, <3>1, <3>2, OpenStays
  <2> QED BY <1>2, <2>1, VerifiedOpens
<1> QED BY <1>1, <1>2, KeysTypeCorrect, PTL DEF Spec

(* The engine opens a row or it does not; which, no step but a restart     *)
(* changes once it has a key.                                              *)
LEMMA StateStays ==
    ASSUME TypeOK, UNCHANGED kek, [Next]_vars
    PROVE  UNCHANGED EngineState
<1>1. CASE kek = NULL
  BY <1>1 DEF EngineState
<1>2. CASE kek # NULL
  <2>1. kek.meta \in Rows
    BY <1>2 DEF TypeOK, EngineOK
  <2>2. Opens(kek.meta)' <=> Opens(kek.meta)
    BY <2>1, RowsStay DEF Opens
  <2> QED BY <1>2, <2>2 DEF EngineState
<1> QED BY <1>1, <1>2

(* The table of rows is empty or not: what the engine's abstraction knows. *)
LEMMA MadeStays ==
    ASSUME TypeOK, [Next]_vars
    PROVE  Rows # {} => (Rows # {})'
BY RowsStay

(* To the daemon's other parts the keys are one engine that is unlocked    *)
(* once between restarts.                                                  *)
THEOREM KeysAreAnEngine == Spec => ImplementsEngine
<1>1. Init => Abstract!Init
  BY DEF Init, Abstract!Init, EngineState, Rows
<1>2. ASSUME TypeOK, [Next]_vars
      PROVE  [Abstract!Next]_<<EngineState, Rows # {}>>
  <2>1. ASSUME UNCHANGED kek
        PROVE  Abstract!MakeKey \/ UNCHANGED <<EngineState, Rows # {}>>
    BY <1>2, <2>1, StateStays, MadeStays DEF Abstract!MakeKey
  <2>2. ASSUME NEW r \in Requests, Initialize(r)
        PROVE  Abstract!Unlock
    <3>1. req[r].meta \in Rows /\ req[r].pass \in Passphrases
      BY <1>2, <2>2 DEF Initialize, TypeOK, RequestsOK, Req
    <3>2. EngineState = "locked" /\ Rows # {} /\ UNCHANGED Rows
      BY <2>2, <3>1 DEF Initialize, EngineState, dwVars, Rows
    <3>3. kek' # NULL
      BY <2>2, <3>1, KeysAssumption DEF Initialize, Key, Rows
    <3>4. EngineState' \in {"open", "bad"}
      BY <3>3 DEF EngineState
    <3> QED BY <3>2, <3>4 DEF Abstract!Unlock
  <2>3. CASE Restart
    <3>1. EngineState' = "locked" /\ UNCHANGED Rows
      BY <2>3 DEF Restart, EngineState, Rows, dwVars
    <3> QED BY <3>1 DEF Abstract!Restart, Abstract!Next
  <2>4. CASE \E c \in Clis : CliStep(c)
    BY <1>2, <2>1, <2>4, CliTables DEF Abstract!Next
  <2>5. CASE \E r \in Requests : RequestStep(r)
    <3>1. PICK r \in Requests : RequestStep(r)
      BY <2>5
    <3>2. Initialize(r) \/ UNCHANGED kek
      BY <3>1 DEF RequestStep, Authenticate, BeginUnlock, LoadMeta, Verify, Store, CreateToken,
                  RevokeToken, Answer
    <3> QED BY <2>1, <2>2, <3>2 DEF Abstract!Next
  <2>6. CASE UNCHANGED vars
    BY <2>1, <2>6 DEF vars, Abstract!Next
  <2> QED BY <1>2, <2>3, <2>4, <2>5, <2>6, NextCases
<1> QED BY <1>1, <1>2, KeysTypeCorrect, PTL DEF Spec, ImplementsEngine, Abstract!Spec
=============================================================================
