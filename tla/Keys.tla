-------------------------------- MODULE Keys --------------------------------
(***************************************************************************)
(* Who holds which key: the table crypto_meta, the crypto engine of the    *)
(* daemon, the requests that unlock it and store wills and actions, the    *)
(* tokens that admit requests, and `dw will create`, which makes the keys. *)
(* Requests are goroutines of the daemon; each `dw` is a process with its  *)
(* own engine.  A key is modelled by what it is derived from: a passphrase *)
(* and the salt of a crypto_meta row.                                      *)
(***************************************************************************)
CONSTANTS
    Metas,        \* identifiers of crypto_meta rows
    Passphrases,
    Items,        \* payloads of wills and configurations of actions
    Clis,         \* processes of `dw will create`
    Requests,     \* HTTP requests that are served at once
    Tokens,
    NULL

(* What a key is derived from.                                             *)
Key == [pass : Passphrases, meta : Metas]

ASSUME KeysAssumption ==
    /\ NULL \notin Metas
    /\ NULL \notin Passphrases
    /\ NULL \notin Key

VARIABLES
    metas,   \* the passphrase each row was made with; NULL is no row
    sealed,  \* the row whose key each item is encrypted with; NULL is no item
    kek,     \* the key in the engine; NULL before Initialize
    tokens,  \* the rows of tokens
    cli,     \* the place of each `dw will create`
    req      \* the place of each request

dwVars == <<metas, sealed, cli>>
vars   == <<metas, sealed, kek, tokens, cli, req>>

Rows == {m \in Metas : metas[m] # NULL}

Cli == [pc : {"idle"}] \cup
       [pc : {"insert"}, pass : Passphrases] \cup
       [pc : {"create"}, meta : Metas]

Req == [pc : {"idle", "admitted"}] \cup
       [pc : {"unlock"}, pass : Passphrases] \cup
       [pc : {"initialize"}, pass : Passphrases, meta : Metas] \cup
       [pc : {"verify", "unlocked"}, meta : Metas]

Idle == [pc |-> "idle"]

Goto(r, place) == req' = [req EXCEPT ![r] = place]

(* DecryptDEK: the key in the engine opens the DEK of row m.               *)
Opens(m) == kek # NULL /\ kek.meta = m /\ kek.pass = metas[m]

(* A UUID nobody has.                                                      *)
Fresh(m) ==
    /\ m \notin Rows
    /\ \A c \in Clis : cli[c].pc = "create" => cli[c].meta # m
    /\ \A x \in Items : sealed[x] # m

(* No code makes the first token: the table may have been filled by hand.  *)
Init ==
    /\ metas = [m \in Metas |-> NULL]
    /\ sealed = [x \in Items |-> NULL]
    /\ kek = NULL
    /\ tokens \in SUBSET Tokens
    /\ cli = [c \in Clis |-> Idle]
    /\ req = [r \in Requests |-> Idle]
----------------------------------------------------------------------------
(* dw will create: no row is there, so a key is made.                      *)
CliFirst(c) ==
    /\ cli[c].pc = "idle"
    /\ Rows = {}
    /\ \E pass \in Passphrases : cli' = [cli EXCEPT ![c] = [pc |-> "insert", pass |-> pass]]
    /\ UNCHANGED <<metas, sealed, kek, tokens, req>>

(* A row is there and the passphrase opens it; another one is an error.    *)
CliLoad(c) ==
    /\ cli[c].pc = "idle"
    /\ \E m \in Rows : cli' = [cli EXCEPT ![c] = [pc |-> "create", meta |-> m]]
    /\ UNCHANGED <<metas, sealed, kek, tokens, req>>

(* The new row; an error of the INSERT is not looked at.  What the code    *)
(* goes on with is a variable this branch does not declare; it is taken to *)
(* be the row just made, as in the other branch.                           *)
CliInsert(c) ==
    /\ cli[c].pc = "insert"
    /\ \E m \in Metas :
         /\ Fresh(m)
         /\ \/ metas' = [metas EXCEPT ![m] = cli[c].pass]
            \/ UNCHANGED metas
         /\ cli' = [cli EXCEPT ![c] = [pc |-> "create", meta |-> m]]
    /\ UNCHANGED <<sealed, kek, tokens, req>>

(* Mutation: crypto_meta_id is no foreign key.                             *)
CliCreateUnchecked(c) ==
    /\ cli[c].pc = "create"
    /\ \E x \in Items :
         /\ sealed[x] = NULL
         /\ sealed' = [sealed EXCEPT ![x] = cli[c].meta]
    /\ cli' = [cli EXCEPT ![c] = Idle]
    /\ UNCHANGED <<metas, kek, tokens, req>>

(* The INSERT of the will is checked against crypto_meta.                  *)
CliCreate(c) ==
    /\ cli[c].pc = "create"
    /\ cli[c].meta \in Rows
    /\ \E x \in Items :
         /\ sealed[x] = NULL
         /\ sealed' = [sealed EXCEPT ![x] = cli[c].meta]
    /\ cli' = [cli EXCEPT ![c] = Idle]
    /\ UNCHANGED <<metas, kek, tokens, req>>

(* The process ends, with an error or because it is stopped.               *)
CliEnd(c) ==
    /\ cli[c].pc # "idle"
    /\ cli' = [cli EXCEPT ![c] = Idle]
    /\ UNCHANGED <<metas, sealed, kek, tokens, req>>
----------------------------------------------------------------------------
(* authMiddleware, which the subrouter puts before every route.            *)
Authenticate(r) ==
    /\ req[r].pc = "idle"
    /\ tokens # {}
    /\ Goto(r, [pc |-> "admitted"])
    /\ UNCHANGED <<dwVars, kek, tokens>>

(* POST /unlock of a locked daemon.                                        *)
BeginUnlock(r) ==
    /\ req[r].pc = "admitted"
    /\ kek = NULL
    /\ \E pass \in Passphrases : Goto(r, [pc |-> "unlock", pass |-> pass])
    /\ UNCHANGED <<dwVars, kek, tokens>>

(* Mutation: the error of the SELECT is not looked at, as in retryAction.   *)
LoadAnyMeta(r) ==
    /\ req[r].pc = "unlock"
    /\ \E m \in Metas : Goto(r, [pc |-> "initialize", pass |-> req[r].pass, meta |-> m])
    /\ UNCHANGED <<dwVars, kek, tokens>>

LoadMeta(r) ==
    /\ req[r].pc = "unlock"
    /\ \E m \in Rows : Goto(r, [pc |-> "initialize", pass |-> req[r].pass, meta |-> m])
    /\ UNCHANGED <<dwVars, kek, tokens>>

(* Mutation: a key that is there is replaced.                              *)
InitializeAgain(r) ==
    /\ req[r].pc = "initialize"
    /\ kek' = [pass |-> req[r].pass, meta |-> req[r].meta]
    /\ Goto(r, [pc |-> "verify", meta |-> req[r].meta])
    /\ UNCHANGED <<dwVars, tokens>>

(* Under the lock of the engine: the first key is kept, right or wrong.    *)
Initialize(r) ==
    /\ req[r].pc = "initialize"
    /\ kek = NULL
    /\ kek' = [pass |-> req[r].pass, meta |-> req[r].meta]
    /\ Goto(r, [pc |-> "verify", meta |-> req[r].meta])
    /\ UNCHANGED <<dwVars, tokens>>

(* DecryptDEK, and the answer "unlocked".                                  *)
Verify(r) ==
    /\ req[r].pc = "verify"
    /\ Opens(req[r].meta)
    /\ Goto(r, [pc |-> "unlocked", meta |-> req[r].meta])
    /\ UNCHANGED <<dwVars, kek, tokens>>

(* POST /wills with the row its client names, POST /wills/{id}/actions     *)
(* with the row its SELECT returns.                                        *)
Store(r) ==
    /\ req[r].pc = "admitted"
    /\ \E m \in Rows, x \in Items :
         /\ Opens(m)
         /\ sealed[x] = NULL
         /\ sealed' = [sealed EXCEPT ![x] = m]
    /\ Goto(r, Idle)
    /\ UNCHANGED <<metas, kek, tokens, cli>>

CreateToken(r) ==
    /\ req[r].pc = "admitted"
    /\ \E t \in Tokens \ tokens : tokens' = tokens \cup {t}
    /\ Goto(r, Idle)
    /\ UNCHANGED <<dwVars, kek>>

RevokeToken(r) ==
    /\ req[r].pc = "admitted"
    /\ \E t \in tokens : tokens' = tokens \ {t}
    /\ Goto(r, Idle)
    /\ UNCHANGED <<dwVars, kek>>

(* The answer is sent: a handler that changes nothing, an early return, an *)
(* engine that was initialized meanwhile, or a key that does not open.     *)
Answer(r) ==
    /\ req[r].pc # "idle"
    /\ req[r].pc = "verify" => ~Opens(req[r].meta)
    /\ Goto(r, Idle)
    /\ UNCHANGED <<dwVars, kek, tokens>>

(* The daemon ends and is started again: Shutdown, NewEngine.              *)
Restart ==
    /\ kek' = NULL
    /\ req' = [r \in Requests |-> Idle]
    /\ UNCHANGED <<dwVars, tokens>>
----------------------------------------------------------------------------
Next ==
    \/ \E c \in Clis : CliFirst(c) \/ CliLoad(c) \/ CliInsert(c) \/ CliCreate(c) \/ CliEnd(c)
    \/ \E r \in Requests :
         \/ Authenticate(r) \/ BeginUnlock(r) \/ LoadMeta(r) \/ Initialize(r) \/ Verify(r)
         \/ Store(r) \/ CreateToken(r) \/ RevokeToken(r) \/ Answer(r)
    \/ Restart

Spec == Init /\ [][Next]_vars
----------------------------------------------------------------------------
TablesOK ==
    /\ metas \in [Metas -> Passphrases \cup {NULL}]
    /\ sealed \in [Items -> Metas \cup {NULL}]
    /\ tokens \subseteq Tokens
    /\ cli \in [Clis -> Cli]

EngineOK ==
    /\ kek \in Key \cup {NULL}
    /\ kek # NULL => kek.meta \in Rows

RequestsOK ==
    /\ req \in [Requests -> Req]
    /\ \A r \in Requests :
         req[r].pc \in {"initialize", "verify", "unlocked"} => req[r].meta \in Rows

(* Places keep their operands: a request derives its key from a row that   *)
(* is there, and so does the engine.                                       *)
TypeOK == TablesOK /\ EngineOK /\ RequestsOK

(* Every will and every action is encrypted with a key that is stored,     *)
(* though `dw will create` does not look whether it stored it              *)
(* (willCreateCmd; the foreign keys of wills and actions).                 *)
KeysAreStored == \A x \in Items : sealed[x] # NULL => sealed[x] \in Rows

(* An unlock that was verified is true as long as the process runs,        *)
(* whatever other unlocks with other passphrases run beside it             *)
(* (handleUnlock, Initialize).                                             *)
UnlockedIsTrue ==
    \A r \in Requests : req[r].pc = "unlocked" => Opens(req[r].meta)

(* The engine as the daemon's other parts see it.                          *)
EngineState ==
    CASE kek = NULL                              -> "locked"
      [] kek # NULL /\ Opens(kek.meta)           -> "open"
      [] OTHER                                   -> "bad"

Abstract == INSTANCE KeyEngine WITH engine <- EngineState, meta <- (Rows # {})

(* Requests that overlap, keys made twice and restarts are, to the rest of *)
(* the daemon, one engine that is unlocked once between restarts           *)
(* (handleUnlock, Initialize, willCreateCmd).                              *)
ImplementsEngine == Abstract!Spec
=============================================================================
