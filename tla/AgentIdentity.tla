---------------------------- MODULE AgentIdentity ----------------------------
(***************************************************************************)
(* Registration, update and deactivation of agents: IdentityService        *)
(* (src/src/modules/identity/identity.service.ts) writes the table agents  *)
(* and then mirrors the change to the contract AgentRegistry               *)
(* (src/contracts/src/AgentRegistry.sol) through withRetry                 *)
(* (src/src/common/blockchain/retry.util.ts).                              *)
(*                                                                         *)
(* Calls run concurrently; an action is the code between two awaits, or    *)
(* the statement or transaction that is awaited.  publicKey and endpoint   *)
(* are always written together on the chain and stand as one `key`.  Only  *)
(* the service's wallet registers: a foreign sender of registerAgent is    *)
(* left out.  The chain may reorganise: nothing waits for more than one    *)
(* confirmation (identity.service.ts:79, :125, :155).                      *)
(*                                                                         *)
(* step[c]: idle      not yet made                                         *)
(*          checking  register waits for the SELECT by DID                 *)
(*          loading   update/deactivate wait for the SELECT by id          *)
(*          saving    waits for agentRepo.save                             *)
(*          sending   waits for the contract method to return a tx         *)
(*          waiting   waits for tx.wait()                                  *)
(*          refused   answered 403, 404 or 409                             *)
(*          answered  answered with the saved row                          *)
(*          crashed   a statement failed, or the process died              *)
(***************************************************************************)
EXTENDS Integers, Sequences, FiniteSets

CONSTANTS
  Calls,         \* identities of the HTTP calls; a row's id is its register call
  Old,           \* id of an agent that may have been registered before
  Bodies,        \* [op, did, key, status, proven]: what a call may ask
  NoKey,         \* an update that leaves publicKey and endpoint alone
  EmptyKey,      \* an update that only sets publicKey to ""
  NoStatus,      \* a body without status
  MaxAttempts,   \* maxAttempts of withRetry
  MaxCrashes,    \* bound on the restarts of the process
  MaxReorgs,     \* bound on the reorganisations of the chain
  MaxDepth       \* mined transactions that a reorganisation takes back at most

ASSUME OldAssumption == Old \notin Calls
ASSUME AttemptsAssumption == MaxAttempts \in Nat \ {0} /\ MaxCrashes \in Nat /\ MaxReorgs \in Nat /\ MaxDepth \in Nat

Dids == {b.did : b \in Bodies}
BodyKeys == {b.key : b \in Bodies}
Ids == Calls \union {Old}

\* RegisterAgentDto wants a publicKey and an endpoint that are not empty;
\* UpdateAgentDto takes an empty publicKey.  "none" stands for no row.
ASSUME BodiesAssumption ==
  /\ Bodies \subseteq [op : {"register", "update", "deactivate"}, did : Dids, key : BodyKeys,
                       status : {"active", "inactive", NoStatus}, proven : BOOLEAN]
  /\ \A b \in Bodies : b.op = "register" => b.key \notin {NoKey, EmptyKey}
  /\ "none" \notin Dids

VARIABLES
  step, body,   \* per call: progress and request body
  target,       \* per update/deactivate: the id in its path
  local,        \* per call: the entity object the handler holds
  attempt,      \* per call: failed attempts of withRetry
  logged,       \* per call: what was logged of the chain: none, ok, failed
  rows,         \* table agents, by id
  pool,         \* the wallet's transactions not yet mined, in nonce order
  mined,        \* [call, attempt, ok]: receipts of the mined transactions
  chain,        \* AgentRegistry.agents
  blocks,       \* [tx, chain, mined]: the latest mined transactions, in order, and
                \* what chain and mined were before each
  crashes,      \* restarts of the process
  reorgs,       \* reorganisations of the chain
  undone,       \* history: calls of which a reorganisation took back an effect
  overlapped    \* history: two calls were once in progress together

vars == <<step, body, target, local, attempt, logged, rows, pool, mined, chain,
          blocks, reorgs, undone, crashes, overlapped>>
calls == <<step, body, target, local, attempt, logged>>
minedSoFar == <<mined, chain, blocks, reorgs, undone>>
ledger == <<pool, minedSoFar>>

Busy == {"checking", "loading", "saving", "sending", "waiting"}
Done == {"refused", "answered", "crashed"}
NoRow == [did |-> "none", key |-> NoKey, status |-> "none"]
Unregistered == [owned |-> FALSE, key |-> NoKey, active |-> FALSE]

\* Columns of the table agents.
Rows == [did : Dids, key : BodyKeys, status : {"active", "inactive"}]

\* The wallet's transactions: a call of a contract method by an attempt of a handler.
Txs == [call : Calls, attempt : 0 .. MaxAttempts, op : {"register", "update", "deactivate"},
        did : Dids, key : BodyKeys]

Receipts == [call : Calls, attempt : 0 .. MaxAttempts, ok : BOOLEAN]
Registries == [Dids -> [owned : BOOLEAN, key : BodyKeys \union {NoKey}, active : BOOLEAN]]

InProgress == {c \in Calls : step[c] \in Busy}

Written == {row \in Rows : row.key \notin {NoKey, EmptyKey} /\ row.status = "active"}

\* One agent may be in the table and on the chain already.  A registration has
\* no id in its path: its row will have the id that stands for the call.
Init ==
  /\ step = [c \in Calls |-> "idle"]
  /\ body \in [Calls -> Bodies]
  /\ target \in [Calls -> Ids] /\ \A c \in Calls : body[c].op = "register" => target[c] = c
  /\ local = [c \in Calls |-> NoRow]
  /\ attempt = [c \in Calls |-> 0]
  /\ logged = [c \in Calls |-> "none"]
  /\ \E old \in {NoRow} \union Written :
       /\ rows = [i \in Ids |-> IF i = Old THEN old ELSE NoRow]
       /\ chain = [d \in Dids |-> IF d = old.did
                                  THEN [owned |-> TRUE, key |-> old.key, active |-> TRUE]
                                  ELSE Unregistered]
  /\ pool = <<>>
  /\ mined = {}
  /\ blocks = <<>>
  /\ reorgs = 0
  /\ undone = {}
  /\ crashes = 0
  /\ overlapped = FALSE

-----------------------------------------------------------------------------
(* The contract: whether a call passes its require clauses, and its effect. *)

\* Faulty form: a registration does not look for an existing entry.
Accepts_Reregistration(registry, tx) ==
  tx.op = "register" \/ (registry[tx.did].owned /\ registry[tx.did].active)

Accepts(registry, tx) ==
  LET a == registry[tx.did] IN
  CASE tx.op = "register" -> ~a.owned
    [] tx.op = "update" -> a.owned /\ a.active
    [] tx.op = "deactivate" -> a.owned /\ a.active

Execute(registry, tx) ==
  CASE tx.op = "register" ->
         [registry EXCEPT ![tx.did] = [owned |-> TRUE, key |-> tx.key, active |-> TRUE]]
    [] tx.op = "update" -> [registry EXCEPT ![tx.did].key = tx.key]
    [] tx.op = "deactivate" -> [registry EXCEPT ![tx.did].active = FALSE]

-----------------------------------------------------------------------------
(* The handlers. *)

Begin(c, state) ==
  /\ step[c] = "idle"
  /\ step' = [step EXCEPT ![c] = state]
  /\ overlapped' = (overlapped \/ InProgress # {})
  /\ UNCHANGED <<body, target, local, attempt, logged, rows, ledger, crashes>>

\* register: verifyDidController, before anything is awaited.
Register(c) ==
  /\ body[c].op = "register"
  /\ Begin(c, IF body[c].proven THEN "checking" ELSE "refused")

\* update and deactivate: findOne(id) is sent.
Change(c) ==
  /\ body[c].op \in {"update", "deactivate"}
  /\ Begin(c, "loading")

Leave(c, state) ==
  /\ step' = [step EXCEPT ![c] = state]
  /\ UNCHANGED <<body, target, attempt, logged, ledger, crashes, overlapped>>

Taken(did) == \E i \in Ids : rows[i].did = did

\* Faulty form: the chain is written before the table.
CheckDid_ChainFirst(c) ==
  /\ step[c] = "checking"
  /\ local' = [local EXCEPT ![c] =
       [did |-> body[c].did, key |-> body[c].key, status |-> "active"]]
  /\ Leave(c, "sending")
  /\ UNCHANGED rows

\* register: findOneBy({ agentDid }) and, unless the DID is taken, the entity.
CheckDid(c) ==
  /\ step[c] = "checking"
  /\ IF Taken(body[c].did)
     THEN Leave(c, "refused") /\ UNCHANGED local
     ELSE /\ local' = [local EXCEPT ![c] =
               [did |-> body[c].did, key |-> body[c].key,
                status |-> IF body[c].status = NoStatus THEN "active" ELSE body[c].status]]
          /\ Leave(c, "saving")
  /\ UNCHANGED rows

\* Faulty form: an update without a status resets it to the default.
LoadAgent_DefaultStatus(c) ==
  /\ step[c] = "loading"
  /\ IF rows[target[c]] = NoRow
     THEN Leave(c, "refused") /\ UNCHANGED local
     ELSE /\ local' = [local EXCEPT ![c] =
               LET row == rows[target[c]] IN
               IF body[c].op = "deactivate" THEN [row EXCEPT !.status = "inactive"]
               ELSE [row EXCEPT !.key = IF body[c].key = NoKey THEN @ ELSE body[c].key,
                                !.status = IF body[c].status = NoStatus THEN "active" ELSE body[c].status]]
          /\ Leave(c, "saving")
  /\ UNCHANGED rows

\* findOne(id), then Object.assign(agent, data), or status = INACTIVE.
LoadAgent(c) ==
  /\ step[c] = "loading"
  /\ IF rows[target[c]] = NoRow
     THEN Leave(c, "refused") /\ UNCHANGED local
     ELSE /\ local' = [local EXCEPT ![c] =
               LET row == rows[target[c]] IN
               IF body[c].op = "deactivate" THEN [row EXCEPT !.status = "inactive"]
               ELSE [row EXCEPT !.key = IF body[c].key = NoKey THEN @ ELSE body[c].key,
                                !.status = IF body[c].status = NoStatus THEN @ ELSE body[c].status]]
          /\ Leave(c, "saving")
  /\ UNCHANGED rows

\* Faulty form: updates are not mirrored.
Mirrors_NotUpdates(c) == body[c].op # "update"

\* registryAddress is set, and an update is mirrored if publicKey or endpoint is
\* truthy: one that only empties them is saved, and the chain is not told.
Mirrors(c) == body[c].op = "update" => body[c].key \notin {NoKey, EmptyKey}

AfterSave(c) == IF Mirrors(c) THEN "sending" ELSE "answered"

\* agentRepo.save of a new entity: the INSERT, or 23505 mapped to 409.
Insert(c) ==
  /\ step[c] = "saving"
  /\ body[c].op = "register"
  /\ IF Taken(local[c].did)
     THEN Leave(c, "refused") /\ UNCHANGED rows
     ELSE /\ rows' = [rows EXCEPT ![c] = local[c]]
          /\ Leave(c, AfterSave(c))
  /\ UNCHANGED local

\* agentRepo.save of a loaded entity: every column that differs from the stored
\* row is written, so the row becomes the copy the handler holds.
SaveCopy(c) ==
  /\ step[c] = "saving"
  /\ body[c].op # "register"
  /\ rows' = [rows EXCEPT ![target[c]] = local[c]]
  /\ Leave(c, AfterSave(c))
  /\ UNCHANGED local

\* A statement fails.  The connection may break after the save was
\* committed, so the row may be written all the same; nothing is mirrored.
DatabaseError(c) ==
  /\ step[c] \in {"checking", "loading", "saving"}
  /\ \/ UNCHANGED rows
     \/ /\ step[c] = "saving" /\ body[c].op = "register" /\ ~Taken(local[c].did)
        /\ rows' = [rows EXCEPT ![c] = local[c]]
     \/ /\ step[c] = "saving" /\ body[c].op # "register"
        /\ rows' = [rows EXCEPT ![target[c]] = local[c]]
  /\ Leave(c, "crashed")
  /\ UNCHANGED local

TxOf(c) ==
  [call |-> c, attempt |-> attempt[c], op |-> body[c].op, did |-> local[c].did,
   key |-> local[c].key]

\* contract.<method>(...) in withRetry: the estimate passes and the
\* transaction takes the wallet's next nonce.
SendTx(c) ==
  /\ step[c] = "sending"
  /\ Accepts(chain, TxOf(c))
  /\ pool' = Append(pool, TxOf(c))
  /\ step' = [step EXCEPT ![c] = "waiting"]
  /\ UNCHANGED <<body, target, local, attempt, logged, rows, minedSoFar, crashes, overlapped>>

\* The error is logged and swallowed; the saved row is returned.
Swallow(c) ==
  /\ step' = [step EXCEPT ![c] = "answered"]
  /\ logged' = [logged EXCEPT ![c] = "failed"]


\* withRetry: a transient error is retried until the attempts are used up.
TransientError(c) ==
  /\ step[c] \in {"sending", "waiting"}
  /\ attempt' = [attempt EXCEPT ![c] = @ + 1]
  /\ IF attempt[c] + 1 < MaxAttempts
     THEN step' = [step EXCEPT ![c] = "sending"] /\ UNCHANGED logged
     ELSE Swallow(c)
  /\ UNCHANGED <<body, target, local, rows, ledger, crashes, overlapped>>

\* withRetry: any other error is thrown at once - the estimate reverts, the node
\* refuses the transaction, or fails although it has taken it, before the answer
\* or while the receipt is awaited.
PermanentError(c) ==
  /\ step[c] \in {"sending", "waiting"}
  /\ Swallow(c)
  /\ UNCHANGED <<body, target, local, attempt, rows, ledger, crashes, overlapped>>

\* tx.wait() returns a receipt, or rejects because the transaction reverted.
TxSettles(c) ==
  /\ step[c] = "waiting"
  /\ \E receipt \in mined :
       /\ receipt.call = c /\ receipt.attempt = attempt[c]
       /\ step' = [step EXCEPT ![c] = "answered"]
       /\ logged' = [logged EXCEPT ![c] = IF receipt.ok THEN "ok" ELSE "failed"]
  /\ UNCHANGED <<body, target, local, attempt, rows, ledger, crashes, overlapped>>

Recent(history) == IF Len(history) > MaxDepth THEN Tail(history) ELSE history

\* The chain executes the wallet's next transaction.
Mine ==
  /\ pool # <<>>
  /\ LET tx == Head(pool)
         ok == Accepts(chain, tx)
     IN  /\ chain' = IF ok THEN Execute(chain, tx) ELSE chain
         /\ mined' = mined \union {[call |-> tx.call, attempt |-> tx.attempt, ok |-> ok]}
         /\ blocks' = Recent(Append(blocks, [tx |-> tx, chain |-> chain, mined |-> mined]))
  /\ pool' = Tail(pool)
  /\ UNCHANGED <<calls, rows, reorgs, undone, crashes, overlapped>>

\* The recent transactions from the n-th on, and then those of the pool.
Unmined(n) == [i \in 1 .. Len(blocks) - n + 1 |-> blocks[n + i - 1].tx] \o pool

\* The chain reorganises: the last blocks are taken back.  Their transactions
\* return to the pool; it may lose some, and with each the later nonces.
Reorg ==
  /\ reorgs < MaxReorgs
  /\ \E n \in DOMAIN blocks :
       /\ chain' = blocks[n].chain
       /\ mined' = blocks[n].mined
       /\ blocks' = SubSeq(blocks, 1, n - 1)
       /\ \E k \in 0 .. Len(Unmined(n)) : pool' = SubSeq(Unmined(n), 1, k)
       /\ undone' = undone \union {r.call : r \in {q \in mined \ blocks[n].mined : q.ok}}
  /\ reorgs' = reorgs + 1
  /\ UNCHANGED <<calls, rows, crashes, overlapped>>

\* The process restarts; its transactions stay in the mempool.
Crash ==
  /\ crashes < MaxCrashes
  /\ crashes' = crashes + 1
  /\ step' = [c \in Calls |-> IF step[c] \in Busy THEN "crashed" ELSE step[c]]
  /\ UNCHANGED <<body, target, local, attempt, logged, rows, ledger, overlapped>>

Handle(c) ==
  \/ CheckDid(c) \/ LoadAgent(c) \/ Insert(c) \/ SaveCopy(c) \/ DatabaseError(c)
  \/ SendTx(c) \/ TransientError(c) \/ PermanentError(c) \/ TxSettles(c)

Next ==
  \/ \E c \in Calls : Register(c) \/ Change(c) \/ Handle(c)
  \/ Mine
  \/ Reorg
  \/ Crash

\* Awaited statements and transactions settle, and the chain makes progress.
Fairness == (\A c \in Calls : WF_vars(Handle(c))) /\ WF_vars(Mine)

Spec == Init /\ [][Next]_vars /\ Fairness
-----------------------------------------------------------------------------
\* Every variable keeps its type; in particular no call of withRetry exceeds
\* its attempts.
TypeOK ==
  /\ step \in [Calls -> {"idle"} \union Busy \union Done]
  /\ body \in [Calls -> Bodies]
  /\ target \in [Calls -> Ids]
  /\ local \in [Calls -> Rows \union {NoRow}]
  /\ attempt \in [Calls -> 0 .. MaxAttempts]
  /\ logged \in [Calls -> {"none", "ok", "failed"}]
  /\ rows \in [Ids -> Rows \union {NoRow}]
  /\ pool \in Seq(Txs)
  /\ mined \in SUBSET Receipts
  /\ chain \in Registries
  /\ blocks \in Seq([tx : Txs, chain : Registries, mined : SUBSET Receipts])
  /\ reorgs \in 0 .. MaxReorgs
  /\ undone \subseteq Calls
  /\ crashes \in 0 .. MaxCrashes
  /\ overlapped \in BOOLEAN

\* The table leads and the chain follows.  Two registrations of one DID never
\* both leave a row, although the SELECT by DID and the INSERT are two
\* statements; and the chain never knows an agent the table does not: the row is
\* written first, and no failure, retry or crash loses it afterwards.
TableLeadsChain ==
  /\ \A i, j \in Ids : i # j /\ rows[i] # NoRow => rows[i].did # rows[j].did
  /\ \A d \in Dids : chain[d].owned => \E i \in Ids : rows[i].did = d

\* However often withRetry sends a registration or deactivation, timed-out and
\* failed attempts included, it takes effect on the chain at most once; and one
\* that the service logs as done is there and nothing undoes it, unless the chain
\* reorganised and took the transaction back.  "Registrations wait for a reorg-safe
\* confirmation depth before being treated as final" (SECURITY.md:11) is not what
\* the code does: it waits for one.  A call logged as failed may have been sent and
\* take effect yet, also after an error that is not retried (retry.util.ts:55).
LogMatchesChain ==
  \A c \in Calls : body[c].op \in {"register", "deactivate"} =>
    /\ Cardinality({r \in mined : r.call = c /\ r.ok}) <= 1
    /\ logged[c] = "ok" /\ c \notin undone =>
         /\ chain[local[c].did].owned
         /\ body[c].op = "deactivate" => ~chain[local[c].did].active

\* If calls never overlapped, nothing was reported to fail and the chain did not
\* reorganise, the chain holds the key and endpoint of the table whenever the
\* service is at rest: retries alone never leave the two apart.  It may hold an
\* older key where the table has an empty one: an update that empties publicKey
\* or endpoint is saved and not mirrored (identity.service.ts:115).
MirroredWhenSerial ==
  /\ ~overlapped /\ reorgs = 0
  /\ \A c \in Calls : step[c] \in {"idle", "refused", "answered"} /\ logged[c] # "failed"
  => \A i \in Ids : rows[i] # NoRow =>
       /\ chain[rows[i].did].owned
       /\ rows[i].key # EmptyKey => chain[rows[i].did].key = rows[i].key


\* update saves a copy of the whole row.  While calls do not overlap, an agent
\* that was deactivated stays inactive in the table unless an update asks for
\* another status.
DeactivatedStaysWhenSerial ==
  ~overlapped => \A c \in Calls :
    /\ body[c].op = "deactivate" /\ step[c] = "answered"
    /\ \A u \in Calls : body[u].status = NoStatus
    => rows[target[c]].status = "inactive"
=============================================================================
