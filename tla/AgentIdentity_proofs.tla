------------------------ MODULE AgentIdentity_proofs ------------------------
(***************************************************************************)
(* What the table agents, the log and the contract have to do with each    *)
(* other, for every number of calls, of agents and of attempts.            *)
(***************************************************************************)
EXTENDS AgentIdentity, FiniteSetTheorems, SequenceTheorems, TLAPS

\* A handler that has come this far has written its row.
Mirroring == {"sending", "waiting"}

\* A handler that has sent transactions is in one of these states.
Past == {"sending", "waiting", "answered", "crashed"}

\* What the steps of a handler know of the table.
HandlersOK ==
  \A c \in Calls :
    /\ step[c] = "checking" => body[c].op = "register"
    /\ step[c] = "loading" => body[c].op # "register"
    /\ body[c].op = "register" /\ step[c] \in {"idle", "checking", "saving"} => rows[c] = NoRow
    /\ step[c] = "saving" => local[c] \in Rows
    /\ step[c] = "saving" /\ body[c].op # "register" =>
         rows[target[c]] # NoRow /\ rows[target[c]].did = local[c].did
    /\ step[c] \in Mirroring => local[c] \in Rows /\ Taken(local[c].did)

\* A transaction is what its handler sent, for an agent that has a row.
TxOK(tx) ==
  /\ tx.op = body[tx.call].op /\ tx.did = local[tx.call].did /\ tx.key = local[tx.call].key
  /\ Taken(tx.did)
  /\ step[tx.call] \in Past

\* A state of the contract and the receipts that led to it: agents have rows, and
\* a registration or deactivation was executed once at most and is still there.
LedgerOK(registry, receipts) ==
  /\ \A d \in Dids : registry[d].owned => Taken(d)
  /\ \A r \in receipts :
       /\ local[r.call].did \in Dids
       /\ step[r.call] \in Past
       /\ r.ok /\ body[r.call].op \in {"register", "deactivate"} =>
            /\ registry[local[r.call].did].owned
            /\ body[r.call].op = "deactivate" => ~registry[local[r.call].did].active
            /\ \A q \in receipts : q.call = r.call /\ q.ok => q = r

\* So it is with the chain, and with the earlier ones to which it may return.
PoolOK == \A i \in DOMAIN pool : TxOK(pool[i])
BlocksOK == \A i \in DOMAIN blocks : TxOK(blocks[i].tx) /\ LedgerOK(blocks[i].chain, blocks[i].mined)
ChainOK == PoolOK /\ LedgerOK(chain, mined) /\ BlocksOK

\* Each row has a DID of its own.
RowsOK == \A i, j \in Ids : i # j /\ rows[i] # NoRow => rows[i].did # rows[j].did

\* Nothing is logged before the handler answers, which it does at the latest
\* with its last attempt.
LogOK ==
  \A c \in Calls : /\ step[c] \notin {"answered", "crashed"} => attempt[c] < MaxAttempts
                   /\ logged[c] # "none" => step[c] = "answered"
                   /\ logged[c] = "ok" /\ c \notin undone => \E r \in mined : r.call = c /\ r.ok

MirrorInv == TypeOK /\ HandlersOK /\ RowsOK /\ ChainOK /\ LogOK

\* Attempt a of call c was made, before the current one unless that is on its way
\* or has been answered.
Sent(c, a) == a <= attempt[c] /\ (step[c] = "sending" => a < attempt[c])

\* Unless the chain reorganised, the attempts of a call are mined in their order.
AttemptsOK ==
  reorgs = 0 =>
    /\ \A i \in DOMAIN pool : Sent(pool[i].call, pool[i].attempt)
    /\ \A r \in mined : Sent(r.call, r.attempt)
    /\ \A i, j \in DOMAIN pool : i < j /\ pool[j].call = pool[i].call =>
                                   pool[i].attempt < pool[j].attempt
    /\ \A r \in mined : \A i \in DOMAIN pool : pool[i].call = r.call => r.attempt < pool[i].attempt

\* The following hold while calls do not overlap.
SerialOK ==
  ~overlapped => \A c, d \in Calls : step[c] \in Busy /\ step[d] \in Busy => c = d

\* The copy of a row that is about to be saved does not undo a deactivation.
StatusesOK ==
  ~overlapped /\ (\A u \in Calls : body[u].status = NoStatus) =>
    \A c \in Calls :
      /\ body[c].op = "deactivate" /\ step[c] \in Mirroring \union {"answered"} =>
           rows[target[c]].status = "inactive"
      /\ body[c].op = "deactivate" /\ step[c] = "saving" => local[c].status = "inactive"
      /\ body[c].op # "register" /\ step[c] = "saving" /\ rows[target[c]].status = "inactive" =>
           local[c].status = "inactive"

\* Calls did not overlap, the chain did not reorganise, no call was cut off and
\* none logged a failure.
Unharmed ==
  ~overlapped /\ reorgs = 0 /\ \A c \in Calls : step[c] # "crashed" /\ logged[c] # "failed"

\* The handler is mirroring a key.
MirrorsKey(c) == step[c] \in Mirroring /\ body[c].op \in {"register", "update"}

\* Only a handler that is still waiting has transactions in the pool.
PoolIsCurrent == \A i \in DOMAIN pool : step[pool[i].call] \in Mirroring

\* A save that will not be mirrored, or only as a deactivation, keeps the key or
\* empties it.
KeysKept ==
  \A c \in Calls :
    step[c] = "saving" /\ (body[c].op = "deactivate" \/ (body[c].op = "update" /\ ~Mirrors(c)))
    => local[c].key \in {EmptyKey, rows[target[c]].key}

\* The key a handler mirrors is the one in the table; with its receipt the chain
\* has it too.
KeysAhead ==
  \A c \in Calls : MirrorsKey(c) =>
    /\ \A i \in Ids : rows[i].did = local[c].did => rows[i].key = local[c].key
    /\ \A r \in mined : r.call = c /\ r.ok =>
         chain[local[c].did].owned /\ chain[local[c].did].key = local[c].key

IsMirrored(row) ==
  chain[row.did].owned /\ (row.key # EmptyKey => chain[row.did].key = row.key)

RowsMirrored ==
  \A i \in Ids : rows[i] # NoRow =>
    \/ IsMirrored(rows[i])
    \/ \E c \in Calls : MirrorsKey(c) /\ local[c].did = rows[i].did

SerialMirrorOK == Unharmed => PoolIsCurrent /\ KeysKept /\ KeysAhead /\ RowsMirrored

-----------------------------------------------------------------------------
LEMMA RowFacts ==
  /\ NoRow \notin Rows /\ NoRow.did \notin Dids /\ NoRow.did = "none" /\ NoRow.status = "none"
  /\ \A row \in Rows : row.did \in Dids /\ row.did # "none" /\ row.key \in BodyKeys
                        /\ row.status \in {"active", "inactive"}
BY BodiesAssumption DEF NoRow, Rows

LEMMA BodyFacts ==
  ASSUME TypeOK, NEW c \in Calls
  PROVE  /\ body[c].op \in {"register", "update", "deactivate"}
         /\ body[c].did \in Dids /\ body[c].key \in BodyKeys
         /\ body[c].status \in {"active", "inactive", NoStatus}
<1>1. body[c] \in Bodies
  BY DEF TypeOK
<1>2. body[c] \in [op : {"register", "update", "deactivate"}, did : Dids, key : BodyKeys,
                   status : {"active", "inactive", NoStatus}, proven : BOOLEAN]
  BY <1>1, BodiesAssumption
<1> QED
  BY <1>2

LEMMA PoolTypes ==
  ASSUME TypeOK
  PROVE  /\ \A i \in DOMAIN pool : pool[i] \in Txs
         /\ \A i \in DOMAIN blocks : /\ blocks[i].tx \in Txs /\ blocks[i].chain \in Registries
                                     /\ blocks[i].mined \subseteq Receipts
         /\ \A tx \in Txs : /\ tx.call \in Calls /\ tx.did \in Dids /\ tx.key \in BodyKeys
                            /\ tx.attempt \in Nat
         /\ \A r \in Receipts : r.call \in Calls /\ r.ok \in BOOLEAN /\ r.attempt \in Nat
         /\ mined \subseteq Receipts /\ chain \in Registries
<1>1. \A i \in DOMAIN pool : pool[i] \in Txs
  BY DEF TypeOK
<1>2. \A i \in DOMAIN blocks : blocks[i] \in [tx : Txs, chain : Registries, mined : SUBSET Receipts]
  <2> DEFINE B == [tx : Txs, chain : Registries, mined : SUBSET Receipts]
  <2>1. blocks \in Seq(B)
    BY DEF TypeOK
  <2> HIDE DEF B
  <2>2. \A i \in DOMAIN blocks : blocks[i] \in B
    BY <2>1
  <2> QED
    BY <2>2 DEF B
<1>3. \A tx \in Txs : /\ tx.call \in Calls /\ tx.did \in Dids /\ tx.key \in BodyKeys
                      /\ tx.attempt \in Nat
  BY AttemptsAssumption DEF Txs
<1>4. \A r \in Receipts : r.call \in Calls /\ r.ok \in BOOLEAN /\ r.attempt \in Nat
  BY AttemptsAssumption DEF Receipts
<1> QED
  BY <1>1, <1>2, <1>3, <1>4 DEF TypeOK

LEMMA IdentityInit == Init => MirrorInv /\ AttemptsOK /\ SerialOK /\ StatusesOK /\ SerialMirrorOK
<1> SUFFICES ASSUME Init PROVE MirrorInv /\ AttemptsOK /\ SerialOK /\ StatusesOK /\ SerialMirrorOK
  OBVIOUS
<1>1. PICK old \in {NoRow} \union Written :
        /\ rows = [i \in Ids |-> IF i = Old THEN old ELSE NoRow]
        /\ chain = [d \in Dids |-> IF d = old.did
                                   THEN [owned |-> TRUE, key |-> old.key, active |-> TRUE]
                                   ELSE Unregistered]
  BY DEF Init
<1>2. old \in Rows \union {NoRow} /\ (old # NoRow => old.key \in BodyKeys)
  BY <1>1, RowFacts DEF Written
<1>3. chain \in Registries
  BY <1>1, <1>2, RowFacts DEF Unregistered, Registries
<1>4. TypeOK
  <2>1. rows \in [Ids -> Rows \union {NoRow}] /\ local \in [Calls -> Rows \union {NoRow}]
    BY <1>1, <1>2 DEF Init
  <2>2. attempt \in [Calls -> 0 .. MaxAttempts] /\ crashes \in 0 .. MaxCrashes /\ reorgs \in 0 .. MaxReorgs
    BY AttemptsAssumption DEF Init
  <2>3. /\ pool \in Seq(Txs) /\ mined \in SUBSET Receipts /\ undone \subseteq Calls
        /\ blocks \in Seq([tx : Txs, chain : Registries, mined : SUBSET Receipts])
    BY DEF Init
  <2> QED
    BY <1>3, <2>1, <2>2, <2>3 DEF Init, TypeOK
<1>5. RowsOK
  BY <1>1, <1>2, RowFacts DEF RowsOK, Ids
<1>6. HandlersOK
  BY <1>1, OldAssumption DEF Init, HandlersOK, Mirroring, Ids
<1>7. ChainOK
  <2>1. \A d \in Dids : chain[d].owned => Taken(d)
    BY <1>1, <1>2, RowFacts DEF Taken, Unregistered, Ids
  <2>2. DOMAIN pool = {} /\ DOMAIN blocks = {} /\ mined = {}
    BY DEF Init
  <2> QED
    BY <2>1, <2>2 DEF ChainOK, PoolOK, LedgerOK, BlocksOK
<1>8. LogOK /\ AttemptsOK
  BY AttemptsAssumption DEF Init, AttemptsOK, LogOK
<1>9. SerialOK /\ StatusesOK
  BY DEF Init, SerialOK, StatusesOK, Busy, Mirroring
<1>10. SerialMirrorOK
  BY <1>1, <1>2, RowFacts DEF Init, SerialMirrorOK, PoolIsCurrent, KeysKept, KeysAhead, RowsMirrored,
                              IsMirrored, MirrorsKey, Mirroring, Ids
<1> QED
  BY <1>4, <1>5, <1>6, <1>7, <1>8, <1>9, <1>10 DEF MirrorInv

\* A step that only adds DIDs to the table and leaves the handlers that have sent
\* something what they were, keeps what is known of transactions and of chains.
LEMMA LedgerKept ==
  ASSUME TypeOK, \A d \in Dids : Taken(d) => Taken(d)',
         \A c \in Calls : step[c] \in Past =>
           /\ step'[c] \in Past /\ local'[c] = local[c] /\ body'[c] = body[c]
  PROVE  /\ \A tx \in Txs : TxOK(tx) => TxOK(tx)'
         /\ \A registry, receipts :
              receipts \subseteq Receipts /\ LedgerOK(registry, receipts) =>
                LedgerOK(registry, receipts)'
<1>1. \A tx \in Txs : TxOK(tx) => TxOK(tx)'
  BY PoolTypes DEF TxOK
<1>2. ASSUME NEW registry, NEW receipts, receipts \subseteq Receipts, LedgerOK(registry, receipts)
      PROVE  LedgerOK(registry, receipts)'
  <2>1. \A r \in receipts : /\ step'[r.call] \in Past /\ local'[r.call] = local[r.call]
                            /\ body'[r.call] = body[r.call]
    BY <1>2, PoolTypes DEF LedgerOK
  <2> QED
    BY <1>2, <2>1 DEF LedgerOK
<1> QED
  BY <1>1, <1>2

\* Blocks that hold known transactions and known chains are in order.
LEMMA BlocksKept ==
  ASSUME \A tx \in Txs : TxOK(tx) => TxOK(tx)',
         \A registry, receipts :
           receipts \subseteq Receipts /\ LedgerOK(registry, receipts) =>
             LedgerOK(registry, receipts)',
         \A i \in DOMAIN blocks' : \E tx \in Txs, registry \in Registries, receipts \in SUBSET Receipts :
           /\ TxOK(tx) /\ LedgerOK(registry, receipts)
           /\ blocks'[i].tx = tx /\ blocks'[i].chain = registry /\ blocks'[i].mined = receipts
  PROVE  BlocksOK'
<1> SUFFICES ASSUME NEW i \in DOMAIN blocks'
             PROVE  TxOK(blocks[i].tx)' /\ LedgerOK(blocks[i].chain, blocks[i].mined)'
  BY DEF BlocksOK
<1>1. PICK tx \in Txs, registry \in Registries, receipts \in SUBSET Receipts :
        /\ TxOK(tx) /\ LedgerOK(registry, receipts)
        /\ blocks'[i].tx = tx /\ blocks'[i].chain = registry /\ blocks'[i].mined = receipts
  OBVIOUS
<1>2. TxOK(tx)' /\ LedgerOK(registry, receipts)'
  BY <1>1
<1> QED
  BY <1>1, <1>2 DEF TxOK, LedgerOK

LEMMA ChainKept ==
  ASSUME TypeOK, ChainOK, UNCHANGED ledger, \A d \in Dids : Taken(d) => Taken(d)',
         \A c \in Calls : step[c] \in Past =>
           /\ step'[c] \in Past /\ local'[c] = local[c] /\ body'[c] = body[c]
  PROVE  ChainOK'
<1>1. /\ \A tx \in Txs : TxOK(tx) => TxOK(tx)'
      /\ \A registry, receipts :
           receipts \subseteq Receipts /\ LedgerOK(registry, receipts) =>
             LedgerOK(registry, receipts)'
  BY LedgerKept
<1>2. pool' = pool /\ blocks' = blocks /\ chain' = chain /\ mined' = mined
  BY DEF ledger, minedSoFar
<1>3. PoolOK'
  BY <1>1, <1>2, PoolTypes DEF ChainOK, PoolOK, TxOK
<1>4. LedgerOK(chain, mined)'
  BY <1>1, <1>2, PoolTypes DEF ChainOK, LedgerOK
<1>5. BlocksOK'
  <2>1. \A i \in DOMAIN blocks' :
           \E tx \in Txs, registry \in Registries, receipts \in SUBSET Receipts :
             /\ TxOK(tx) /\ LedgerOK(registry, receipts)
             /\ blocks'[i].tx = tx /\ blocks'[i].chain = registry /\ blocks'[i].mined = receipts
    BY <1>2, PoolTypes DEF ChainOK, BlocksOK
  <2> QED
    BY <1>1, <2>1, BlocksKept
<1> QED
  BY <1>3, <1>4, <1>5 DEF ChainOK

\* A step of a handler that has sent nothing yet.
LEMMA EarlyStep ==
  ASSUME MirrorInv, NEW c \in Calls, step[c] \notin Past,
         UNCHANGED <<body, target, attempt, logged, ledger>>,
         \A d \in Calls : d # c => step'[d] = step[d] /\ local'[d] = local[d],
         \A d \in Dids : Taken(d) => Taken(d)',
         RowsOK', TypeOK', HandlersOK'
  PROVE  MirrorInv'
<1>1. ChainOK'
  BY ChainKept DEF MirrorInv
<1>2. LogOK'
  BY DEF MirrorInv, LogOK, ledger, minedSoFar, Past
<1> QED
  BY <1>1, <1>2 DEF MirrorInv

LEMMA BeginStep ==
  ASSUME MirrorInv, NEW c \in Calls, Register(c) \/ Change(c)
  PROVE  MirrorInv'
<1>1. PICK s \in {"checking", "refused", "loading"} :
        /\ Begin(c, s)
        /\ s = "checking" => body[c].op = "register"
        /\ s = "loading" => body[c].op # "register"
  BY DEF Register, Change
<1>2. /\ step[c] = "idle" /\ step' = [step EXCEPT ![c] = s]
      /\ UNCHANGED <<body, target, local, attempt, logged, rows, ledger, crashes>>
      /\ overlapped' = (overlapped \/ InProgress # {})
  BY <1>1 DEF Begin
<1>3. TypeOK'
  BY <1>1, <1>2 DEF MirrorInv, TypeOK, ledger, minedSoFar, Busy, Done
<1>4. HandlersOK'
  BY <1>1, <1>2 DEF MirrorInv, TypeOK, HandlersOK, Mirroring, Taken
<1> QED
  BY <1>2, <1>3, <1>4, EarlyStep DEF MirrorInv, TypeOK, RowsOK, Past, Taken

LEMMA CheckDidStep ==
  ASSUME MirrorInv, NEW c \in Calls, CheckDid(c)
  PROVE  MirrorInv'
<1>1. /\ step[c] = "checking" /\ body[c].op = "register" /\ rows[c] = NoRow
      /\ step \in [Calls -> {"idle"} \union Busy \union Done]
      /\ local \in [Calls -> Rows \union {NoRow}]
  BY DEF CheckDid, MirrorInv, HandlersOK, TypeOK
<1>2. PICK s \in {"refused", "saving"}, row \in Rows \union {NoRow} :
        /\ step' = [step EXCEPT ![c] = s]
        /\ local' = [local EXCEPT ![c] = row]
        /\ s = "saving" => row \in Rows
        /\ UNCHANGED <<body, target, attempt, logged, ledger, crashes, overlapped, rows>>
  <2>1. CASE Taken(body[c].did)
    <3>1. local' = [local EXCEPT ![c] = local[c]]
      BY <1>1, <2>1 DEF CheckDid
    <3> QED
      BY <1>1, <2>1, <3>1 DEF CheckDid, Leave
  <2>2. CASE ~Taken(body[c].did)
    <3> DEFINE row == [did |-> body[c].did, key |-> body[c].key,
                       status |-> IF body[c].status = NoStatus THEN "active" ELSE body[c].status]
    <3>1. row \in Rows
      BY BodyFacts DEF MirrorInv, Rows
    <3> QED
      BY <2>2, <3>1 DEF CheckDid, Leave
  <2> QED
    BY <2>1, <2>2
<1>3. TypeOK'
  BY <1>1, <1>2 DEF MirrorInv, TypeOK, ledger, minedSoFar, Busy, Done
<1>4. HandlersOK'
  BY <1>1, <1>2 DEF MirrorInv, HandlersOK, Mirroring, Taken
<1> QED
  BY <1>1, <1>2, <1>3, <1>4, EarlyStep DEF MirrorInv, RowsOK, Past, Taken

LEMMA LoadAgentStep ==
  ASSUME MirrorInv, NEW c \in Calls, LoadAgent(c)
  PROVE  MirrorInv'
<1>1. /\ step[c] = "loading" /\ body[c].op # "register" /\ target[c] \in Ids
      /\ step \in [Calls -> {"idle"} \union Busy \union Done]
      /\ local \in [Calls -> Rows \union {NoRow}]
  BY DEF LoadAgent, MirrorInv, HandlersOK, TypeOK
<1>2. PICK s \in {"refused", "saving"}, row \in Rows \union {NoRow} :
        /\ step' = [step EXCEPT ![c] = s]
        /\ local' = [local EXCEPT ![c] = row]
        /\ s = "saving" => row \in Rows /\ rows[target[c]] # NoRow /\ rows[target[c]].did = row.did
        /\ UNCHANGED <<body, target, attempt, logged, ledger, crashes, overlapped, rows>>
  <2>1. CASE rows[target[c]] = NoRow
    <3>1. local' = [local EXCEPT ![c] = local[c]]
      BY <1>1, <2>1 DEF LoadAgent
    <3> QED
      BY <1>1, <2>1, <3>1 DEF LoadAgent, Leave
  <2>2. CASE rows[target[c]] # NoRow
    <3>1. rows[target[c]] \in Rows
      BY <1>1, <2>2 DEF MirrorInv, TypeOK
    <3> DEFINE row == rows[target[c]]
               k == IF body[c].key = NoKey THEN row.key ELSE body[c].key
               t == IF body[c].status = NoStatus THEN row.status ELSE body[c].status
               new == IF body[c].op = "deactivate" THEN [row EXCEPT !.status = "inactive"]
                      ELSE [row EXCEPT !.key = k, !.status = t]
    <3>2. k \in BodyKeys /\ t \in {"active", "inactive"}
      BY <3>1, BodyFacts DEF MirrorInv, Rows
    <3>3. local' = [local EXCEPT ![c] = new] /\ step' = [step EXCEPT ![c] = "saving"]
          /\ UNCHANGED <<body, target, attempt, logged, ledger, crashes, overlapped, rows>>
      BY <2>2 DEF LoadAgent, Leave
    <3> HIDE DEF k, t, row
    <3>4. row \in Rows
      BY <3>1 DEF row
    <3>5. new \in Rows /\ new.did = row.did
      BY <3>2, <3>4 DEF Rows
    <3> QED
      BY <2>2, <3>3, <3>5 DEF row
  <2> QED
    BY <2>1, <2>2
<1>3. TypeOK'
  BY <1>1, <1>2 DEF MirrorInv, TypeOK, ledger, minedSoFar, Busy, Done
<1>4. HandlersOK'
  BY <1>1, <1>2 DEF MirrorInv, HandlersOK, Mirroring, Taken
<1> QED
  BY <1>1, <1>2, <1>3, <1>4, EarlyStep DEF MirrorInv, RowsOK, Past, Taken

\* What a handler in "saving" writes, and where.
Writes(c, i) ==
  \/ body[c].op = "register" /\ i = c /\ ~Taken(local[c].did)
  \/ body[c].op # "register" /\ i = target[c]

LEMMA SavingStep ==
  ASSUME MirrorInv, NEW c \in Calls, NEW s \in {"refused", "sending", "answered", "crashed"},
         NEW i \in Ids, step[c] = "saving",
         step' = [step EXCEPT ![c] = s],
         UNCHANGED <<body, target, local, attempt, logged, ledger, crashes, overlapped>>,
         Writes(c, i), rows' = [rows EXCEPT ![i] = local[c]]
  PROVE  MirrorInv'
<1>1. /\ local[c] \in Rows /\ rows \in [Ids -> Rows \union {NoRow}]
      /\ step \in [Calls -> {"idle"} \union Busy \union Done]
      /\ Calls \subseteq Ids /\ rows'[i] = local[c] /\ \A j \in Ids : j # i => rows'[j] = rows[j]
  BY DEF MirrorInv, HandlersOK, TypeOK, Ids
<1>2. \/ rows[i] = NoRow /\ ~Taken(local[c].did)
      \/ rows[i] # NoRow /\ rows[i].did = local[c].did
  BY DEF MirrorInv, HandlersOK, Writes
<1>3. \A j \in Ids : j # i => rows[j].did # local[c].did
  <2>1. CASE rows[i] = NoRow /\ ~Taken(local[c].did)
    BY <2>1 DEF Taken
  <2>2. CASE rows[i] # NoRow /\ rows[i].did = local[c].did
    BY <2>2 DEF MirrorInv, RowsOK
  <2> QED
    BY <1>2, <2>1, <2>2
<1>4. \A j \in Ids : rows[j] # NoRow => rows'[j] # NoRow /\ rows'[j].did = rows[j].did
  BY <1>1, <1>2, RowFacts DEF Taken
<1>5. \A d \in Dids : Taken(d) => Taken(d)'
  BY <1>4, RowFacts DEF Taken
<1>6. RowsOK'
  <2> SUFFICES ASSUME NEW j \in Ids, NEW k \in Ids, j # k, rows'[j] # NoRow
               PROVE  rows'[j].did # rows'[k].did
    BY DEF RowsOK
  <2>1. CASE j = i
    BY <1>1, <1>3, <2>1
  <2>2. CASE k = i
    BY <1>1, <1>3, <2>2
  <2>3. CASE j # i /\ k # i
    BY <1>1, <2>3 DEF MirrorInv, RowsOK
  <2> QED
    BY <2>1, <2>2, <2>3
<1>7. TypeOK'
  BY <1>1 DEF MirrorInv, TypeOK, ledger, minedSoFar, Busy, Done
<1>8. HandlersOK'
  <2> SUFFICES ASSUME NEW d \in Calls
               PROVE  /\ (step[d] = "checking" => body[d].op = "register")'
                      /\ (step[d] = "loading" => body[d].op # "register")'
                      /\ (body[d].op = "register" /\ step[d] \in {"idle", "checking", "saving"}
                           => rows[d] = NoRow)'
                      /\ (step[d] = "saving" => local[d] \in Rows)'
                      /\ (step[d] = "saving" /\ body[d].op # "register" =>
                            rows[target[d]] # NoRow /\ rows[target[d]].did = local[d].did)'
                      /\ (step[d] \in Mirroring => local[d] \in Rows /\ Taken(local[d].did))'
    BY DEF HandlersOK
  <2>1. CASE d = c
    BY <1>1, <2>1 DEF Mirroring, Taken
  <2>2. CASE d # c
    <3>1. step'[d] = step[d] /\ target[d] \in Ids
      BY <1>1, <2>2 DEF MirrorInv, TypeOK
    <3>2. body[d].op = "register" /\ rows[d] = NoRow => rows'[d] = NoRow
      BY <1>1, <2>2 DEF Writes, MirrorInv, HandlersOK
    <3>3. step[d] \in Mirroring => local[d].did \in Dids
      BY RowFacts DEF MirrorInv, HandlersOK
    <3> QED
      BY <1>4, <1>5, <3>1, <3>2, <3>3 DEF MirrorInv, HandlersOK
  <2> QED
    BY <2>1, <2>2
<1> QED
  BY <1>1, <1>5, <1>6, <1>7, <1>8, EarlyStep DEF Past

\* A save that writes nothing: 409, or a statement that failed.
LEMMA AbandonStep ==
  ASSUME MirrorInv, NEW c \in Calls, NEW s \in {"refused", "crashed"},
         step[c] \in {"checking", "loading", "saving"}, step' = [step EXCEPT ![c] = s],
         UNCHANGED <<body, target, local, attempt, logged, rows, ledger, crashes, overlapped>>
  PROVE  MirrorInv'
<1>1. TypeOK'
  BY DEF MirrorInv, TypeOK, ledger, minedSoFar, Busy, Done
<1>2. HandlersOK'
  BY DEF MirrorInv, TypeOK, HandlersOK, Mirroring, Taken
<1>3. step[c] \notin Past /\ \A d \in Calls : d # c => step'[d] = step[d]
  BY DEF MirrorInv, TypeOK, Past
<1>4. RowsOK'
  BY DEF MirrorInv, RowsOK
<1> QED
  BY <1>1, <1>2, <1>3, <1>4, EarlyStep DEF Taken

\* A step of a handler on the database is one of three kinds.
LEMMA DatabaseCases ==
  ASSUME TypeOK, NEW c \in Calls, Insert(c) \/ SaveCopy(c) \/ DatabaseError(c)
  PROVE  /\ UNCHANGED <<body, target, local, attempt, logged, ledger, crashes, overlapped>>
         /\ \/ \E s \in {"refused", "crashed"} :
                 /\ step[c] \in {"checking", "loading", "saving"}
                 /\ step' = [step EXCEPT ![c] = s] /\ rows' = rows
            \/ \E s \in {"sending", "answered", "crashed"}, i \in Ids :
                 /\ step[c] = "saving" /\ step' = [step EXCEPT ![c] = s] /\ Writes(c, i)
                 /\ rows' = [rows EXCEPT ![i] = local[c]]
                 /\ s # "crashed" => s = AfterSave(c)
<1>1. CASE Insert(c)
  <2>1. CASE Taken(local[c].did)
    BY <1>1, <2>1 DEF Insert, Leave
  <2>2. CASE ~Taken(local[c].did)
    <3>1. c \in Ids /\ Writes(c, c) /\ AfterSave(c) \in {"sending", "answered"}
      BY <1>1, <2>2 DEF Insert, Writes, Ids, AfterSave
    <3> QED
      BY <1>1, <2>2, <3>1 DEF Insert, Leave
  <2> QED
    BY <2>1, <2>2
<1>2. CASE SaveCopy(c)
  <2>1. Writes(c, target[c]) /\ AfterSave(c) \in {"sending", "answered"}
    BY <1>2 DEF SaveCopy, Writes, AfterSave
  <2> QED
    BY <1>2, <2>1 DEF SaveCopy, Leave, TypeOK
<1>3. CASE DatabaseError(c)
  <2>1. CASE UNCHANGED rows
    BY <1>3, <2>1 DEF DatabaseError, Leave
  <2>2. CASE /\ step[c] = "saving" /\ body[c].op = "register" /\ ~Taken(local[c].did)
             /\ rows' = [rows EXCEPT ![c] = local[c]]
    BY <1>3, <2>2 DEF DatabaseError, Leave, Writes, Ids
  <2>3. CASE /\ step[c] = "saving" /\ body[c].op # "register"
             /\ rows' = [rows EXCEPT ![target[c]] = local[c]]
    BY <1>3, <2>3 DEF DatabaseError, Leave, Writes, TypeOK
  <2> QED
    BY <1>3, <2>1, <2>2, <2>3 DEF DatabaseError
<1> QED
  BY <1>1, <1>2, <1>3

LEMMA DatabaseStep ==
  ASSUME MirrorInv, NEW c \in Calls, Insert(c) \/ SaveCopy(c) \/ DatabaseError(c)
  PROVE  MirrorInv'
BY DatabaseCases, AbandonStep, SavingStep DEF MirrorInv

-----------------------------------------------------------------------------
(* The steps of withRetry. *)

\* A step of a handler that mirrors, and leaves the table, the copies and the
\* chain alone.
LEMMA RetryStep ==
  ASSUME MirrorInv, NEW c \in Calls, step[c] \in Mirroring,
         NEW s \in {"sending", "waiting", "answered"}, step' = [step EXCEPT ![c] = s],
         UNCHANGED <<body, target, local, rows, minedSoFar>>
  PROVE  /\ HandlersOK' /\ RowsOK'
         /\ \A tx \in Txs : TxOK(tx) => TxOK(tx)'
         /\ LedgerOK(chain, mined)' /\ BlocksOK'
<1>1. HandlersOK' /\ RowsOK'
  BY DEF MirrorInv, TypeOK, HandlersOK, RowsOK, Mirroring, Taken
<1>2. /\ \A d \in Calls : step[d] \in Past => step'[d] \in Past
      /\ \A d \in Dids : Taken(d) => Taken(d)'
  BY DEF MirrorInv, TypeOK, Past, Taken
<1>3. /\ \A tx \in Txs : TxOK(tx) => TxOK(tx)'
      /\ \A registry, receipts :
           receipts \subseteq Receipts /\ LedgerOK(registry, receipts) =>
             LedgerOK(registry, receipts)'
  BY <1>2, LedgerKept DEF MirrorInv
<1>4. LedgerOK(chain, mined)'
  BY <1>3, PoolTypes DEF MirrorInv, ChainOK, LedgerOK, minedSoFar
<1>5. BlocksOK'
  <2>1. \A i \in DOMAIN blocks' :
           \E tx \in Txs, registry \in Registries, receipts \in SUBSET Receipts :
             /\ TxOK(tx) /\ LedgerOK(registry, receipts)
             /\ blocks'[i].tx = tx /\ blocks'[i].chain = registry /\ blocks'[i].mined = receipts
    BY PoolTypes DEF MirrorInv, ChainOK, BlocksOK, minedSoFar
  <2> QED
    BY <1>3, <2>1, BlocksKept
<1> QED
  BY <1>1, <1>3, <1>4, <1>5

\* What SendTx appends to the pool.
LEMMA SentTx ==
  ASSUME MirrorInv, NEW c \in Calls, SendTx(c)
  PROVE  /\ TxOf(c) \in Txs /\ TxOf(c).call = c /\ TxOf(c).attempt = attempt[c]
         /\ TxOK(TxOf(c))
         /\ pool' \in Seq(Txs)
         /\ DOMAIN pool' = DOMAIN pool \union {Len(pool) + 1}
         /\ \A i \in DOMAIN pool : pool'[i] = pool[i] /\ i # Len(pool) + 1 /\ i < Len(pool) + 1
         /\ pool'[Len(pool) + 1] = TxOf(c)
<1> DEFINE tx == TxOf(c)
<1>1. /\ step[c] = "sending" /\ pool' = Append(pool, tx)
  BY DEF SendTx
<1>2. /\ tx.call = c /\ tx.attempt = attempt[c] /\ tx.op = body[c].op /\ tx.did = local[c].did
      /\ tx.key = local[c].key
  BY DEF TxOf
<1>3. tx \in Txs /\ Taken(tx.did)
  <2>1. local[c] \in Rows /\ Taken(local[c].did)
    BY <1>1 DEF MirrorInv, HandlersOK, Mirroring
  <2>2. attempt[c] \in 0 .. MaxAttempts
    BY DEF MirrorInv, TypeOK
  <2> QED
    BY <2>1, <2>2, BodyFacts, RowFacts DEF MirrorInv, TxOf, Txs
<1> HIDE DEF tx
<1>4. TxOK(tx)
  BY <1>1, <1>2, <1>3 DEF TxOK, Past
<1>5. /\ pool' \in Seq(Txs)
      /\ DOMAIN pool' = DOMAIN pool \union {Len(pool) + 1}
      /\ \A i \in DOMAIN pool : pool'[i] = pool[i] /\ i # Len(pool) + 1 /\ i < Len(pool) + 1
      /\ pool'[Len(pool) + 1] = tx
  BY <1>1, <1>3 DEF MirrorInv, TypeOK
<1> QED
  BY <1>2, <1>3, <1>4, <1>5 DEF tx

LEMMA SendTxStep ==
  ASSUME MirrorInv, NEW c \in Calls, SendTx(c)
  PROVE  MirrorInv'
<1>1. /\ step[c] = "sending" /\ step' = [step EXCEPT ![c] = "waiting"]
      /\ UNCHANGED <<body, target, local, attempt, logged, rows, minedSoFar, crashes, overlapped>>
  BY DEF SendTx
<1>2. /\ HandlersOK' /\ RowsOK'
      /\ \A tx \in Txs : TxOK(tx) => TxOK(tx)'
      /\ LedgerOK(chain, mined)' /\ BlocksOK'
  BY <1>1, RetryStep DEF Mirroring
<1>3. TypeOK'
  BY <1>1, SentTx DEF MirrorInv, TypeOK, Busy, Done, minedSoFar
<1>4. PoolOK'
  <2> SUFFICES ASSUME NEW i \in DOMAIN pool' PROVE TxOK(pool[i])'
    BY DEF PoolOK
  <2>1. PICK tx \in Txs : pool'[i] = tx /\ TxOK(tx)
    BY SentTx, PoolTypes DEF MirrorInv, ChainOK, PoolOK
  <2>2. TxOK(tx)'
    BY <1>2, <2>1
  <2> QED
    BY <2>1, <2>2 DEF TxOK
<1>5. LogOK'
  BY <1>1 DEF MirrorInv, TypeOK, LogOK, minedSoFar
<1> QED
  BY <1>2, <1>3, <1>4, <1>5 DEF MirrorInv, ChainOK

\* What an error does to the handler: it tries again, or it answers.
LEMMA ErrorMoves ==
  ASSUME MirrorInv, NEW c \in Calls, TransientError(c) \/ PermanentError(c)
  PROVE  /\ step[c] \in Mirroring
         /\ UNCHANGED <<body, target, local, rows, pool, minedSoFar, crashes, overlapped>>
         /\ \E s \in {"sending", "answered"}, a \in 0 .. MaxAttempts, l \in {"none", "failed"} :
              /\ step' = [step EXCEPT ![c] = s]
              /\ attempt' = [attempt EXCEPT ![c] = a]
              /\ logged' = [logged EXCEPT ![c] = l]
              /\ a = attempt[c] + 1 \/ (a = attempt[c] /\ s = "answered")
              /\ s = "sending" => a < MaxAttempts /\ l = "none"
<1>1. /\ step[c] \in Mirroring
      /\ UNCHANGED <<body, target, local, rows, pool, minedSoFar, crashes, overlapped>>
  BY DEF TransientError, PermanentError, ledger, Mirroring
<1>2. /\ attempt \in [Calls -> 0 .. MaxAttempts] /\ MaxAttempts \in Nat
      /\ logged \in [Calls -> {"none", "ok", "failed"}]
      /\ attempt[c] < MaxAttempts /\ logged[c] = "none"
  BY <1>1, AttemptsAssumption DEF MirrorInv, TypeOK, LogOK, Mirroring
<1>3. CASE TransientError(c) /\ attempt[c] + 1 < MaxAttempts
  <2>1. /\ step' = [step EXCEPT ![c] = "sending"] /\ attempt' = [attempt EXCEPT ![c] = attempt[c] + 1]
        /\ logged' = logged
    BY <1>3 DEF TransientError
  <2>2. logged' = [logged EXCEPT ![c] = "none"] /\ attempt[c] + 1 \in 0 .. MaxAttempts
    BY <1>2, <1>3, <2>1
  <2> QED
    BY <1>1, <1>3, <2>1, <2>2
<1>4. CASE TransientError(c) /\ ~(attempt[c] + 1 < MaxAttempts)
  <2>1. /\ step' = [step EXCEPT ![c] = "answered"] /\ attempt' = [attempt EXCEPT ![c] = attempt[c] + 1]
        /\ logged' = [logged EXCEPT ![c] = "failed"]
    BY <1>4 DEF TransientError, Swallow
  <2>2. attempt[c] + 1 \in 0 .. MaxAttempts
    BY <1>2
  <2> QED
    BY <1>1, <2>1, <2>2
<1>5. CASE PermanentError(c)
  <2>1. /\ step' = [step EXCEPT ![c] = "answered"] /\ attempt' = [attempt EXCEPT ![c] = attempt[c]]
        /\ logged' = [logged EXCEPT ![c] = "failed"] /\ attempt[c] \in 0 .. MaxAttempts
    BY <1>2, <1>5 DEF PermanentError, Swallow
  <2> QED
    BY <1>1, <2>1
<1> QED
  BY <1>3, <1>4, <1>5

LEMMA ErrorStep ==
  ASSUME MirrorInv, NEW c \in Calls, TransientError(c) \/ PermanentError(c)
  PROVE  MirrorInv'
<1>1. /\ step[c] \in Mirroring
      /\ UNCHANGED <<body, target, local, rows, pool, minedSoFar, crashes, overlapped>>
  BY ErrorMoves
<1>2. PICK s \in {"sending", "answered"}, a \in 0 .. MaxAttempts, l \in {"none", "failed"} :
        /\ step' = [step EXCEPT ![c] = s]
        /\ attempt' = [attempt EXCEPT ![c] = a]
        /\ logged' = [logged EXCEPT ![c] = l]
        /\ a = attempt[c] + 1 \/ (a = attempt[c] /\ s = "answered")
        /\ s = "sending" => a < MaxAttempts /\ l = "none"
  BY ErrorMoves
<1>3. /\ step \in [Calls -> {"idle"} \union Busy \union Done]
      /\ attempt \in [Calls -> 0 .. MaxAttempts]
      /\ logged \in [Calls -> {"none", "ok", "failed"}]
  BY DEF MirrorInv, TypeOK
<1>4. /\ HandlersOK' /\ RowsOK'
      /\ \A tx \in Txs : TxOK(tx) => TxOK(tx)'
      /\ LedgerOK(chain, mined)' /\ BlocksOK'
  BY <1>1, <1>2, RetryStep
<1>5. TypeOK'
  BY <1>1, <1>2, <1>3 DEF MirrorInv, TypeOK, Busy, Done, minedSoFar
<1>6. PoolOK'
  BY <1>1, <1>4, PoolTypes DEF MirrorInv, ChainOK, PoolOK, TxOK
<1>7. LogOK'
  BY <1>1, <1>2, <1>3 DEF MirrorInv, LogOK, minedSoFar
<1> QED
  BY <1>4, <1>5, <1>6, <1>7 DEF MirrorInv, ChainOK

LEMMA TxSettlesStep ==
  ASSUME MirrorInv, NEW c \in Calls, TxSettles(c)
  PROVE  MirrorInv'
<1>1. /\ step[c] = "waiting" /\ step[c] \in Mirroring
      /\ UNCHANGED <<body, target, local, attempt, rows, pool, minedSoFar, crashes, overlapped>>
  BY DEF TxSettles, ledger, Mirroring
<1>2. PICK receipt \in mined :
        /\ receipt.call = c /\ receipt.attempt = attempt[c]
        /\ step' = [step EXCEPT ![c] = "answered"]
        /\ logged' = [logged EXCEPT ![c] = IF receipt.ok THEN "ok" ELSE "failed"]
  BY DEF TxSettles
<1>3. /\ step \in [Calls -> {"idle"} \union Busy \union Done]
      /\ logged \in [Calls -> {"none", "ok", "failed"}]
  BY DEF MirrorInv, TypeOK
<1>4. /\ HandlersOK' /\ RowsOK'
      /\ \A tx \in Txs : TxOK(tx) => TxOK(tx)'
      /\ LedgerOK(chain, mined)' /\ BlocksOK'
  BY <1>1, <1>2, RetryStep
<1>5. TypeOK'
  BY <1>1, <1>2, <1>3 DEF MirrorInv, TypeOK, Busy, Done, minedSoFar
<1>6. PoolOK'
  BY <1>1, <1>4, PoolTypes DEF MirrorInv, ChainOK, PoolOK, TxOK
<1>7. LogOK'
  BY <1>1, <1>2, <1>3 DEF MirrorInv, LogOK, minedSoFar
<1> QED
  BY <1>4, <1>5, <1>6, <1>7 DEF MirrorInv, ChainOK

-----------------------------------------------------------------------------
(* The chain. *)

\* What a transaction does to the registry: entries are never lost and a
\* deactivated one is never active again.
LEMMA ContractFacts ==
  ASSUME NEW reg \in Registries,
         NEW tx \in Txs, Accepts(reg, tx)
  PROVE  /\ Execute(reg, tx) \in Registries
         /\ \A d \in Dids : reg[d].owned => Execute(reg, tx)[d].owned
         /\ \A d \in Dids : reg[d].owned /\ ~reg[d].active => ~Execute(reg, tx)[d].active
         /\ \A d \in Dids : d # tx.did => Execute(reg, tx)[d] = reg[d]
         /\ Execute(reg, tx)[tx.did].owned
         /\ tx.op = "register" => ~reg[tx.did].owned
         /\ tx.op = "deactivate" => reg[tx.did].active /\ ~Execute(reg, tx)[tx.did].active
                                    /\ Execute(reg, tx)[tx.did].key = reg[tx.did].key
         /\ tx.op # "deactivate" => Execute(reg, tx)[tx.did].key = tx.key
<1> DEFINE Agents == [owned : BOOLEAN, key : BodyKeys \union {NoKey}, active : BOOLEAN]
<1>1. tx.did \in Dids /\ tx.key \in BodyKeys /\ tx.op \in {"register", "update", "deactivate"}
  BY DEF Txs
<1>2. reg[tx.did] \in Agents
  BY <1>1 DEF Registries
<1>3. PICK a \in Agents :
        /\ Execute(reg, tx) = [reg EXCEPT ![tx.did] = a]
        /\ a.owned
        /\ tx.op = "register" => ~reg[tx.did].owned
        /\ tx.op = "deactivate" => reg[tx.did].active /\ ~a.active /\ a.key = reg[tx.did].key
        /\ tx.op # "deactivate" => a.key = tx.key
        /\ tx.op = "update" => reg[tx.did].active
  <2>1. CASE tx.op = "register"
    <3>1. [owned |-> TRUE, key |-> tx.key, active |-> TRUE] \in Agents
      BY <1>1
    <3> QED
      BY <2>1, <3>1 DEF Accepts, Execute
  <2>2. CASE tx.op = "update"
    <3>1. [reg[tx.did] EXCEPT !.key = tx.key] \in Agents
      BY <1>1, <1>2
    <3> QED
      BY <1>2, <2>2, <3>1 DEF Accepts, Execute
  <2>3. CASE tx.op = "deactivate"
    <3>1. [reg[tx.did] EXCEPT !.active = FALSE] \in Agents
      BY <1>1, <1>2
    <3> QED
      BY <1>2, <2>3, <3>1 DEF Accepts, Execute
  <2> QED
    BY <1>1, <2>1, <2>2, <2>3
<1> HIDE DEF Agents
<1>4. reg \in [Dids -> Agents]
  BY DEF Agents, Registries
<1>5. Execute(reg, tx) \in [Dids -> Agents] /\ Execute(reg, tx)[tx.did] = a
      /\ \A d \in Dids : d # tx.did => Execute(reg, tx)[d] = reg[d]
  BY <1>1, <1>3, <1>4
<1> QED
  BY <1>1, <1>3, <1>5 DEF Agents, Registries

LEMMA MinedFacts ==
  ASSUME TypeOK, NEW tx \in Txs, NEW ok, ok = Accepts(chain, tx),
         chain' = IF ok THEN Execute(chain, tx) ELSE chain
  PROVE  /\ chain' \in Registries /\ ok \in BOOLEAN
         /\ \A d \in Dids : chain[d].owned => chain'[d].owned
         /\ \A d \in Dids : chain[d].owned /\ ~chain[d].active => ~chain'[d].active
         /\ \A d \in Dids : d # tx.did => chain'[d] = chain[d]
         /\ ok => chain'[tx.did].owned
         /\ ok /\ tx.op = "register" => ~chain[tx.did].owned
         /\ ok /\ tx.op = "deactivate" => chain[tx.did].active /\ ~chain'[tx.did].active
         /\ ~ok => chain' = chain
         /\ ok /\ tx.op # "deactivate" => chain'[tx.did].key = tx.key
         /\ tx.op = "deactivate" => chain'[tx.did].key = chain[tx.did].key
<1>1. chain \in Registries /\ ok \in BOOLEAN
  <2>1. tx.did \in Dids /\ tx.op \in {"register", "update", "deactivate"} /\ chain \in Registries
    BY DEF Txs, TypeOK
  <2>2. chain[tx.did].owned \in BOOLEAN /\ chain[tx.did].active \in BOOLEAN
    BY <2>1 DEF Registries
  <2> QED
    BY <2>1, <2>2 DEF Accepts
<1>2. CASE ok
  <2>1. Accepts(chain, tx) /\ chain' = Execute(chain, tx)
    BY <1>2
  <2> QED
    BY <1>1, <1>2, <2>1, ContractFacts
<1>3. CASE ~ok
  <2>1. chain' = chain
    BY <1>3
  <2> QED
    BY <1>1, <1>3, <2>1
<1> QED
  BY <1>2, <1>3

\* The receipt of a mined transaction.
ReceiptOf(tx, ok) == [call |-> tx.call, attempt |-> tx.attempt, ok |-> ok]

\* What Mine does, with the executed transaction and its outcome.
LEMMA MineMoves ==
  ASSUME MirrorInv, Mine
  PROVE  \E tx \in Txs, ok \in BOOLEAN :
           /\ 1 \in DOMAIN pool /\ tx = pool[1] /\ TxOK(tx) /\ ok = Accepts(chain, tx)
           /\ pool' \in Seq(Txs)
           /\ \A i \in DOMAIN pool' : /\ i + 1 \in DOMAIN pool /\ pool'[i] = pool[i + 1]
                                      /\ 1 < i + 1 /\ i \in Int
           /\ chain' = IF ok THEN Execute(chain, tx) ELSE chain
           /\ mined' = mined \union {ReceiptOf(tx, ok)} /\ ReceiptOf(tx, ok) \in Receipts
           /\ blocks' = Recent(Append(blocks, [tx |-> tx, chain |-> chain, mined |-> mined]))
           /\ UNCHANGED <<step, body, target, local, attempt, logged, rows, reorgs, undone,
                          crashes, overlapped>>
<1> DEFINE tx == Head(pool)
           ok == Accepts(chain, tx)
<1>1. /\ pool # <<>> /\ pool' = Tail(pool)
      /\ chain' = IF ok THEN Execute(chain, tx) ELSE chain
      /\ mined' = mined \union {ReceiptOf(tx, ok)}
      /\ blocks' = Recent(Append(blocks, [tx |-> tx, chain |-> chain, mined |-> mined]))
      /\ UNCHANGED <<step, body, target, local, attempt, logged, rows, reorgs, undone,
                     crashes, overlapped>>
  BY DEF Mine, calls, ReceiptOf
<1>2. /\ pool \in Seq(Txs) /\ 1 \in DOMAIN pool /\ tx = pool[1] /\ tx \in Txs
      /\ pool' \in Seq(Txs)
      /\ \A i \in DOMAIN pool' : i + 1 \in DOMAIN pool /\ pool'[i] = pool[i + 1] /\ 1 < i + 1
                                 /\ i \in Int
  BY <1>1 DEF MirrorInv, TypeOK
<1>3. ok \in BOOLEAN
  <2>1. tx.did \in Dids /\ tx.op \in {"register", "update", "deactivate"} /\ chain \in Registries
    BY <1>2 DEF Txs, MirrorInv, TypeOK
  <2>2. chain[tx.did].owned \in BOOLEAN /\ chain[tx.did].active \in BOOLEAN
    BY <2>1 DEF Registries
  <2> QED
    BY <2>1, <2>2 DEF Accepts
<1>4. TxOK(tx)
  BY <1>2 DEF MirrorInv, ChainOK, PoolOK
<1> HIDE DEF tx, ok
<1>5. ReceiptOf(tx, ok) \in Receipts
  BY <1>2, <1>3 DEF ReceiptOf, Receipts, Txs
<1>6. ok = Accepts(chain, tx)
  BY DEF ok
<1> QED
  BY <1>1, <1>2, <1>3, <1>4, <1>5, <1>6

\* The recorded blocks are those recorded before and the new one.
LEMMA RecentBlocks ==
  ASSUME TypeOK, NEW b \in [tx : Txs, chain : Registries, mined : SUBSET Receipts],
         blocks' = Recent(Append(blocks, b))
  PROVE  /\ blocks' \in Seq([tx : Txs, chain : Registries, mined : SUBSET Receipts])
         /\ \A i \in DOMAIN blocks' : blocks'[i] = b \/ \E j \in DOMAIN blocks : blocks'[i] = blocks[j]
<1> DEFINE B == [tx : Txs, chain : Registries, mined : SUBSET Receipts]
<1>1. blocks \in Seq(B) /\ b \in B
  BY DEF TypeOK
<1> HIDE DEF B
<1> DEFINE all == Append(blocks, b)
<1>2. /\ all \in Seq(B) /\ all # <<>>
      /\ \A i \in DOMAIN all : all[i] = b \/ \E j \in DOMAIN blocks : all[i] = blocks[j]
  BY <1>1
<1> HIDE DEF all
<1>3. CASE blocks' = all
  BY <1>2, <1>3 DEF B
<1>4. CASE blocks' = Tail(all)
  <2>1. Tail(all) \in Seq(B) /\ \A i \in DOMAIN Tail(all) : i + 1 \in DOMAIN all /\ Tail(all)[i] = all[i + 1]
    BY <1>2
  <2> QED
    BY <1>2, <1>4, <2>1 DEF B
<1> QED
  BY <1>3, <1>4 DEF all, Recent

LEMMA MineStep ==
  ASSUME MirrorInv, Mine
  PROVE  MirrorInv'
<1>1. PICK tx \in Txs, ok \in BOOLEAN :
           /\ 1 \in DOMAIN pool /\ tx = pool[1] /\ TxOK(tx) /\ ok = Accepts(chain, tx)
           /\ pool' \in Seq(Txs)
           /\ \A i \in DOMAIN pool' : /\ i + 1 \in DOMAIN pool /\ pool'[i] = pool[i + 1]
                                      /\ 1 < i + 1 /\ i \in Int
           /\ chain' = IF ok THEN Execute(chain, tx) ELSE chain
           /\ mined' = mined \union {ReceiptOf(tx, ok)} /\ ReceiptOf(tx, ok) \in Receipts
           /\ blocks' = Recent(Append(blocks, [tx |-> tx, chain |-> chain, mined |-> mined]))
           /\ UNCHANGED <<step, body, target, local, attempt, logged, rows, reorgs, undone,
                          crashes, overlapped>>
  BY MineMoves
<1> DEFINE r0 == ReceiptOf(tx, ok)
           b0 == [tx |-> tx, chain |-> chain, mined |-> mined]
<1>2. r0.call = tx.call /\ r0.ok = ok /\ tx.call \in Calls /\ tx.did \in Dids
  BY PoolTypes DEF MirrorInv, ReceiptOf
<1>3. b0 \in [tx : Txs, chain : Registries, mined : SUBSET Receipts]
      /\ b0.tx = tx /\ b0.chain = chain /\ b0.mined = mined
  BY PoolTypes DEF MirrorInv
<1>4. mined' = mined \union {r0} /\ r0 \in Receipts /\ blocks' = Recent(Append(blocks, b0))
  BY <1>1
<1> HIDE DEF r0, b0
<1>5. /\ chain' \in Registries
      /\ \A d \in Dids : chain[d].owned => chain'[d].owned
      /\ \A d \in Dids : chain[d].owned /\ ~chain[d].active => ~chain'[d].active
      /\ \A d \in Dids : d # tx.did => chain'[d] = chain[d]
      /\ ok => chain'[tx.did].owned
      /\ ok /\ tx.op = "register" => ~chain[tx.did].owned
      /\ ok /\ tx.op = "deactivate" => chain[tx.did].active /\ ~chain'[tx.did].active
  BY <1>1, MinedFacts DEF MirrorInv
<1>6. /\ blocks' \in Seq([tx : Txs, chain : Registries, mined : SUBSET Receipts])
      /\ \A i \in DOMAIN blocks' : blocks'[i] = b0 \/ \E j \in DOMAIN blocks : blocks'[i] = blocks[j]
  BY <1>3, <1>4, RecentBlocks DEF MirrorInv
<1>7. TypeOK'
  BY <1>1, <1>4, <1>5, <1>6 DEF MirrorInv, TypeOK
<1>8. HandlersOK' /\ RowsOK'
  BY <1>1 DEF MirrorInv, HandlersOK, RowsOK, Taken
<1>9. LogOK'
  BY <1>1, <1>4 DEF MirrorInv, LogOK
<1>10. /\ \A q \in Txs : TxOK(q) => TxOK(q)'
       /\ \A registry, receipts : LedgerOK(registry, receipts) => LedgerOK(registry, receipts)'
  BY <1>1 DEF TxOK, LedgerOK, Taken
<1>11. PoolOK'
  BY <1>1, <1>10, PoolTypes DEF MirrorInv, ChainOK, PoolOK, TxOK
<1>12. BlocksOK'
  <2>1. \A i \in DOMAIN blocks' :
           \E q \in Txs, registry \in Registries, receipts \in SUBSET Receipts :
             /\ TxOK(q) /\ LedgerOK(registry, receipts)
             /\ blocks'[i].tx = q /\ blocks'[i].chain = registry /\ blocks'[i].mined = receipts
    BY <1>1, <1>3, <1>6, PoolTypes DEF MirrorInv, ChainOK, BlocksOK
  <2> QED
    BY <1>10, <2>1, BlocksKept
<1>13. LedgerOK(chain, mined)'
  <2>1. LedgerOK(chain, mined)
    BY DEF MirrorInv, ChainOK
  <2>2. \A d \in Dids : chain'[d].owned => Taken(d)'
    <3>1. \A d \in Dids : chain[d].owned => Taken(d)
      BY <2>1 DEF LedgerOK
    <3> QED
      BY <1>1, <1>5, <3>1 DEF TxOK, Taken
  <2>3. \A r \in mined' : local'[r.call].did \in Dids /\ step'[r.call] \in Past
    BY <1>1, <1>2, <1>4, <2>1 DEF LedgerOK, TxOK
  <2>4. ASSUME NEW r \in mined', r.ok, body[r.call].op \in {"register", "deactivate"}
        PROVE  /\ chain'[local[r.call].did].owned
               /\ body[r.call].op = "deactivate" => ~chain'[local[r.call].did].active
               /\ \A q \in mined' : q.call = r.call /\ q.ok => q = r
    <3>1. CASE r = r0
      <4>1. ok /\ tx.op = body[r.call].op /\ tx.did = local[r.call].did
        BY <1>1, <1>2, <2>4, <3>1 DEF TxOK
      <4>2. \A q \in mined : q.call = tx.call => ~q.ok
        BY <1>2, <1>5, <2>1, <2>4, <3>1, <4>1 DEF LedgerOK
      <4> QED
        BY <1>2, <1>4, <1>5, <2>4, <3>1, <4>1, <4>2
    <3>2. CASE r \in mined
      <4>1. /\ chain[local[r.call].did].owned /\ local[r.call].did \in Dids
            /\ body[r.call].op = "deactivate" => ~chain[local[r.call].did].active
            /\ \A q \in mined : q.call = r.call /\ q.ok => q = r
        BY <2>1, <2>4, <3>2 DEF LedgerOK
      <4>2. r.call = tx.call => ~ok
        BY <1>1, <1>5, <2>4, <4>1 DEF TxOK
      <4> QED
        BY <1>2, <1>4, <1>5, <4>1, <4>2
    <3> QED
      BY <1>4, <3>1, <3>2
  <2> QED
    BY <1>1, <2>2, <2>3, <2>4 DEF LedgerOK
<1> QED
  BY <1>7, <1>8, <1>9, <1>11, <1>12, <1>13 DEF MirrorInv, ChainOK

\* The transactions that are not mined any more were those of the pool or of a
\* recorded block.
LEMMA UnminedFacts ==
  ASSUME TypeOK, NEW n \in DOMAIN blocks
  PROVE  /\ Unmined(n) \in Seq(Txs)
         /\ \A i \in DOMAIN Unmined(n) : \/ \E j \in DOMAIN blocks : Unmined(n)[i] = blocks[j].tx
                                         \/ \E j \in DOMAIN pool : Unmined(n)[i] = pool[j]
<1> DEFINE B == [tx : Txs, chain : Registries, mined : SUBSET Receipts]
           m == Len(blocks) - n + 1
           back == [i \in 1 .. m |-> blocks[n + i - 1].tx]
<1>1. blocks \in Seq(B) /\ pool \in Seq(Txs) /\ n \in 1 .. Len(blocks)
  BY DEF TypeOK
<1>2. m \in Nat /\ \A i \in 1 .. m : n + i - 1 \in DOMAIN blocks
  BY <1>1
<1>3. \A i \in DOMAIN blocks : blocks[i].tx \in Txs
  BY PoolTypes
<1>4. back \in Seq(Txs) /\ Len(back) = m
  <2>1. \A i \in 1 .. m : blocks[n + i - 1].tx \in Txs
    BY <1>2, <1>3
  <2>2. back = [i \in 1 .. m |-> blocks[n + i - 1].tx]
    OBVIOUS
  <2> HIDE DEF m, back
  <2>3. back \in [1 .. m -> Txs]
    BY <2>1, <2>2
  <2> QED
    BY <1>2, <2>3
<1>5. \A i \in 1 .. m : \E j \in DOMAIN blocks : back[i] = blocks[j].tx
  BY <1>2
<1>6. Unmined(n) = back \o pool
  BY DEF Unmined
<1> HIDE DEF back, m, B
<1>7. /\ back \o pool \in Seq(Txs) /\ Len(back \o pool) = m + Len(pool)
      /\ \A i \in 1 .. m + Len(pool) :
           (back \o pool)[i] = IF i <= m THEN back[i] ELSE pool[i - m]
  BY <1>1, <1>4, ConcatProperties
<1>8. \A i \in DOMAIN (back \o pool) : \/ \E j \in DOMAIN blocks : (back \o pool)[i] = blocks[j].tx
                                       \/ \E j \in DOMAIN pool : (back \o pool)[i] = pool[j]
  <2> SUFFICES ASSUME NEW i \in 1 .. m + Len(pool)
               PROVE  \/ \E j \in DOMAIN blocks : (back \o pool)[i] = blocks[j].tx
                      \/ \E j \in DOMAIN pool : (back \o pool)[i] = pool[j]
    BY <1>7
  <2>1. CASE i <= m
    BY <1>2, <1>5, <1>7, <2>1
  <2>2. CASE ~(i <= m)
    BY <1>1, <1>2, <1>7, <2>2
  <2> QED
    BY <2>1, <2>2
<1> QED
  BY <1>6, <1>7, <1>8

LEMMA ReorgStep ==
  ASSUME MirrorInv, Reorg
  PROVE  MirrorInv'
<1> DEFINE B == [tx : Txs, chain : Registries, mined : SUBSET Receipts]
<1>1. PICK n \in DOMAIN blocks :
        /\ chain' = blocks[n].chain /\ mined' = blocks[n].mined
        /\ blocks' = SubSeq(blocks, 1, n - 1)
        /\ \E k \in 0 .. Len(Unmined(n)) : pool' = SubSeq(Unmined(n), 1, k)
        /\ undone' = undone \union {r.call : r \in {q \in mined \ blocks[n].mined : q.ok}}
  BY DEF Reorg
<1>2. /\ reorgs < MaxReorgs /\ reorgs' = reorgs + 1
      /\ UNCHANGED <<step, body, target, local, attempt, logged, rows, crashes, overlapped>>
  BY DEF Reorg, calls
<1>3. /\ blocks[n].chain \in Registries /\ blocks[n].mined \subseteq Receipts
      /\ LedgerOK(blocks[n].chain, blocks[n].mined)
  BY PoolTypes DEF MirrorInv, ChainOK, BlocksOK
<1>4. /\ blocks' \in Seq(B)
      /\ \A i \in DOMAIN blocks' : i \in DOMAIN blocks /\ blocks'[i] = blocks[i]
  <2>1. blocks \in Seq(B) /\ n \in 1 .. Len(blocks)
    BY DEF MirrorInv, TypeOK
  <2> HIDE DEF B
  <2> QED
    BY <1>1, <2>1, SubSeqProperties
<1>5. /\ pool' \in Seq(Txs)
      /\ \A i \in DOMAIN pool' : i \in DOMAIN Unmined(n) /\ pool'[i] = Unmined(n)[i]
  <2>1. Unmined(n) \in Seq(Txs)
    BY UnminedFacts DEF MirrorInv
  <2> QED
    BY <1>1, <2>1, SubSeqProperties
<1>6. TypeOK'
  <2>1. undone' \subseteq Calls
    BY <1>1, PoolTypes DEF MirrorInv, TypeOK
  <2>2. reorgs' \in 0 .. MaxReorgs
    BY <1>2, AttemptsAssumption DEF MirrorInv, TypeOK
  <2> QED
    BY <1>1, <1>2, <1>3, <1>4, <1>5, <2>1, <2>2 DEF MirrorInv, TypeOK
<1>7. HandlersOK' /\ RowsOK'
  BY <1>2 DEF MirrorInv, HandlersOK, RowsOK, Taken
<1>8. /\ \A q \in Txs : TxOK(q) => TxOK(q)'
      /\ \A registry, receipts : LedgerOK(registry, receipts) => LedgerOK(registry, receipts)'
  BY <1>2 DEF TxOK, LedgerOK, Taken
<1>9. PoolOK'
  <2> SUFFICES ASSUME NEW i \in DOMAIN pool' PROVE TxOK(pool[i])'
    BY DEF PoolOK
  <2>1. PICK tx \in Txs : pool'[i] = tx /\ TxOK(tx)
    BY <1>5, UnminedFacts, PoolTypes DEF MirrorInv, ChainOK, PoolOK, BlocksOK
  <2>2. TxOK(tx)'
    BY <1>8, <2>1
  <2> QED
    BY <2>1, <2>2 DEF TxOK
<1>10. LedgerOK(chain, mined)'
  <2>1. PICK registry \in Registries, receipts \in SUBSET Receipts :
          chain' = registry /\ mined' = receipts /\ LedgerOK(registry, receipts)
    BY <1>1, <1>3
  <2>2. LedgerOK(registry, receipts)'
    BY <1>8, <2>1
  <2> QED
    BY <2>1, <2>2 DEF LedgerOK
<1>11. BlocksOK'
  <2>1. \A i \in DOMAIN blocks' :
           \E q \in Txs, registry \in Registries, receipts \in SUBSET Receipts :
             /\ TxOK(q) /\ LedgerOK(registry, receipts)
             /\ blocks'[i].tx = q /\ blocks'[i].chain = registry /\ blocks'[i].mined = receipts
    BY <1>4, PoolTypes DEF MirrorInv, ChainOK, BlocksOK
  <2> QED
    BY <1>8, <2>1, BlocksKept
<1>12. LogOK'
  <2>1. ASSUME NEW c \in Calls, logged[c] = "ok", c \notin undone'
        PROVE  \E r \in mined' : r.call = c /\ r.ok
    <3>1. PICK r \in mined : r.call = c /\ r.ok
      BY <1>1, <2>1 DEF MirrorInv, LogOK
    <3>2. r \in blocks[n].mined
      BY <1>1, <2>1, <3>1
    <3> QED
      BY <1>1, <3>1, <3>2
  <2> QED
    BY <1>2, <2>1 DEF MirrorInv, LogOK
<1> QED
  BY <1>6, <1>7, <1>9, <1>10, <1>11, <1>12 DEF MirrorInv, ChainOK

\* What a restart does to the handlers.
LEMMA CrashMoves ==
  ASSUME MirrorInv, Crash
  PROVE  /\ UNCHANGED <<body, target, local, attempt, logged, rows, ledger, overlapped>>
         /\ step' = [c \in Calls |-> IF step[c] \in Busy THEN "crashed" ELSE step[c]]
         /\ crashes' \in 0 .. MaxCrashes
         /\ \A c \in Calls : \/ step'[c] = step[c]
                             \/ step[c] \in Busy /\ step'[c] = "crashed"
BY AttemptsAssumption DEF Crash, MirrorInv, TypeOK

LEMMA CrashStep ==
  ASSUME MirrorInv, Crash
  PROVE  MirrorInv'
<1>1. TypeOK'
  BY CrashMoves DEF MirrorInv, TypeOK, Busy, Done, ledger, minedSoFar
<1>2. HandlersOK' /\ RowsOK'
  BY CrashMoves DEF MirrorInv, HandlersOK, RowsOK, Mirroring, Taken
<1>3. ChainOK'
  <2>1. \A c \in Calls : step[c] \in Past => step'[c] \in Past
    BY CrashMoves DEF Past
  <2>2. \A d \in Dids : Taken(d) => Taken(d)'
    BY CrashMoves DEF Taken
  <2> QED
    BY <2>1, <2>2, CrashMoves, ChainKept DEF MirrorInv
<1>4. LogOK'
  BY CrashMoves DEF MirrorInv, LogOK, Busy, ledger, minedSoFar
<1> QED
  BY <1>1, <1>2, <1>3, <1>4 DEF MirrorInv

LEMMA MirrorStep == MirrorInv /\ [Next]_vars => MirrorInv'
<1> SUFFICES ASSUME MirrorInv, [Next]_vars PROVE MirrorInv'
  OBVIOUS
<1>1. CASE UNCHANGED vars
  <2>1. TypeOK' /\ HandlersOK' /\ RowsOK' /\ LogOK'
    BY <1>1 DEF vars, MirrorInv, TypeOK, HandlersOK, RowsOK, LogOK, Taken
  <2>2. ChainOK'
    BY <1>1, ChainKept DEF vars, ledger, minedSoFar, MirrorInv, Taken
  <2> QED
    BY <2>1, <2>2 DEF MirrorInv
<1>2. ASSUME NEW c \in Calls, Handle(c) PROVE MirrorInv'
  BY <1>2, CheckDidStep, LoadAgentStep, DatabaseStep, SendTxStep, ErrorStep, TxSettlesStep DEF Handle
<1> QED
  BY <1>1, <1>2, BeginStep, MineStep, ReorgStep, CrashStep DEF Next

\* The inductive invariant of the calls, their transactions, their receipts and
\* the blocks, also when calls overlap, statements fail, the process restarts and
\* the chain reorganises.
THEOREM MirrorInvariant == Spec => []MirrorInv
BY IdentityInit, MirrorStep, PTL DEF Spec

\* The unique column and the order "table, then chain" in register, update and
\* deactivate: no two rows for one DID, and no agent on the chain without a row.
THEOREM TableLeads == Spec => []TableLeadsChain
<1>1. MirrorInv => TableLeadsChain
  BY DEF MirrorInv, RowsOK, ChainOK, LedgerOK, Taken, TableLeadsChain
<1> QED
  BY <1>1, MirrorInvariant, PTL

\* A registration or deactivation takes effect once, however often withRetry sends
\* it; and one logged as done is there unless a reorganisation took it back.
THEOREM LogIsTrue == Spec => []LogMatchesChain
<1>1. ASSUME MirrorInv, NEW c \in Calls, body[c].op \in {"register", "deactivate"}
      PROVE  /\ Cardinality({r \in mined : r.call = c /\ r.ok}) <= 1
             /\ logged[c] = "ok" /\ c \notin undone =>
                  /\ chain[local[c].did].owned
                  /\ body[c].op = "deactivate" => ~chain[local[c].did].active
  <2> DEFINE effects == {r \in mined : r.call = c /\ r.ok}
  <2>1. LedgerOK(chain, mined)
    BY <1>1 DEF MirrorInv, ChainOK
  <2>2. Cardinality(effects) <= 1
    <3>1. CASE effects = {}
      BY <3>1, FS_EmptySet
    <3>2. CASE effects # {}
      <4>1. PICK r \in effects : TRUE
        BY <3>2
      <4>2. effects = {r}
        BY <1>1, <2>1, <4>1 DEF LedgerOK
      <4>3. Cardinality({r}) = 1
        BY FS_Singleton
      <4> QED
        BY <4>2, <4>3
    <3> QED
      BY <3>1, <3>2
  <2>3. logged[c] = "ok" /\ c \notin undone =>
          /\ chain[local[c].did].owned
          /\ body[c].op = "deactivate" => ~chain[local[c].did].active
    BY <1>1, <2>1 DEF MirrorInv, LogOK, LedgerOK
  <2> QED
    BY <2>2, <2>3
<1>2. MirrorInv => LogMatchesChain
  BY <1>1 DEF LogMatchesChain
<1> QED
  BY <1>2, MirrorInvariant, PTL

-----------------------------------------------------------------------------
(* The order of the attempts. *)

\* A step that sends nothing and mines nothing.
LEMMA AttemptsKept ==
  ASSUME MirrorInv, AttemptsOK, UNCHANGED <<pool, mined, reorgs, attempt>>,
         \A d \in Calls : step'[d] = "sending" => step[d] = "sending" \/ step[d] \notin Past
  PROVE  AttemptsOK'
<1>1. /\ \A i \in DOMAIN pool : pool[i].call \in Calls /\ step[pool[i].call] \in Past
      /\ \A r \in mined : r.call \in Calls /\ step[r.call] \in Past
  BY PoolTypes DEF MirrorInv, ChainOK, PoolOK, TxOK, LedgerOK
<1> QED
  BY <1>1 DEF AttemptsOK, Sent

LEMMA AttemptsSend ==
  ASSUME MirrorInv, AttemptsOK, NEW c \in Calls, SendTx(c)
  PROVE  AttemptsOK'
<1> SUFFICES ASSUME reorgs = 0 PROVE AttemptsOK'
  BY DEF SendTx, minedSoFar, AttemptsOK
<1>1. /\ step[c] = "sending" /\ step'[c] = "waiting" /\ \A d \in Calls : d # c => step'[d] = step[d]
      /\ UNCHANGED <<attempt, mined, reorgs>> /\ attempt[c] \in Nat
  BY AttemptsAssumption DEF SendTx, minedSoFar, MirrorInv, TypeOK
<1>2. /\ \A i \in DOMAIN pool : pool[i].call = c => pool[i].attempt < attempt[c]
      /\ \A r \in mined : r.call = c => r.attempt < attempt[c]
  BY <1>1 DEF AttemptsOK, Sent
<1>3. \A d \in Calls, a \in Nat : Sent(d, a) => Sent(d, a)'
  BY <1>1 DEF Sent
<1>4. Sent(c, attempt[c])'
  BY <1>1 DEF Sent
<1>5. \A i \in DOMAIN pool' : Sent(pool[i].call, pool[i].attempt)'
  <2> SUFFICES ASSUME NEW i \in DOMAIN pool' PROVE Sent(pool[i].call, pool[i].attempt)'
    OBVIOUS
  <2>1. CASE i \in DOMAIN pool
    <3>1. /\ pool'[i] = pool[i] /\ pool[i].call \in Calls /\ pool[i].attempt \in Nat
          /\ Sent(pool[i].call, pool[i].attempt)
      BY <2>1, SentTx, PoolTypes DEF AttemptsOK, MirrorInv
    <3>2. PICK d \in Calls, a \in Nat : d = pool[i].call /\ a = pool[i].attempt
      BY <3>1
    <3>3. Sent(d, a)'
      BY <1>3, <3>1, <3>2
    <3> QED
      BY <3>1, <3>2, <3>3 DEF Sent
  <2>2. CASE i = Len(pool) + 1
    BY <1>1, <1>4, <2>2, SentTx DEF Sent
  <2> QED
    BY <2>1, <2>2, SentTx
<1>6. \A r \in mined' : Sent(r.call, r.attempt)'
  <2> SUFFICES ASSUME NEW r \in mined PROVE Sent(r.call, r.attempt)'
    BY <1>1 DEF Sent
  <2>1. r.call \in Calls /\ r.attempt \in Nat /\ Sent(r.call, r.attempt)
    BY PoolTypes DEF AttemptsOK, MirrorInv
  <2> QED
    BY <1>3, <2>1 DEF Sent
<1>7. \A i, j \in DOMAIN pool' : i < j /\ pool'[j].call = pool'[i].call =>
                                   pool'[i].attempt < pool'[j].attempt
  <2> SUFFICES ASSUME NEW i \in DOMAIN pool', NEW j \in DOMAIN pool', i < j,
                      pool'[j].call = pool'[i].call
               PROVE  pool'[i].attempt < pool'[j].attempt
    OBVIOUS
  <2>1. CASE i \in DOMAIN pool /\ j \in DOMAIN pool
    BY <2>1, SentTx DEF AttemptsOK
  <2>2. CASE i \in DOMAIN pool /\ j = Len(pool) + 1
    BY <1>2, <2>2, SentTx
  <2>3. CASE i = Len(pool) + 1
    <3>1. j \in DOMAIN pool => j < Len(pool) + 1
      BY SentTx
    <3>2. pool \in Seq(Txs)
      BY DEF MirrorInv, TypeOK
    <3> QED
      BY <2>3, <3>1, <3>2, SentTx
  <2> QED
    BY <2>1, <2>2, <2>3, SentTx
<1>8. \A r \in mined' : \A i \in DOMAIN pool' : pool'[i].call = r.call => r.attempt < pool'[i].attempt
  BY <1>1, <1>2, SentTx DEF AttemptsOK
<1> QED
  BY <1>5, <1>6, <1>7, <1>8 DEF AttemptsOK

LEMMA AttemptsError ==
  ASSUME MirrorInv, AttemptsOK, NEW c \in Calls, TransientError(c) \/ PermanentError(c)
  PROVE  AttemptsOK'
<1>1. UNCHANGED <<pool, mined, reorgs>>
  BY ErrorMoves DEF minedSoFar
<1>2. PICK s \in {"sending", "answered"}, a \in 0 .. MaxAttempts :
        /\ step' = [step EXCEPT ![c] = s]
        /\ attempt' = [attempt EXCEPT ![c] = a]
        /\ a = attempt[c] + 1 \/ (a = attempt[c] /\ s = "answered")
  BY ErrorMoves
<1>3. /\ step'[c] = s /\ attempt'[c] = a /\ attempt[c] \in Nat
      /\ \A d \in Calls : d # c => step'[d] = step[d] /\ attempt'[d] = attempt[d]
  BY <1>2, AttemptsAssumption DEF MirrorInv, TypeOK
<1>4. \A d \in Calls, b \in Nat : Sent(d, b) => Sent(d, b)'
  BY <1>2, <1>3 DEF Sent
<1>5. /\ \A i \in DOMAIN pool : pool[i].call \in Calls /\ pool[i].attempt \in Nat
      /\ \A r \in mined : r.call \in Calls /\ r.attempt \in Nat
  BY PoolTypes DEF MirrorInv
<1> QED
  BY <1>1, <1>4, <1>5 DEF AttemptsOK, Sent

LEMMA AttemptsMine ==
  ASSUME MirrorInv, AttemptsOK, Mine
  PROVE  AttemptsOK'
<1>1. PICK tx \in Txs, ok \in BOOLEAN :
        /\ 1 \in DOMAIN pool /\ tx = pool[1]
        /\ \A i \in DOMAIN pool' : /\ i + 1 \in DOMAIN pool /\ pool'[i] = pool[i + 1]
                                   /\ 1 < i + 1 /\ i \in Int
        /\ mined' = mined \union {ReceiptOf(tx, ok)}
        /\ UNCHANGED <<step, attempt, reorgs>>
  BY MineMoves
<1> SUFFICES ASSUME reorgs = 0 PROVE AttemptsOK'
  BY <1>1 DEF AttemptsOK
<1> DEFINE r0 == ReceiptOf(tx, ok)
<1>2. r0.call = tx.call /\ r0.attempt = tx.attempt
  BY DEF ReceiptOf
<1>3. mined' = mined \union {r0}
  BY <1>1
<1> HIDE DEF r0
<1>4. \A i \in DOMAIN pool' : Sent(pool[i].call, pool[i].attempt)'
  BY <1>1 DEF AttemptsOK, Sent
<1>5. \A r \in mined' : Sent(r.call, r.attempt)'
  BY <1>1, <1>2, <1>3 DEF AttemptsOK, Sent
<1>6. \A i, j \in DOMAIN pool' : i < j /\ pool'[j].call = pool'[i].call =>
                                   pool'[i].attempt < pool'[j].attempt
  <2> SUFFICES ASSUME NEW i \in DOMAIN pool', NEW j \in DOMAIN pool', i < j,
                      pool'[j].call = pool'[i].call
               PROVE  pool'[i].attempt < pool'[j].attempt
    OBVIOUS
  <2>1. i + 1 < j + 1
    BY <1>1
  <2> QED
    BY <1>1, <2>1 DEF AttemptsOK
<1>7. \A r \in mined' : \A i \in DOMAIN pool' : pool'[i].call = r.call => r.attempt < pool'[i].attempt
  BY <1>1, <1>2, <1>3 DEF AttemptsOK
<1> QED
  BY <1>4, <1>5, <1>6, <1>7 DEF AttemptsOK

LEMMA AttemptsStep == MirrorInv /\ AttemptsOK /\ [Next]_vars => AttemptsOK'
<1> SUFFICES ASSUME MirrorInv, AttemptsOK, [Next]_vars PROVE AttemptsOK'
  OBVIOUS
<1>1. ASSUME NEW c \in Calls,
             CheckDid(c) \/ LoadAgent(c) \/ Insert(c) \/ SaveCopy(c) \/ DatabaseError(c)
      PROVE  AttemptsOK'
  <2>1. UNCHANGED <<pool, mined, reorgs, attempt>> /\ step[c] \in {"checking", "loading", "saving"}
    BY <1>1 DEF CheckDid, LoadAgent, Insert, SaveCopy, DatabaseError, Leave, ledger, minedSoFar
  <2>2. \A d \in Calls : d # c => step'[d] = step[d]
    BY <1>1 DEF CheckDid, LoadAgent, Insert, SaveCopy, DatabaseError, Leave, MirrorInv, TypeOK
  <2> QED
    BY <2>1, <2>2, AttemptsKept DEF Past
<1>2. ASSUME NEW c \in Calls, TxSettles(c) PROVE AttemptsOK'
  BY <1>2, AttemptsKept DEF TxSettles, ledger, minedSoFar, MirrorInv, TypeOK
<1>3. ASSUME NEW c \in Calls, Register(c) \/ Change(c) PROVE AttemptsOK'
  BY <1>3, AttemptsKept DEF Register, Change, Begin, ledger, minedSoFar, MirrorInv, TypeOK
<1>4. CASE Reorg
  BY <1>4 DEF Reorg, AttemptsOK, MirrorInv, TypeOK
<1>5. CASE Crash
  BY <1>5, CrashMoves, AttemptsKept DEF ledger, minedSoFar
<1>6. CASE UNCHANGED vars
  BY <1>6, AttemptsKept DEF vars
<1> QED
  BY <1>1, <1>2, <1>3, <1>4, <1>5, <1>6, AttemptsSend, AttemptsError, AttemptsMine DEF Next, Handle

\* The pool is mined in order: with the receipt of the current attempt, none of
\* the earlier ones is left.
LEMMA NothingLeft ==
  ASSUME MirrorInv, AttemptsOK, reorgs = 0, NEW receipt \in mined, NEW c \in Calls,
         receipt.call = c, receipt.attempt = attempt[c]
  PROVE  \A i \in DOMAIN pool : pool[i].call # c
<1> SUFFICES ASSUME NEW i \in DOMAIN pool, pool[i].call = c PROVE FALSE
  OBVIOUS
<1>1. pool[i].attempt <= attempt[c] /\ attempt[c] < pool[i].attempt
  BY DEF AttemptsOK, Sent
<1>2. pool[i].attempt \in Nat /\ attempt[c] \in Nat
  BY PoolTypes, AttemptsAssumption DEF MirrorInv, TypeOK
<1> QED
  BY <1>1, <1>2

-----------------------------------------------------------------------------
(* Calls that do not overlap. *)

\* A handler at work is busy and moves itself alone.
LEMMA HandlerMoves ==
  ASSUME MirrorInv, NEW c \in Calls, Handle(c)
  PROVE  /\ step[c] \in Busy /\ logged[c] = "none"
         /\ \A d \in Calls : d # c => /\ step'[d] = step[d] /\ local'[d] = local[d]
                                      /\ logged'[d] = logged[d]
         /\ UNCHANGED <<body, target, overlapped, reorgs>>
<1>1. /\ step \in [Calls -> {"idle"} \union Busy \union Done]
      /\ local \in [Calls -> Rows \union {NoRow}] /\ logged \in [Calls -> {"none", "ok", "failed"}]
  BY DEF MirrorInv, TypeOK
<1>2. step[c] \in Busy
  BY DEF Handle, CheckDid, LoadAgent, Insert, SaveCopy, DatabaseError, SendTx, TransientError,
         PermanentError, TxSettles, Busy
<1>3. logged[c] = "none"
  BY <1>1, <1>2 DEF MirrorInv, LogOK, Busy
<1>4. UNCHANGED <<body, target, overlapped, reorgs>>
  BY DEF Handle, CheckDid, LoadAgent, Insert, SaveCopy, DatabaseError, SendTx, TransientError,
         PermanentError, TxSettles, Leave, ledger, minedSoFar
<1>5. \A d \in Calls : d # c => step'[d] = step[d]
  BY <1>1 DEF Handle, CheckDid, LoadAgent, Insert, SaveCopy, DatabaseError, SendTx, TransientError,
              PermanentError, TxSettles, Leave, Swallow
<1>6. \A d \in Calls : d # c => local'[d] = local[d]
  BY <1>1 DEF Handle, CheckDid, LoadAgent, Insert, SaveCopy, DatabaseError, SendTx, TransientError,
              PermanentError, TxSettles, Leave
<1>7. \A d \in Calls : d # c => logged'[d] = logged[d]
  BY <1>1 DEF Handle, CheckDid, LoadAgent, Insert, SaveCopy, DatabaseError, SendTx, TransientError,
              PermanentError, TxSettles, Leave, Swallow
<1> QED
  BY <1>2, <1>3, <1>4, <1>5, <1>6, <1>7

LEMMA BeginMoves ==
  ASSUME MirrorInv, NEW c \in Calls, Register(c) \/ Change(c)
  PROVE  /\ step[c] = "idle" /\ step'[c] \in {"checking", "loading", "refused"}
         /\ \A d \in Calls : d # c => step'[d] = step[d]
         /\ UNCHANGED <<body, target, local, logged, rows, pool, mined, chain, reorgs>>
         /\ overlapped' = (overlapped \/ InProgress # {})
BY DEF Register, Change, Begin, MirrorInv, TypeOK, ledger, minedSoFar

LEMMA SerialStep == MirrorInv /\ SerialOK /\ [Next]_vars => SerialOK'
<1> SUFFICES ASSUME MirrorInv, SerialOK, [Next]_vars PROVE SerialOK'
  OBVIOUS
<1>1. ASSUME NEW c \in Calls, Handle(c) PROVE SerialOK'
  BY <1>1, HandlerMoves DEF SerialOK
<1>2. ASSUME NEW c \in Calls, Register(c) \/ Change(c) PROVE SerialOK'
  BY <1>2, BeginMoves DEF SerialOK, InProgress
<1>3. CASE Mine \/ Reorg
  BY <1>3 DEF Mine, Reorg, calls, SerialOK
<1>4. CASE Crash
  BY <1>4 DEF Crash, SerialOK, Busy
<1>5. CASE UNCHANGED vars
  BY <1>5 DEF vars, SerialOK
<1> QED
  BY <1>1, <1>2, <1>3, <1>4, <1>5 DEF Next

\* The copy update and deactivate make of the row, and the copy register makes of
\* its body.
LEMMA LoadedCopy ==
  ASSUME MirrorInv, NEW c \in Calls, LoadAgent(c), step'[c] = "saving"
  PROVE  /\ rows[target[c]] \in Rows /\ local'[c] \in Rows
         /\ body[c].op = "deactivate" =>
              local'[c].status = "inactive" /\ local'[c].key = rows[target[c]].key
         /\ body[c].op # "deactivate" /\ body[c].status = NoStatus =>
              local'[c].status = rows[target[c]].status
         /\ body[c].op # "deactivate" =>
              local'[c].key = IF body[c].key = NoKey THEN rows[target[c]].key ELSE body[c].key
<1> DEFINE row == rows[target[c]]
           k == IF body[c].key = NoKey THEN row.key ELSE body[c].key
           t == IF body[c].status = NoStatus THEN row.status ELSE body[c].status
           new == IF body[c].op = "deactivate" THEN [row EXCEPT !.status = "inactive"]
                  ELSE [row EXCEPT !.key = k, !.status = t]
<1>1. row \in Rows
  BY DEF LoadAgent, Leave, MirrorInv, TypeOK
<1>2. k \in BodyKeys /\ t \in {"active", "inactive"}
  BY <1>1, BodyFacts DEF MirrorInv, Rows
<1>3. local'[c] = new
  BY <1>1, RowFacts DEF LoadAgent, MirrorInv, TypeOK
<1>4. /\ k = IF body[c].key = NoKey THEN row.key ELSE body[c].key
      /\ body[c].status = NoStatus => t = row.status
  OBVIOUS
<1> HIDE DEF k, t, row
<1>5. /\ new \in Rows
      /\ body[c].op = "deactivate" => new.status = "inactive" /\ new.key = row.key
      /\ body[c].op # "deactivate" => new.status = t /\ new.key = k
  BY <1>1, <1>2 DEF Rows
<1> HIDE DEF new
<1> QED
  BY <1>1, <1>3, <1>4, <1>5 DEF row

LEMMA StatusesStep == MirrorInv /\ SerialOK /\ StatusesOK /\ [Next]_vars => StatusesOK'
<1> SUFFICES ASSUME MirrorInv, SerialOK, StatusesOK, [Next]_vars,
                    ~overlapped', \A u \in Calls : body'[u].status = NoStatus,
                    NEW d \in Calls
             PROVE  /\ (body[d].op = "deactivate" /\ step[d] \in Mirroring \union {"answered"} =>
                          rows[target[d]].status = "inactive")'
                    /\ (body[d].op = "deactivate" /\ step[d] = "saving" =>
                          local[d].status = "inactive")'
                    /\ (body[d].op # "register" /\ step[d] = "saving"
                        /\ rows[target[d]].status = "inactive" => local[d].status = "inactive")'
  BY DEF StatusesOK
<1> DEFINE Kept == /\ (body[d].op = "deactivate" /\ step[d] \in Mirroring \union {"answered"} =>
                         rows[target[d]].status = "inactive")
                   /\ (body[d].op = "deactivate" /\ step[d] = "saving" =>
                         local[d].status = "inactive")
                   /\ (body[d].op # "register" /\ step[d] = "saving"
                       /\ rows[target[d]].status = "inactive" => local[d].status = "inactive")
<1> SUFFICES Kept'
  OBVIOUS
<1>1. ASSUME ~overlapped, UNCHANGED <<body, target, local, rows>>,
             step'[d] \in Mirroring \union {"answered", "saving"} =>
               step'[d] = step[d] \/ (step[d] \in Mirroring /\ step'[d] # "saving")
      PROVE  Kept'
  BY <1>1 DEF StatusesOK, Mirroring
<1>2. ASSUME NEW c \in Calls, Handle(c) PROVE Kept'
  <2>1. /\ step[c] \in Busy /\ UNCHANGED <<body, target, overlapped>>
        /\ d # c => step'[d] = step[d] /\ local'[d] = local[d]
    BY <1>2, HandlerMoves
  <2>2. d # c => step[d] \notin Busy
    BY <2>1 DEF SerialOK
  <2>3. CASE CheckDid(c)
    BY <2>1, <2>3 DEF CheckDid, Leave, MirrorInv, HandlersOK, StatusesOK, TypeOK, Mirroring
  <2>4. CASE LoadAgent(c)
    <3>1. rows' = rows /\ step'[c] \in {"refused", "saving"}
      BY <2>4 DEF LoadAgent, Leave, MirrorInv, TypeOK
    <3>2. CASE d = c
      BY <2>1, <2>4, <3>1, <3>2, LoadedCopy, BodyFacts DEF Mirroring, MirrorInv
    <3>3. CASE d # c
      BY <2>1, <3>1, <3>3 DEF StatusesOK
    <3> QED
      BY <3>2, <3>3
  <2>5. CASE Insert(c) \/ SaveCopy(c) \/ DatabaseError(c)
    <3>1. local' = local
      BY <2>5, DatabaseCases DEF MirrorInv
    <3>2. CASE \E s \in {"refused", "crashed"} :
                 /\ step[c] \in {"checking", "loading", "saving"}
                 /\ step' = [step EXCEPT ![c] = s] /\ rows' = rows
      BY <1>1, <2>1, <3>1, <3>2 DEF MirrorInv, TypeOK, Mirroring
    <3>3. ASSUME NEW s \in {"sending", "answered", "crashed"}, NEW i \in Ids,
                 step[c] = "saving", step' = [step EXCEPT ![c] = s], Writes(c, i),
                 rows' = [rows EXCEPT ![i] = local[c]]
          PROVE  Kept'
      <4>1. rows \in [Ids -> Rows \union {NoRow}] /\ step \in [Calls -> {"idle"} \union Busy \union Done]
            /\ target[d] \in Ids
        BY DEF MirrorInv, TypeOK
      <4>2. CASE d = c
        BY <2>1, <3>1, <3>3, <4>1, <4>2 DEF Writes, StatusesOK, Mirroring
      <4>3. CASE d # c
        <5>1. step'[d] \notin Mirroring \union {"saving"} /\ step'[d] = step[d]
          BY <2>1, <2>2, <4>3 DEF Busy, Mirroring
        <5>2. rows[target[d]].status = "inactive" => rows'[target[d]].status = "inactive"
          <6>1. CASE target[d] # i
            BY <3>3, <4>1, <6>1
          <6>2. CASE target[d] = i /\ body[c].op # "register"
            BY <2>1, <3>3, <4>1, <6>2 DEF Writes, StatusesOK
          <6>3. CASE target[d] = i /\ body[c].op = "register"
            <7>1. rows[i] = NoRow
              BY <3>3, <6>3 DEF Writes, MirrorInv, HandlersOK
            <7> QED
              BY <6>3, <7>1, RowFacts
          <6> QED
            BY <6>1, <6>2, <6>3
        <5> QED
          BY <2>1, <5>1, <5>2 DEF StatusesOK, Mirroring
      <4> QED
        BY <4>2, <4>3
    <3> QED
      BY <2>5, <3>2, <3>3, DatabaseCases DEF MirrorInv
  <2>6. CASE SendTx(c) \/ TransientError(c) \/ PermanentError(c) \/ TxSettles(c)
    <3>1. step[c] \in Mirroring /\ step'[c] \in Mirroring \union {"answered"}
      BY <2>6 DEF SendTx, TransientError, PermanentError, TxSettles, Swallow, Mirroring, MirrorInv, TypeOK
    <3>2. UNCHANGED <<local, rows>>
      BY <2>6 DEF SendTx, TransientError, PermanentError, TxSettles
    <3> QED
      BY <1>1, <2>1, <3>1, <3>2 DEF Mirroring
  <2> QED
    BY <1>2, <2>3, <2>4, <2>5, <2>6 DEF Handle
<1>3. ASSUME NEW c \in Calls, Register(c) \/ Change(c) PROVE Kept'
  BY <1>1, <1>3, BeginMoves DEF Mirroring
<1>4. CASE Mine \/ Reorg
  BY <1>1, <1>4 DEF Mine, Reorg, calls
<1>5. CASE Crash
  BY <1>1, <1>5 DEF Crash, Mirroring
<1>6. CASE UNCHANGED vars
  BY <1>1, <1>6 DEF vars
<1> QED
  BY <1>2, <1>3, <1>4, <1>5, <1>6 DEF Next

\* While calls do not overlap, the read and the save of the whole row cannot
\* revive an agent: a deactivated one stays inactive in the table.
THEOREM DeactivationLasts == Spec => []DeactivatedStaysWhenSerial
<1>1. StatusesOK => DeactivatedStaysWhenSerial
  BY DEF StatusesOK, DeactivatedStaysWhenSerial
<1> QED
  BY <1>1, IdentityInit, MirrorInvariant, SerialStep, StatusesStep, PTL DEF Spec

LEMMA UnharmedBefore ==
  ASSUME MirrorInv, [Next]_vars, Unharmed'
  PROVE  Unharmed
<1>1. ASSUME NEW c \in Calls, Handle(c) PROVE Unharmed
  BY <1>1, HandlerMoves DEF Unharmed, Busy
<1>2. ASSUME NEW c \in Calls, Register(c) \/ Change(c) PROVE Unharmed
  BY <1>2, BeginMoves DEF Unharmed
<1>3. CASE Mine
  BY <1>3 DEF Mine, calls, Unharmed
<1>4. CASE Crash
  BY <1>4 DEF Crash, Unharmed, ledger, minedSoFar
<1>6. CASE Reorg
  BY <1>6 DEF Reorg, Unharmed, MirrorInv, TypeOK
<1>5. CASE UNCHANGED vars
  BY <1>5 DEF vars, Unharmed
<1> QED
  BY <1>1, <1>2, <1>3, <1>4, <1>5, <1>6 DEF Next

\* While calls do not overlap, a handler that saves is the only one at work.
LEMMA SavingAlone ==
  ASSUME MirrorInv, SerialOK, Unharmed, PoolIsCurrent, NEW c \in Calls,
         step[c] \in {"checking", "loading", "saving"}
  PROVE  /\ \A d \in Calls : step[d] \notin Mirroring
         /\ \A d \in Calls : step[d] = "saving" => d = c
         /\ DOMAIN pool = {}
         /\ \A r \in mined : r.call # c
<1>1. /\ \A d \in Calls : step[d] \notin Mirroring
      /\ \A d \in Calls : step[d] = "saving" => d = c
  BY DEF SerialOK, Unharmed, Mirroring, Busy
<1>2. DOMAIN pool = {}
  BY <1>1, PoolTypes DEF PoolIsCurrent, MirrorInv
<1>3. \A r \in mined : r.call # c
  BY DEF MirrorInv, ChainOK, LedgerOK, Past
<1> QED
  BY <1>1, <1>2, <1>3

LEMMA SerialMirrorSave ==
  ASSUME MirrorInv, MirrorInv', SerialOK, SerialMirrorOK, Unharmed, Unharmed', NEW c \in Calls,
         Handle(c), Insert(c) \/ SaveCopy(c) \/ DatabaseError(c)
  PROVE  PoolIsCurrent' /\ KeysKept' /\ KeysAhead' /\ RowsMirrored'
<1>1. /\ PoolIsCurrent /\ KeysKept /\ KeysAhead /\ RowsMirrored
      /\ UNCHANGED <<body, target, local, pool, mined, chain>>
      /\ \A d \in Calls : d # c => step'[d] = step[d]
      /\ step[c] \in {"checking", "loading", "saving"}
  <2>1. PoolIsCurrent /\ KeysKept /\ KeysAhead /\ RowsMirrored
    BY DEF SerialMirrorOK
  <2>2. UNCHANGED <<body, target, local, pool, mined, chain>>
    BY DatabaseCases DEF ledger, minedSoFar, MirrorInv
  <2>3. step[c] \in {"checking", "loading", "saving"}
    BY DEF Insert, SaveCopy, DatabaseError
  <2> QED
    BY <2>1, <2>2, <2>3, HandlerMoves
<1>2. /\ \A d \in Calls : step[d] \notin Mirroring
      /\ \A d \in Calls : step[d] = "saving" => d = c
      /\ DOMAIN pool = {}
      /\ \A r \in mined : r.call # c
  BY <1>1, SavingAlone
<1>3. PoolIsCurrent'
  BY <1>1, <1>2 DEF PoolIsCurrent
<1>4. step'[c] # "saving" /\ step \in [Calls -> {"idle"} \union Busy \union Done]
  <2>1. step \in [Calls -> {"idle"} \union Busy \union Done] /\ TypeOK
    BY DEF MirrorInv, TypeOK
  <2>2. \E s \in {"refused", "sending", "answered", "crashed"} : step' = [step EXCEPT ![c] = s]
    BY <2>1, DatabaseCases
  <2> QED
    BY <2>1, <2>2
<1>5. KeysKept'
  BY <1>1, <1>2, <1>4 DEF KeysKept
<1>6. \A j \in Ids : rows[j] # NoRow => IsMirrored(rows[j])
  BY <1>1, <1>2 DEF RowsMirrored, MirrorsKey
<1>7. CASE rows' = rows /\ step'[c] = "refused"
  BY <1>1, <1>2, <1>3, <1>5, <1>6, <1>7 DEF KeysAhead, RowsMirrored, IsMirrored, MirrorsKey, Mirroring
<1>8. ASSUME NEW s \in {"sending", "answered"}, NEW i \in Ids,
             step[c] = "saving", step' = [step EXCEPT ![c] = s], Writes(c, i),
             rows' = [rows EXCEPT ![i] = local[c]], s = AfterSave(c)
      PROVE  KeysAhead' /\ RowsMirrored'
  <2>1. /\ rows'[i] = local[c] /\ (\A j \in Ids : j # i => rows'[j] = rows[j]) /\ step'[c] = s
        /\ local[c] # NoRow /\ local[c] \in Rows
    BY <1>4, <1>8, RowFacts DEF MirrorInv, TypeOK, HandlersOK
  <2>2. \A j \in Ids : rows'[j].did = local[c].did => j = i
    BY <2>1 DEF MirrorInv, RowsOK
  <2>3. KeysAhead'
    BY <1>1, <1>2, <2>1, <2>2 DEF KeysAhead, MirrorsKey
  <2>4. RowsMirrored'
    <3> SUFFICES ASSUME NEW j \in Ids, rows'[j] # NoRow
                 PROVE  \/ IsMirrored(rows[j])'
                        \/ \E d \in Calls : MirrorsKey(d)' /\ local'[d].did = rows'[j].did
      BY DEF RowsMirrored, IsMirrored
    <3>1. CASE j # i
      BY <1>1, <1>6, <2>1, <3>1 DEF IsMirrored
    <3>2. CASE j = i /\ s = "sending" /\ body[c].op \in {"register", "update"}
      BY <1>1, <2>1, <3>2 DEF MirrorsKey, Mirroring
    <3>3. CASE j = i /\ ~(s = "sending" /\ body[c].op \in {"register", "update"})
      <4>1. body[c].op = "deactivate" \/ (body[c].op = "update" /\ ~Mirrors(c))
        BY <1>8, <3>3, BodyFacts DEF MirrorInv, AfterSave, Mirrors
      <4>2. i = target[c] /\ rows[i] # NoRow /\ rows[i].did = local[c].did
            /\ local[c].key \in {EmptyKey, rows[i].key}
        BY <1>1, <1>8, <4>1 DEF Writes, MirrorInv, HandlersOK, KeysKept
      <4> QED
        BY <1>1, <1>6, <2>1, <3>3, <4>2 DEF IsMirrored
    <3> QED
      BY <3>1, <3>2, <3>3
  <2> QED
    BY <2>3, <2>4
<1>9. step'[c] # "crashed"
  BY DEF Unharmed
<1>10. (rows' = rows /\ step'[c] = "refused") \/
       \E s \in {"sending", "answered"}, i \in Ids :
         /\ step[c] = "saving" /\ step' = [step EXCEPT ![c] = s] /\ Writes(c, i)
         /\ rows' = [rows EXCEPT ![i] = local[c]] /\ s = AfterSave(c)
  BY <1>4, <1>9, DatabaseCases DEF MirrorInv
<1> QED
  BY <1>3, <1>5, <1>7, <1>8, <1>10

LEMMA SerialMirrorRead ==
  ASSUME MirrorInv, SerialOK, SerialMirrorOK, Unharmed, NEW c \in Calls,
         Handle(c), CheckDid(c) \/ LoadAgent(c)
  PROVE  PoolIsCurrent' /\ KeysKept' /\ KeysAhead' /\ RowsMirrored'
<1>1. PoolIsCurrent /\ KeysKept /\ KeysAhead /\ RowsMirrored
  BY DEF SerialMirrorOK
<1>2. /\ UNCHANGED <<body, target, rows, pool, mined, chain>>
      /\ step[c] \in {"checking", "loading"} /\ step'[c] \in {"refused", "saving"}
  BY DEF CheckDid, LoadAgent, Leave, ledger, minedSoFar, MirrorInv, TypeOK
<1>3. \A d \in Calls : d # c => step'[d] = step[d] /\ local'[d] = local[d]
  BY HandlerMoves
<1>4. /\ \A d \in Calls : step[d] \notin Mirroring /\ step[d] # "saving"
      /\ DOMAIN pool = {}
  BY <1>1, <1>2, SavingAlone
<1>5. PoolIsCurrent' /\ KeysAhead' /\ RowsMirrored'
  BY <1>1, <1>2, <1>3, <1>4 DEF PoolIsCurrent, KeysAhead, RowsMirrored, IsMirrored, MirrorsKey, Mirroring
<1>6. KeysKept'
  <2>1. CheckDid(c) => body[c].op = "register"
    BY DEF CheckDid, MirrorInv, HandlersOK
  <2>2. step'[c] = "saving" /\ LoadAgent(c) =>
          /\ body[c].op = "deactivate" => local'[c].key = rows[target[c]].key
          /\ body[c].op = "update" /\ ~Mirrors(c) =>
               local'[c].key \in {EmptyKey, rows[target[c]].key}
    BY LoadedCopy DEF Mirrors
  <2> QED
    BY <1>2, <1>3, <1>4, <2>1, <2>2 DEF KeysKept, Mirrors
<1> QED
  BY <1>5, <1>6

LEMMA SerialMirrorRetry ==
  ASSUME MirrorInv, AttemptsOK, SerialOK, SerialMirrorOK, Unharmed, Unharmed',
         NEW c \in Calls, Handle(c),
         SendTx(c) \/ TransientError(c) \/ PermanentError(c) \/ TxSettles(c)
  PROVE  PoolIsCurrent' /\ KeysKept' /\ KeysAhead' /\ RowsMirrored'
<1>1. PoolIsCurrent /\ KeysKept /\ KeysAhead /\ RowsMirrored
  BY DEF SerialMirrorOK
<1>2. /\ UNCHANGED <<body, target, local, rows, mined, chain>> /\ step[c] \in Mirroring
      /\ step \in [Calls -> {"idle"} \union Busy \union Done]
      /\ logged \in [Calls -> {"none", "ok", "failed"}]
  BY DEF SendTx, TransientError, PermanentError, TxSettles, ledger, minedSoFar, Mirroring, MirrorInv, TypeOK
<1>3. \A d \in Calls : d # c => step'[d] = step[d]
  BY HandlerMoves
<1>4. logged'[c] # "failed"
  BY DEF Unharmed
<1>5. CASE SendTx(c) \/ TransientError(c) \/ PermanentError(c)
  <2>1. step'[c] \in Mirroring
    BY <1>2, <1>4, <1>5 DEF SendTx, TransientError, PermanentError, Swallow, Mirroring
  <2>2. \A d \in Calls : MirrorsKey(d)' <=> MirrorsKey(d)
    BY <1>2, <1>3, <2>1 DEF MirrorsKey
  <2>3. KeysKept'
    BY <1>1, <1>2, <1>3, <2>1 DEF KeysKept, Mirrors, Mirroring
  <2>4. KeysAhead' /\ RowsMirrored'
    BY <1>1, <1>2, <2>2 DEF KeysAhead, RowsMirrored, IsMirrored
  <2>5. PoolIsCurrent'
    <3>1. CASE pool' = pool
      BY <1>1, <1>3, <2>1, <3>1, PoolTypes DEF PoolIsCurrent, MirrorInv
    <3>2. CASE SendTx(c)
      <4>1. pool' = Append(pool, TxOf(c)) /\ TxOf(c).call = c /\ pool \in Seq(Txs)
        BY <3>2 DEF SendTx, TxOf, MirrorInv, TypeOK
      <4>2. \A i \in DOMAIN pool' : (i \in DOMAIN pool /\ pool'[i] = pool[i]) \/ pool'[i] = TxOf(c)
        BY <4>1
      <4> QED
        BY <1>1, <1>3, <2>1, <4>1, <4>2, PoolTypes DEF PoolIsCurrent, MirrorInv
    <3> QED
      BY <1>5, <3>1, <3>2 DEF TransientError, PermanentError, ledger
  <2> QED
    BY <2>3, <2>4, <2>5
<1>6. CASE TxSettles(c)
  <2>1. PICK receipt \in mined :
          /\ receipt.call = c /\ receipt.attempt = attempt[c]
          /\ step' = [step EXCEPT ![c] = "answered"]
          /\ logged' = [logged EXCEPT ![c] = IF receipt.ok THEN "ok" ELSE "failed"]
    BY <1>6 DEF TxSettles
  <2>2. receipt.ok /\ step'[c] = "answered" /\ pool' = pool
    BY <1>2, <1>4, <1>6, <2>1 DEF TxSettles, ledger
  <2>3. PoolIsCurrent'
    BY <1>1, <1>3, <2>1, <2>2, NothingLeft, PoolTypes DEF PoolIsCurrent, MirrorInv, Unharmed
  <2>4. KeysKept' /\ KeysAhead'
    BY <1>1, <1>2, <1>3, <2>2 DEF KeysKept, KeysAhead, Mirrors, MirrorsKey, Mirroring
  <2>5. RowsMirrored'
    <3> SUFFICES ASSUME NEW j \in Ids, rows[j] # NoRow
                 PROVE  \/ IsMirrored(rows[j])
                        \/ \E d \in Calls : MirrorsKey(d)' /\ local[d].did = rows[j].did
      BY <1>2 DEF RowsMirrored, IsMirrored
    <3>1. MirrorsKey(c) /\ local[c].did = rows[j].did => IsMirrored(rows[j])
      BY <1>1, <2>1, <2>2 DEF KeysAhead, IsMirrored
    <3>2. \A d \in Calls : d # c /\ MirrorsKey(d) => MirrorsKey(d)'
      BY <1>2, <1>3 DEF MirrorsKey
    <3> QED
      BY <1>1, <3>1, <3>2 DEF RowsMirrored
  <2> QED
    BY <2>3, <2>4, <2>5
<1> QED
  BY <1>5, <1>6

LEMMA SerialMirrorMine ==
  ASSUME MirrorInv, SerialOK, SerialMirrorOK, Unharmed, Mine
  PROVE  PoolIsCurrent' /\ KeysKept' /\ KeysAhead' /\ RowsMirrored'
<1>1. PoolIsCurrent /\ KeysKept /\ KeysAhead /\ RowsMirrored
  BY DEF SerialMirrorOK
<1>2. PICK tx \in Txs, ok \in BOOLEAN :
        /\ 1 \in DOMAIN pool /\ tx = pool[1] /\ TxOK(tx) /\ ok = Accepts(chain, tx)
        /\ \A i \in DOMAIN pool' : i + 1 \in DOMAIN pool /\ pool'[i] = pool[i + 1]
        /\ chain' = IF ok THEN Execute(chain, tx) ELSE chain
        /\ mined' = mined \union {ReceiptOf(tx, ok)}
        /\ UNCHANGED <<step, body, target, local, attempt, logged, rows>>
  BY MineMoves
<1> DEFINE r0 == ReceiptOf(tx, ok)
<1>3. r0.call = tx.call /\ r0.ok = ok /\ mined' = mined \union {r0}
  BY <1>2 DEF ReceiptOf
<1> HIDE DEF r0
<1>4. r0.call = tx.call /\ r0.ok = ok
  BY <1>3
<1>5. /\ tx \in Txs /\ tx.call \in Calls /\ tx.did \in Dids /\ step[tx.call] \in Mirroring
      /\ tx.op = body[tx.call].op /\ tx.did = local[tx.call].did /\ tx.key = local[tx.call].key
  BY <1>1, <1>2, PoolTypes DEF MirrorInv, TxOK, PoolIsCurrent
<1>6. /\ \A d \in Dids : chain[d].owned => chain'[d].owned
      /\ \A d \in Dids : d # tx.did => chain'[d] = chain[d]
      /\ ok => chain'[tx.did].owned
      /\ ~ok => chain' = chain
      /\ ok /\ tx.op # "deactivate" => chain'[tx.did].key = tx.key
      /\ tx.op = "deactivate" => chain'[tx.did].key = chain[tx.did].key
  BY <1>2, <1>5, MinedFacts DEF MirrorInv
<1>7. \A d \in Calls : MirrorsKey(d) => d = tx.call
  BY <1>5 DEF MirrorsKey, SerialOK, Unharmed, Mirroring, Busy
<1>8. PoolIsCurrent' /\ KeysKept'
  BY <1>1, <1>2 DEF PoolIsCurrent, KeysKept, Mirrors
<1>9. KeysAhead'
  <2> SUFFICES ASSUME NEW d \in Calls, MirrorsKey(d), NEW r \in mined', r.call = d, r.ok
               PROVE  chain'[local[d].did].owned /\ chain'[local[d].did].key = local[d].key
    BY <1>1, <1>2 DEF KeysAhead, MirrorsKey
  <2>1. d = tx.call /\ tx.op # "deactivate"
    BY <1>5, <1>7 DEF MirrorsKey
  <2>2. CASE ok
    BY <1>5, <1>6, <2>1, <2>2
  <2>3. CASE ~ok
    BY <1>1, <1>3, <1>4, <1>6, <2>3 DEF KeysAhead
  <2> QED
    BY <2>2, <2>3
<1>10. RowsMirrored'
  <2> SUFFICES ASSUME NEW j \in Ids, rows[j] # NoRow
               PROVE  \/ IsMirrored(rows[j])'
                      \/ \E d \in Calls : MirrorsKey(d) /\ local[d].did = rows[j].did
    BY <1>2 DEF RowsMirrored, MirrorsKey, IsMirrored
  <2>1. rows[j].did \in Dids
    BY RowFacts DEF MirrorInv, TypeOK
  <2>2. CASE rows[j].did # tx.did \/ tx.op = "deactivate" \/ ~ok
    BY <1>1, <1>2, <1>6, <2>1, <2>2 DEF RowsMirrored, IsMirrored
  <2>3. CASE rows[j].did = tx.did /\ tx.op # "deactivate"
    <3>1. MirrorsKey(tx.call)
      BY <1>5, <2>3, BodyFacts DEF MirrorsKey, MirrorInv
    <3> QED
      BY <1>5, <2>3, <3>1
  <2> QED
    BY <2>2, <2>3
<1> QED
  BY <1>8, <1>9, <1>10

LEMMA SerialMirrorStep ==
  MirrorInv /\ MirrorInv' /\ AttemptsOK /\ SerialOK /\ SerialMirrorOK /\ [Next]_vars => SerialMirrorOK'
<1> SUFFICES ASSUME MirrorInv, MirrorInv', AttemptsOK, SerialOK, SerialMirrorOK, [Next]_vars, Unharmed'
             PROVE  PoolIsCurrent' /\ KeysKept' /\ KeysAhead' /\ RowsMirrored'
  BY DEF SerialMirrorOK
<1>1. Unharmed /\ PoolIsCurrent /\ KeysKept /\ KeysAhead /\ RowsMirrored
  BY UnharmedBefore DEF SerialMirrorOK
<1>2. ASSUME NEW c \in Calls, Handle(c)
      PROVE  PoolIsCurrent' /\ KeysKept' /\ KeysAhead' /\ RowsMirrored'
  BY <1>1, <1>2, SerialMirrorRead, SerialMirrorSave, SerialMirrorRetry DEF Handle
<1>3. ASSUME NEW c \in Calls, Register(c) \/ Change(c)
      PROVE  PoolIsCurrent' /\ KeysKept' /\ KeysAhead' /\ RowsMirrored'
  <2>1. /\ step[c] = "idle" /\ step'[c] \in {"checking", "loading", "refused"}
        /\ \A d \in Calls : d # c => step'[d] = step[d]
        /\ UNCHANGED <<body, target, local, logged, rows, pool, mined, chain>>
    BY <1>3, BeginMoves
  <2>2. \A d \in Calls : /\ step[d] \in Mirroring <=> step'[d] \in Mirroring
                         /\ MirrorsKey(d)' <=> MirrorsKey(d)
                         /\ step'[d] = "saving" => step[d] = "saving"
    BY <2>1 DEF MirrorsKey, Mirroring
  <2> QED
    BY <1>1, <2>1, <2>2, PoolTypes
       DEF PoolIsCurrent, KeysKept, KeysAhead, RowsMirrored, IsMirrored, Mirrors, MirrorInv
<1>4. CASE Crash
  <2>1. \A d \in Calls : step'[d] = step[d]
    BY <1>4 DEF Crash, Unharmed
  <2>2. UNCHANGED <<body, target, local, rows, pool, mined, chain>>
    BY <1>4 DEF Crash, ledger, minedSoFar
  <2> QED
    BY <1>1, <2>1, <2>2, PoolTypes
       DEF PoolIsCurrent, KeysKept, KeysAhead, RowsMirrored, IsMirrored, Mirrors, MirrorsKey, MirrorInv
<1>5. CASE UNCHANGED vars
  BY <1>1, <1>5 DEF vars, PoolIsCurrent, KeysKept, KeysAhead, RowsMirrored, IsMirrored, Mirrors, MirrorsKey
<1>6. ~Reorg
  BY DEF Reorg, Unharmed, MirrorInv, TypeOK
<1> QED
  BY <1>1, <1>2, <1>3, <1>4, <1>5, <1>6, SerialMirrorMine DEF Next

\* Calls that do not overlap and report no failure leave the chain with the key
\* of the table, whatever withRetry had to repeat - unless that key is empty or the
\* chain reorganised.
THEOREM SerialCallsAreMirrored == Spec => []MirroredWhenSerial
<1>1. SerialMirrorOK => MirroredWhenSerial
  <2> SUFFICES ASSUME SerialMirrorOK, ~overlapped, reorgs = 0,
                      \A c \in Calls : step[c] \in {"idle", "refused", "answered"} /\ logged[c] # "failed",
                      NEW i \in Ids, rows[i] # NoRow
               PROVE  IsMirrored(rows[i])
    BY DEF MirroredWhenSerial, IsMirrored
  <2>1. Unharmed /\ \A c \in Calls : ~MirrorsKey(c)
    BY DEF Unharmed, MirrorsKey, Mirroring
  <2> QED
    BY <2>1 DEF SerialMirrorOK, RowsMirrored
<1> QED
  BY <1>1, IdentityInit, MirrorInvariant, AttemptsStep, SerialStep, SerialMirrorStep, PTL DEF Spec
=============================================================================
