-------------------------- MODULE DiagnosticDelivery --------------------------
(***************************************************************************)
(* Diagnostics and driver reports: from the record a driver's report makes *)
(* (driverDiagnosticRecorder) through the encrypted outbox                 *)
(* (driverDiagnosticOutbox, diagnosticStorage) to the server               *)
(* (driverDiagnosticTransport), under a write-only credential kept per     *)
(* account (diagnosticCredentialStore), across bindings to an account and  *)
(* a route, sign-out and account replacement (expoDriverDiagnosticRuntime).*)
(*                                                                         *)
(* Every binding has an outbox, a chain of storage mutations and a         *)
(* transport of its own; an ended binding's mutations and requests still   *)
(* run to their ends.  Records are numbered in the order they are made,    *)
(* which is the order they are sent in.                                    *)
(* Live snapshots, and the flushes that carry only a snapshot, are left    *)
(* out but for a binding's first and last.                                 *)
(* The server and the phone's storage are external.                        *)
(***************************************************************************)
EXTENDS Naturals, Sequences, FiniteSets, SequencesExt, FiniteSetsExt

CONSTANTS
    Owners,      \* accounts
    NoOne,       \* no account
    Stored,      \* the account stored when the app starts, if any
    Reports,     \* records that are driver reports
    Heartbeats,  \* records that are heartbeats
    Errors,      \* records of kind ERROR; what is left are changes of state
    Refused,     \* records the server refuses for ever
    MaxRecords,  \* bound: records made
    MaxKept,     \* records an outbox and the database keep of an account
    BatchSize,   \* records of one batch
    MaxBindings, \* bound: bindings
    MaxSessions, \* bound: sign-ins, sign-outs and observed accesses
    MaxTrouble,  \* bound: failures, timeouts, revocations and crashes
    MaxEvents    \* bound: all of these together with the records

Numbers == 1..MaxRecords
Bindings == 1..MaxBindings

ASSUME DiagnosticAssumption ==
    /\ NoOne \notin Owners /\ Stored \in Owners \cup {NoOne}
    /\ Reports \cup Heartbeats \cup Errors \cup Refused \subseteq Numbers
    /\ Reports \cap Heartbeats = {} /\ Errors \cap (Reports \cup Heartbeats) = {}
    /\ {MaxKept, BatchSize} \subseteq Nat \ {0}
    /\ {MaxRecords, MaxBindings, MaxSessions, MaxTrouble, MaxEvents} \subseteq Nat

VARIABLES
    bindings,  \* every outbox with its recorder and transport
    active,    \* the number of the active binding, 0 for none
    made,      \* the binding every record was made in
    status,    \* the status of every report for its handle
    disk,      \* rows of diagnostic_records
    secure,    \* [token, ops] of every account: its stored credential and the
               \* serialised operations on it
    server,    \* [valid, issued, received, refused, late]: tokens that are
               \* accepted, how many were issued, <<record, account>> received,
               \* records refused, accounts whose DELETE is on its way
    account,   \* [driver, bearer, due, changed, suppress, fresh]
    logout,    \* the sign-out that is running
    excused,   \* history: records that could not be saved or were pruned
    budget     \* [sessions, trouble] used so far

vars == <<bindings, active, made, status, disk, secure, server, account, logout,
          excused, budget>>
records == <<made, status, disk, excused>>

NoToken == <<NoOne, 0>>
NoAnswer == [kind |-> "none", accepted |-> {}, rejected |-> {}]
NoRead == [asked |-> FALSE, rows |-> {}]
Unbound == [owner |-> NoOne, ended |-> TRUE, memory |-> {}, settled |-> {}, chain |-> <<>>,
            read |-> NoRead, phase |-> "idle", token |-> NoToken, cache |-> NoToken,
            answer |-> NoAnswer, timer |-> "none", leaving |-> "no"]
NoLogout == [phase |-> "none", binding |-> 0, owner |-> NoOne, token |-> NoToken]

DiagnosticInit ==
    /\ bindings = [n \in Bindings |-> Unbound] /\ active = 0
    /\ made = <<>> /\ status = [r \in Numbers |-> "none"]
    /\ disk = {} /\ excused = {}
    /\ secure = [o \in Owners \cup {NoOne} |-> [token |-> NoToken, ops |-> <<>>]]
    /\ server = [valid |-> {}, issued |-> 0, received |-> {}, refused |-> {}, late |-> {}]
    /\ account = [driver |-> Stored, bearer |-> NoOne, due |-> NoOne, changed |-> FALSE,
                  suppress |-> FALSE, fresh |-> TRUE]
    /\ logout = NoLogout
    /\ budget = [sessions |-> 0, trouble |-> 0]

Within == Len(made) + budget.sessions + budget.trouble < MaxEvents
Trouble ==
    /\ budget.trouble < MaxTrouble /\ Within
    /\ budget' = [budget EXCEPT !.trouble = @ + 1]
Session ==
    /\ budget.sessions < MaxSessions /\ Within
    /\ budget' = [budget EXCEPT !.sessions = @ + 1]

OwnerOf(r) == bindings[made[r]].owner
Pending(b, op) == UNION {e.ids : e \in {f \in Range(b.chain) : f.op = op}}
Put(n, b) == bindings' = [bindings EXCEPT ![n] = b]

--------------------------------------------------------------------------------
(* The outbox.                                                                *)

(* Mutant: a later result replaces a settled status.                           *)
NeverTerminal(s) == FALSE

(* setReportStatus: "unsaved" (LOCAL_STORAGE) may still be corrected.          *)
Terminal(s) == s \in {"acknowledged", "refused", "pruned", "account_changed"}

(* The reports among ids that were made in binding n have handles that watch   *)
(* its outbox.                                                                *)
Says(before, n, ids, new) ==
    [r \in Numbers |->
        IF r \in ids \cap Reports /\ before[r] # "none" /\ made'[r] = n /\ ~Terminal(before[r])
        THEN new ELSE before[r]]

Chained(b, op, ids) ==
    IF ids = {} THEN b ELSE [b EXCEPT !.chain = Append(@, [op |-> op, ids |-> ids])]

Newest(k, ids) == {r \in ids : Cardinality({q \in ids : q > r}) < k}

(* prune: the first error and the newest of the rest stay.                     *)
Overflow(memory) ==
    LET errors == memory \cap Errors
        first == IF errors = {} THEN {} ELSE {Min(errors)}
    IN IF Cardinality(memory) <= MaxKept THEN {}
       ELSE memory \ (first \cup Newest(MaxKept - Cardinality(first), memory))

Pruned(b) ==
    LET over == Overflow(b.memory)
    IN Chained([b EXCEPT !.memory = @ \ over], "remove", over)

(* requestImmediate.  During a flush it changes nothing that is modelled: a    *)
(* successful flush goes on while records are left, a failed one is retried.   *)
Asks(b, override) ==
    IF b.phase # "idle" \/ (b.timer = "retry" /\ ~override) THEN b
    ELSE [b EXCEPT !.timer = "immediate"]

(* emit and record: a heartbeat replaces the heartbeats before it.             *)
Emit ==
    LET r == Len(made) + 1
        b == bindings[active]
        superseded == IF r \in Heartbeats THEN b.memory \cap Heartbeats ELSE {}
        kept == Chained([b EXCEPT !.memory = @ \ superseded], "remove", superseded)
        full == Chained([kept EXCEPT !.memory = @ \cup {r}], "append", {r})
    IN /\ active # 0 /\ r \in Numbers /\ Within
       /\ made' = Append(made, active)
       /\ Put(active, Asks(Pruned(full), FALSE))
       /\ status' = Says([status EXCEPT ![r] = IF r \in Reports THEN "saving" ELSE "none"],
                         active, Overflow(full.memory), "pruned")
       /\ excused' = excused \cup superseded \cup Overflow(full.memory)
       /\ UNCHANGED <<active, disk, secure, server, account, logout, budget>>

(* The head of the chain reaches the database, which keeps the newest rows of  *)
(* the account.                                                               *)
StorageCommits(n) ==
    LET head == Head(bindings[n].chain)
        mine == {r \in disk \cup head.ids : OwnerOf(r) = bindings[n].owner}
    IN /\ bindings[n].chain # <<>>
       /\ Put(n, [bindings[n] EXCEPT !.chain = Tail(@)])
       /\ UNCHANGED made
       /\ \/ /\ head.op = "append"
             /\ disk' = (disk \ mine) \cup Newest(MaxKept, mine)
             /\ excused' = excused \cup (mine \ disk')
             /\ status' = Says(status, n, head.ids, "queued")
          \/ /\ head.op \in {"remove", "quarantine"}
             /\ disk' = disk \ head.ids
             /\ UNCHANGED <<excused, status>>
       /\ UNCHANGED <<active, secure, server, account, logout, budget>>

(* A mutation fails, or is late for its observers and still under way.         *)
StorageFails(n) ==
    LET head == Head(bindings[n].chain)
    IN /\ bindings[n].chain # <<>> /\ Trouble
       /\ \/ Put(n, [bindings[n] EXCEPT !.chain = Tail(@)])
          \/ UNCHANGED bindings
       /\ UNCHANGED made
       /\ IF head.op = "append"
          THEN /\ status' = Says(status, n, head.ids, "unsaved")
               /\ excused' = excused \cup head.ids
          ELSE UNCHANGED <<status, excused>>
       /\ UNCHANGED <<active, disk, secure, server, account, logout>>

(* Mutant: what was acknowledged meanwhile is merged as well.                  *)
AllRows(b, rows) == rows

Unsettled(b, rows) == rows \ b.settled

Rows(o) == {r \in disk : OwnerOf(r) = o}

(* hydrate reads outside the chain of mutations, of this outbox or another: it *)
(* found the rows as they were when it began, or as they are.                  *)
HydrateMerges(n) ==
    \E rows \in {bindings[n].read.rows, Rows(bindings[n].owner)} :
        LET b == bindings[n]
            merged == [b EXCEPT !.read = NoRead, !.memory = @ \cup Unsettled(b, rows)]
        IN /\ b.read.asked
           /\ Put(n, IF active = n /\ rows # {} THEN Asks(Pruned(merged), FALSE)
                  ELSE Pruned(merged))
           /\ UNCHANGED <<made, disk>>
           /\ status' = Says(Says(status, n, Unsettled(b, rows), "queued"),
                             n, Overflow(merged.memory), "pruned")
           /\ excused' = excused \cup Overflow(merged.memory)
           /\ UNCHANGED <<active, secure, server, account, logout, budget>>

HydrateFails(n) ==
    /\ bindings[n].read.asked /\ Trouble
    /\ Put(n, [bindings[n] EXCEPT !.read = NoRead])
    /\ UNCHANGED <<active, records, secure, server, account, logout>>

--------------------------------------------------------------------------------
(* A flush.                                                                   *)

(* Operations on one account's stored credential run one after another; one    *)
(* with none before it is done at once, unless storing a credential is slow.   *)
Op(op, token, n) == [op |-> op, token |-> token, by |-> n]
Queued(o, op) == [secure EXCEPT ![o].ops = Append(@, op)]
Quiet(o) == secure[o].ops = <<>>

(* remove(owner, expectedToken); NoToken expects nothing.                      *)
Without(stored, token) == IF token \in {stored, NoToken} THEN NoToken ELSE stored

Removal(o, token) ==
    IF Quiet(o) THEN [secure EXCEPT ![o].token = Without(@, token)]
    ELSE Queued(o, Op("remove", token, 0))

(* The end of a flush: on success what is left, or came meanwhile, is sent     *)
(* next; a failure arms the retry.                                            *)
Finished(b, ok) ==
    [b EXCEPT !.phase = "idle", !.token = NoToken, !.answer = NoAnswer,
              !.timer = IF b.ended THEN "none"
                        ELSE IF ~ok THEN "retry"
                        ELSE IF b.memory # {} THEN "immediate" ELSE "none"]

(* buildBatch and send, with no wait between.  The server takes a part of the  *)
(* batch or rejects the credential, unless the batch is lost on its way.       *)
BatchGoes(n, before, token, lost) ==
    LET b == [Pruned(before) EXCEPT !.phase = "sending", !.token = token, !.cache = token,
                                    !.timer = "none"]
        over == Overflow(before.memory)
        batch == {r \in b.memory : Cardinality({q \in b.memory : q < r}) < BatchSize}
        Answers(answer) == Put(n, [b EXCEPT !.answer = answer])
    IN /\ UNCHANGED <<made, disk>>
       /\ status' = Says(status, n, over, "pruned")
       /\ excused' = excused \cup over
       /\ \/ /\ lost
             /\ Put(n, Finished(b, FALSE)) /\ UNCHANGED server
          \/ /\ ~lost /\ token \in server.valid
             /\ \E part \in SUBSET batch :
                   /\ part = {} => batch = {}
                   /\ server' = [server EXCEPT
                         !.received = @ \cup {<<r, token[1]>> : r \in part \ Refused},
                         !.refused = @ \cup (part \cap Refused)]
                   /\ Answers([kind |-> "taken", accepted |-> part \ Refused,
                               rejected |-> part \cap Refused])
          \/ /\ ~lost /\ token \notin server.valid
             /\ Answers([NoAnswer EXCEPT !.kind = "401"])
             /\ UNCHANGED server

Sends(n, b, token) ==
    \/ BatchGoes(n, b, token, FALSE) /\ UNCHANGED budget
    \/ BatchGoes(n, b, token, TRUE) /\ Trouble

(* The stored credential is read: the flush goes on with it or registers.      *)
Found(n, b, token) ==
    IF token = NoToken
    THEN /\ Put(n, [b EXCEPT !.phase = "unregistered", !.timer = "none"])
         /\ UNCHANGED <<records, server, budget>>
    ELSE Sends(n, b, token)

(* flush: getCredential takes the cached credential or reads the stored one.   *)
Flushes(n, b) ==
    IF b.cache # NoToken \/ Quiet(b.owner)
    THEN /\ Found(n, b, IF b.cache # NoToken THEN b.cache ELSE secure[b.owner].token)
         /\ UNCHANGED secure
    ELSE /\ Put(n, [b EXCEPT !.phase = "looking", !.timer = "none"])
         /\ secure' = Queued(b.owner, Op("get", NoToken, n))
         /\ UNCHANGED <<records, server, budget>>

--------------------------------------------------------------------------------
(* The phone's secure store does the operations that wait.                     *)

SecureRuns(o) ==
    LET op == Head(secure[o].ops)
        rest == Tail(secure[o].ops)
        n == op.by
        token == secure[o].token
    IN /\ secure[o].ops # <<>>
       /\ \/ /\ op.op = "get" /\ n # 0
             /\ secure' = [secure EXCEPT ![o].ops = rest]
             /\ IF bindings[n].phase = "looking"
                THEN Found(n, bindings[n], token)
                ELSE UNCHANGED <<bindings, records, server, budget>>
             /\ UNCHANGED logout
          \/ /\ op.op = "get" /\ n = 0
             /\ secure' = [secure EXCEPT ![o].ops = rest]
             /\ logout' = IF /\ logout.phase = "reading" /\ logout.owner = o
                             /\ op \notin Range(rest)  \* not of an earlier sign-out
                          THEN [logout EXCEPT !.phase = "leaving", !.token = token]
                          ELSE logout
             /\ UNCHANGED <<bindings, records, server, budget>>
          \/ \* persistCredential: a binding that ended meanwhile takes it back
             /\ op.op = "set"
             /\ secure' = [secure EXCEPT ![o] =
                   [token |-> op.token,
                    ops |-> IF bindings[n].ended
                            THEN Append(rest, Op("remove", op.token, 0)) ELSE rest]]
             /\ UNCHANGED <<bindings, records, server, logout, budget>>
          \/ /\ op.op = "remove"
             /\ secure' = [secure EXCEPT ![o] =
                   [token |-> Without(token, op.token), ops |-> rest]]
             /\ UNCHANGED <<bindings, records, server, logout, budget>>
       /\ UNCHANGED <<active, account>>

(* A set or a remove fails in the phone's secure store.                        *)
SecureFails(o) ==
    /\ secure[o].ops # <<>> /\ Head(secure[o].ops).op # "get" /\ Trouble
    /\ secure' = [secure EXCEPT ![o].ops = Tail(@)]
    /\ UNCHANGED <<bindings, active, records, server, account, logout>>

--------------------------------------------------------------------------------
(* The transport.                                                             *)

TimerFires(n) ==
    /\ bindings[n].timer # "none" /\ bindings[n].phase = "idle"
    /\ Flushes(n, bindings[n])
    /\ UNCHANGED <<active, account, logout>>

(* Reading the stored credential fails or is late.                             *)
LookUpFails(n) ==
    /\ bindings[n].phase = "looking" /\ Trouble
    /\ Put(n, [bindings[n] EXCEPT !.phase = "unregistered"])
    /\ UNCHANGED <<active, records, secure, server, account, logout>>

(* Mutant: whoever is signed in registers.                                     *)
AnyBearer(o) == account.bearer # NoOne

MayRegister(o) == account.bearer = o

(* register waits for a DELETE that is under way, then uses the access token   *)
(* of the signed-in account.                                                  *)
RegisterBegins(n) ==
    LET b == bindings[n]
        token == <<account.bearer, server.issued + 1>>
    IN /\ b.phase = "unregistered" /\ logout.phase # "revoking"
       /\ IF MayRegister(b.owner)
          THEN /\ Put(n, [b EXCEPT !.phase = "registering", !.token = token])
               /\ server' = [server EXCEPT !.valid = @ \cup {token}, !.issued = @ + 1]
          ELSE /\ Put(n, Finished(b, FALSE))
               /\ UNCHANGED server
       /\ UNCHANGED <<active, records, secure, account, logout, budget>>

(* The new credential is cached, stored (persistCredential) and used; storing  *)
(* it may take long.                                                          *)
Registered(n) ==
    LET b == bindings[n]
        token == b.token
    IN /\ b.phase = "registering"
       /\ \/ /\ Quiet(b.owner) /\ Sends(n, b, token)
             /\ secure' = [secure EXCEPT ![b.owner].token = token]
          \/ /\ BatchGoes(n, b, token, FALSE)
             /\ IF Quiet(b.owner) THEN Trouble ELSE UNCHANGED budget
             /\ secure' = Queued(b.owner, Op("set", token, n))
       /\ UNCHANGED <<active, account, logout>>

(* The answer to a registration or to a batch is lost or late.                 *)
RegisterFails(n) ==
    /\ bindings[n].phase = "registering" /\ Trouble
    /\ Put(n, Finished(bindings[n], FALSE))
    /\ UNCHANGED <<active, records, secure, server, account, logout>>

AnswerIsLost(n) ==
    /\ bindings[n].answer.kind = "taken" /\ Trouble
    /\ Put(n, Finished(bindings[n], FALSE))
    /\ UNCHANGED <<active, records, secure, server, account, logout>>

(* Mutant: an answer settles everything the outbox holds.                      *)
SettlesAll(b) == [b.answer EXCEPT !.accepted = b.memory \ b.answer.rejected]

AnswerOf(b) == b.answer

(* acknowledge and quarantine                                                 *)
Answered(n) ==
    LET b == bindings[n]
        answer == AnswerOf(b)
        accepted == answer.accepted \cap b.memory
        rejected == answer.rejected \cap b.memory
        settled == Chained(Chained([b EXCEPT !.memory = @ \ (accepted \cup rejected),
                                             !.settled = @ \cup accepted \cup rejected],
                                   "remove", accepted), "quarantine", rejected)
    IN /\ answer.kind = "taken"
       /\ UNCHANGED <<made, disk, excused>>
       /\ Put(n, Finished(settled, TRUE))
       /\ status' = Says(Says(status, n, accepted, "acknowledged"), n, rejected, "refused")
       /\ UNCHANGED <<active, secure, server, account, logout, budget>>

(* Mutant: the cached credential stays.                                        *)
KeepsCache(b) == b

DropsCache(b) == [b EXCEPT !.cache = NoToken]

(* A 401 removes the credential, cached and stored, unless another replaced it.*)
Rejected(n) ==
    LET b == bindings[n]
    IN /\ b.answer.kind = "401"
       /\ Put(n, Finished(DropsCache(b), FALSE))
       /\ secure' = Removal(b.owner, b.token)
       /\ UNCHANGED <<active, records, server, account, logout, budget>>

--------------------------------------------------------------------------------
(* Bindings.                                                                  *)

(* stop and switchAccount('detached'): only a 401 of its last request still    *)
(* does anything, every other continuation of an ended binding is dropped.     *)
Ended(b) ==
    [Unbound EXCEPT !.owner = b.owner, !.chain = b.chain,
                    !.phase = IF b.answer.kind = "401" THEN "sending" ELSE "idle",
                    !.token = IF b.answer.kind = "401" THEN b.token ELSE NoToken,
                    !.answer = IF b.answer.kind = "401" THEN b.answer ELSE NoAnswer]

Changes(before, n) == Says(before, n, bindings[n].memory, "account_changed")

Fresh(o) == [Unbound EXCEPT !.owner = o, !.ended = FALSE, !.timer = "immediate",
                            !.read = [asked |-> TRUE, rows |-> Rows(o)]]

Next1 == CHOOSE n \in Bindings : bindings[n] = Unbound /\ \A m \in 1..(n - 1) : bindings[m] # Unbound
MayBind == \E n \in Bindings : bindings[n] = Unbound

(* bind: the first heartbeat of a binding, one of Emit's, asks for a flush.     *)
Bind(o) ==
    /\ MayBind
    /\ active' = Next1
    /\ UNCHANGED <<made, disk, excused>>
    /\ IF active = 0
       THEN /\ bindings' = [bindings EXCEPT ![Next1] = Fresh(o)]
            /\ UNCHANGED status
       ELSE /\ bindings' = [bindings EXCEPT ![Next1] = Fresh(o), ![active] = Ended(@)]
            /\ status' = Changes(status, active)

(* The binding restored at start, before any access was observed.              *)
Restores ==
    /\ account.fresh /\ account.driver # NoOne /\ active = 0 /\ account.due = NoOne
    /\ Bind(account.driver)
    /\ account' = [account EXCEPT !.fresh = FALSE]
    /\ UNCHANGED <<secure, server, logout, budget>>

(* flushBeforeDetach: the flush that is running ends, then one last runs.      *)
LeaveBegins(b) == [b EXCEPT !.leaving = "waiting", !.timer = "none"]

LastFlush(n) ==
    /\ bindings[n].leaving = "waiting" /\ bindings[n].phase = "idle"
    /\ Flushes(n, [bindings[n] EXCEPT !.leaving = "last"])
    /\ UNCHANGED <<active, account, logout>>

LeaveIsOver(n) ==
    /\ bindings[n].leaving # "no"
    /\ \/ /\ bindings[n].leaving = "last" /\ bindings[n].phase = "idle"
          /\ UNCHANGED budget
       \/ Trouble
    /\ Put(n, Ended(bindings[n]))
    /\ UNCHANGED <<made, disk, excused>> /\ status' = Changes(status, n)

(* clearExpoDriverDiagnosticAccount goes on in the background; the credential  *)
(* goes with the account that was replaced.                                   *)
ReplacedLeaves(n) ==
    LET o == bindings[n].owner
    IN /\ logout.binding # n /\ LeaveIsOver(n)
       /\ IF active # 0 /\ bindings[active].owner = o
          THEN UNCHANGED secure
          ELSE secure' = Removal(o, NoToken)
       /\ UNCHANGED <<active, server, account, logout>>

(* saveAuthenticatedDriver was stored: the account before it is replaced and   *)
(* the new access is observed.                                                *)
SignsIn(o) ==
    /\ logout.phase = "none" /\ Session
    /\ account' = [account EXCEPT !.driver = o, !.bearer = NoOne, !.due = o,
                                  !.changed = TRUE, !.suppress = FALSE, !.fresh = FALSE]
    /\ active' = 0
    /\ bindings' = IF active = 0 THEN bindings
                   ELSE [bindings EXCEPT ![active] = LeaveBegins(@)]
    /\ UNCHANGED <<records, secure, server, logout>>

(* An access is read from the store, at the start of the app and by whoever    *)
(* later, perhaps with a new context.                                         *)
AccessObserved(changed) ==
    /\ account.driver # NoOne /\ ~account.suppress
    /\ IF account.fresh THEN UNCHANGED budget ELSE Session
    /\ account' = [account EXCEPT !.due = account.driver, !.changed = changed \/ (@ /\ account.due # NoOne),
                                  !.fresh = FALSE]
    /\ UNCHANGED <<bindings, active, records, secure, server, logout>>

(* The hashes of the newest observed access are there.                         *)
Binds ==
    LET o == account.due
    IN /\ o # NoOne
       /\ account' = [account EXCEPT !.due = NoOne, !.changed = FALSE, !.bearer = o]
       /\ IF active # 0 /\ bindings[active].owner = o /\ ~account.changed
          THEN /\ Put(active, Asks(bindings[active], TRUE))
               /\ UNCHANGED <<active, records>>
          ELSE Bind(o)
       /\ UNCHANGED <<secure, server, logout, budget>>

(* The account goes without a sign-out: the binding stays, without access.     *)
AccessCleared ==
    /\ account.driver # NoOne /\ logout.phase = "none" /\ Session
    /\ account' = [account EXCEPT !.driver = NoOne, !.bearer = NoOne, !.due = NoOne,
                                  !.suppress = FALSE, !.fresh = FALSE]
    /\ UNCHANGED <<bindings, active, records, secure, server, logout>>

--------------------------------------------------------------------------------
(* Sign-out.                                                                  *)

LogoutBegins ==
    LET o == IF active # 0 THEN bindings[active].owner ELSE account.bearer
    IN /\ account.driver # NoOne /\ logout.phase = "none" /\ Session
       /\ account' = [account EXCEPT !.suppress = TRUE, !.due = NoOne, !.fresh = FALSE]
       /\ active' = 0
       /\ \/ /\ Quiet(o)
             /\ logout' = [phase |-> "leaving", binding |-> active, owner |-> o,
                           token |-> secure[o].token]
             /\ UNCHANGED secure
          \/ /\ ~Quiet(o)
             /\ logout' = [phase |-> "reading", binding |-> active, owner |-> o,
                           token |-> NoToken]
             /\ secure' = Queued(o, Op("get", NoToken, 0))
       /\ UNCHANGED <<bindings, records, server>>

CredentialUnread ==
    /\ logout.phase = "reading" /\ Trouble
    /\ logout' = [logout EXCEPT !.phase = "leaving"]
    /\ UNCHANGED <<bindings, active, records, secure, server, account>>

LogoutLeaves ==
    /\ logout.phase = "leaving" /\ logout.binding # 0
    /\ bindings[logout.binding].leaving = "no" /\ ~bindings[logout.binding].ended
    /\ Put(logout.binding, LeaveBegins(bindings[logout.binding]))
    /\ UNCHANGED <<active, records, secure, server, account, logout, budget>>

(* The last flush is over; the DELETE begins unless handleLogout found no       *)
(* access token stored or the device's hash could not be read.                *)
LogoutLeft ==
    /\ logout.phase = "leaving"
    /\ IF logout.binding = 0
       THEN UNCHANGED <<bindings, records, budget>>
       ELSE LeaveIsOver(logout.binding)
    /\ account' = [account EXCEPT !.bearer = NoOne]
    /\ \E phase \in {"revoking", "revoked"} : logout' = [logout EXCEPT !.phase = phase]
    /\ UNCHANGED <<active, secure, server>>

Revoked(o) == {token \in server.valid : token[1] = o}

ServerRevokes ==
    /\ logout.phase = "revoking"
    /\ server' = [server EXCEPT !.valid = @ \ Revoked(account.driver)]
    /\ logout' = [logout EXCEPT !.phase = "revoked"]
    /\ UNCHANGED <<bindings, active, records, secure, account, budget>>

(* The DELETE is given up; it may still reach the server.                      *)
RevocationIsLate ==
    /\ logout.phase = "revoking" /\ Trouble
    /\ server' = [server EXCEPT !.late = @ \cup {account.driver}]
    /\ logout' = [logout EXCEPT !.phase = "revoked"]
    /\ UNCHANGED <<bindings, active, records, secure, account>>

LateRevocation(o) ==
    /\ o \in server.late
    /\ server' = [server EXCEPT !.late = @ \ {o}, !.valid = @ \ Revoked(o)]
    /\ UNCHANGED <<bindings, active, records, secure, account, logout, budget>>

(* The credential of the beginning goes, then the account itself.              *)
LogoutEnds ==
    /\ logout.phase = "revoked"
    /\ secure' = IF logout.token = NoToken THEN secure
                 ELSE Removal(logout.owner, logout.token)
    /\ account' = [account EXCEPT !.driver = NoOne, !.bearer = NoOne, !.suppress = FALSE]
    /\ logout' = NoLogout
    /\ UNCHANGED <<bindings, active, records, server, budget>>

--------------------------------------------------------------------------------
(* The phone and the server on their own.                                     *)

(* The server withdraws or forgets a credential.                               *)
TokenExpires ==
    /\ Trouble
    /\ \E token \in server.valid : server' = [server EXCEPT !.valid = @ \ {token}]
    /\ UNCHANGED <<bindings, active, records, secure, account, logout>>

(* The process ends; what was not stored is gone.                              *)
Crash ==
    /\ Trouble
    /\ excused' = excused \cup UNION {(bindings[n].memory \cup Pending(bindings[n], "append"))
                                        \ disk : n \in Bindings}
    /\ bindings' = [n \in Bindings |-> IF bindings[n] = Unbound THEN Unbound
                                       ELSE [Unbound EXCEPT !.owner = bindings[n].owner]]
    /\ active' = 0 /\ logout' = NoLogout
    /\ status' = [r \in Numbers |-> "none"]
    /\ secure' = [o \in DOMAIN secure |-> [secure[o] EXCEPT !.ops = <<>>]]
    /\ account' = [account EXCEPT !.bearer = NoOne, !.due = NoOne, !.changed = FALSE,
                                  !.suppress = FALSE, !.fresh = TRUE]
    /\ UNCHANGED <<made, disk, server>>

--------------------------------------------------------------------------------
(* A binding's own steps, and what goes wrong.                                *)
Works(n) ==
    \/ StorageCommits(n)
    \/ HydrateMerges(n)
    \/ RegisterBegins(n) \/ Registered(n)
    \/ Answered(n) \/ Rejected(n)
    \/ LastFlush(n)

WorkFails(n) ==
    \/ StorageFails(n) \/ HydrateFails(n) \/ LookUpFails(n) \/ RegisterFails(n)
    \/ AnswerIsLost(n)

Leaves ==
    \/ \E n \in Bindings : ReplacedLeaves(n)
    \/ CredentialUnread \/ LogoutLeaves \/ LogoutLeft
    \/ ServerRevokes \/ RevocationIsLate \/ LogoutEnds

DiagnosticNext ==
    \/ Emit
    \/ \E n \in Bindings : Works(n) \/ TimerFires(n) \/ WorkFails(n)
    \/ \E o \in Owners : SecureRuns(o) \/ SecureFails(o) \/ LateRevocation(o)
    \/ \E o \in Owners : SignsIn(o)
    \/ \E changed \in BOOLEAN : AccessObserved(changed)
    \/ Restores \/ Binds \/ AccessCleared
    \/ LogoutBegins \/ Leaves
    \/ TokenExpires \/ Crash

(* Everything the program or the server began goes on; troubles are bounded.   *)
DiagnosticSpec ==
    /\ DiagnosticInit /\ [][DiagnosticNext]_vars
    /\ \A n \in Bindings : WF_vars(Works(n) \/ TimerFires(n))
    /\ \A o \in Owners : WF_vars(SecureRuns(o))

--------------------------------------------------------------------------------
(* Properties.                                                                *)

(* No record disappears between the driver's report and the server: it is in   *)
(* an outbox, on its way to the database or in it, or the server decided about *)
(* it, unless saving it failed or the limit pruned it                         *)
(* (driverDiagnosticOutbox.ts acknowledge, hydrate, switchAccount).            *)
NothingVanishes ==
    \A r \in 1..Len(made) :
        \/ r \in disk \cup excused \cup server.refused
        \/ \E o \in Owners : <<r, o>> \in server.received
        \/ \E n \in Bindings :
              r \in bindings[n].memory \cup Pending(bindings[n], "append")

(* What a report's handle says is true (driverRestoreFeedback.ts): received    *)
(* means received, saved and to be sent means that its outbox still holds it.  *)
ReportStatusIsTrue ==
    \A r \in 1..Len(made) :
        /\ status[r] = "acknowledged" => <<r, OwnerOf(r)>> \in server.received
        /\ status[r] = "refused" => r \in server.refused
        /\ status[r] \in {"saving", "queued", "unsaved"} => r \in bindings[made[r]].memory

(* A record reaches the server under the account it was made in, and every     *)
(* credential stays with the account it was issued to, though registrations   *)
(* and last flushes of a replaced account run beside the next account's.       *)
ReachesItsOwnAccount ==
    /\ \A pair \in server.received : pair[2] = OwnerOf(pair[1])
    /\ \A n \in Bindings : bindings[n].cache[1] \in {NoOne, bindings[n].owner}
    /\ \A o \in Owners : secure[o].token[1] \in {NoOne, o}

(* What the server decided about is not sent again by the outbox that was      *)
(* told, though its row is read back before it is removed.                     *)
SettledStaysOut ==
    \A n \in Bindings : bindings[n].memory \cap bindings[n].settled = {}

(* A record of the active outbox does not wait for ever while the account has  *)
(* access: a rejected credential is replaced and every failure is retried.     *)
Waits(r) ==
    /\ active # 0
    /\ r \in bindings[active].memory
    /\ account.bearer = bindings[active].owner

EventuallySent == \A r \in Numbers : Waits(r) ~> ~Waits(r)
================================================================================
