--------------------------- MODULE ArtifactUpload ---------------------------
(***************************************************************************)
(* node-host/src/router.rs and the uploads of node-host/src/io.rs: several *)
(* attempts at a task, each on a node of its own with its own TaskIo, that *)
(* put artifacts into the same Domain and report to the DMS.  A lease that *)
(* expires is granted again, so attempts overlap; a node may crash, a task *)
(* may be cancelled, and a receipt may get lost.                           *)
(*                                                                         *)
(* `put_domain_artifact` looks the artifact up and writes it in two        *)
(* requests.  The Domain is external: it names an item by an id, keeps at  *)
(* most one item per (name, data type), and may process a write whose      *)
(* sender has given up on it, because of a timeout, a lost response or the *)
(* task's cancellation.                                                    *)
(***************************************************************************)
EXTENDS Naturals, FiniteSets, Functions

CONSTANTS
    Attempts,  \* attempts at tasks: one lease, one Router::run, one TaskIo each
    Paths,     \* logical paths
    Keys,      \* pairs of a name and a data type
    KeyOf,     \* the key a runner puts a path under
    MaxPuts    \* bound: puts per attempt

ASSUME UploadAssumption ==
    /\ KeyOf \in [Paths -> Keys]
    /\ Paths # {} /\ MaxPuts \in Nat

NoId == 0

VARIABLES
    \* Router::run and put_domain_artifact, per attempt
    pc,        \* where it is
    path,      \* the path being put
    existing,  \* existing_id of the put under way
    puts,      \* the number of puts begun, which also numbers their contents
    uploads,   \* TaskIo.uploads: path -> what was recorded
    result,    \* the runner's result: "none", "ok" or what made it fail
    receipt,   \* what the DMS was told, if anything
    \* the Domain and the network
    items,     \* id -> key and content
    lastId,    \* the last id handed out
    flying,    \* the writes under way to the Domain
    answer,    \* the Domain's answer to the attempt waiting for it
    \* history
    landed,    \* the writes the Domain has applied, with the item's id
    deleted,   \* the items somebody else has deleted
    rivals     \* attempts with a put during which another created its key

attemptVars == <<path, existing, puts, uploads>>
domainVars  == <<items, lastId, deleted, rivals>>
netVars     == <<flying, answer, landed>>
vars == <<pc, path, existing, puts, uploads, result, receipt, items, lastId,
          flying, answer, landed, deleted, rivals>>

Ids == Nat \ {NoId}
Contents == [by : Attempts, path : Paths, number : 1..MaxPuts]
Writes == [content : Contents, target : Nat]
Artifacts == [id : Ids, content : Contents]
Failures == {"conflict", "not_found", "other"}
Receipts == [kind : {"none", "success", "failure", "bare_failure"},
             artifacts : SUBSET Artifacts]
NoAnswer == [saved |-> NoId, error |-> "none"]
NoReceipt == [kind |-> "none", artifacts |-> {}]

TypeOK ==
    /\ pc \in [Attempts -> {"setup", "running", "finding", "writing", "waiting",
                            "reporting", "done", "crashed"}]
    /\ path \in [Attempts -> Paths]
    /\ existing \in [Attempts -> 0..lastId]
    /\ puts \in [Attempts -> 0..MaxPuts]
    /\ DOMAIN uploads = Attempts
    /\ \A a \in Attempts :
          /\ DOMAIN uploads[a] \subseteq Paths
          /\ Range(uploads[a]) \subseteq Artifacts
    /\ result \in [Attempts -> {"none", "ok"} \cup Failures]
    /\ receipt \in [Attempts -> Receipts]
    /\ lastId \in Nat
    /\ DOMAIN items \subseteq 1..lastId
    /\ \A i \in DOMAIN items : items[i] \in [key : Keys, content : Contents]
    /\ flying \subseteq Writes
    /\ answer \in [Attempts -> [saved : 0..lastId, error : {"none"} \cup Failures]]
    /\ landed \subseteq Artifacts
    /\ deleted \subseteq 1..lastId
    /\ rivals \subseteq Attempts

Init ==
    /\ pc = [a \in Attempts |-> "setup"]
    /\ path = [a \in Attempts |-> CHOOSE p \in Paths : TRUE]
    /\ existing = [a \in Attempts |-> NoId]
    /\ puts = [a \in Attempts |-> 0]
    /\ uploads = [a \in Attempts |-> <<>>]
    /\ result = [a \in Attempts |-> "none"]
    /\ receipt = [a \in Attempts |-> NoReceipt]
    /\ items = <<>> /\ lastId = 0
    /\ flying = {} /\ answer = [a \in Attempts |-> NoAnswer]
    /\ landed = {} /\ deleted = {} /\ rivals = {}

Goto(a, place) == pc' = [pc EXCEPT ![a] = place]

\* The runner returns; both runners of the repository give up on the first
\* error, so a failed put ends the attempt too.
Conclude(a, r) == Goto(a, "reporting") /\ result' = [result EXCEPT ![a] = r]

\* What the put under way is to save.
Current(a) == [by |-> a, path |-> path[a], number |-> puts[a]]
Item(i, content) == [id |-> i, content |-> content]

Holding(k) == {i \in DOMAIN items : items[i].key = k}

-----------------------------------------------------------------------------
(* Router::run up to the runner, and the runner.                           *)

\* TaskIo::new fails for a lease without a Domain server; then the runner for
\* the capability is looked up.
Setup(a) ==
    /\ pc[a] = "setup"
    /\ \/ Goto(a, "running") /\ UNCHANGED result
       \/ Conclude(a, "other")
    /\ UNCHANGED <<receipt, attemptVars, domainVars, netVars>>

RunnerReturns(a) ==
    /\ pc[a] = "running"
    /\ \E r \in {"ok", "other"} : Conclude(a, r)
    /\ UNCHANGED <<receipt, attemptVars, domainVars, netVars>>

-----------------------------------------------------------------------------
(* put_domain_artifact.                                                    *)

\* The id the put knows of without asking the Domain: an explicit one, else
\* the one recorded for this path.
KnownId(a, p, explicit) ==
    IF explicit # NoId THEN explicit
    ELSE IF p \in DOMAIN uploads[a] THEN uploads[a][p].id ELSE NoId

\* Mutant: the Domain is not asked for an existing item.
BeginPut_NoFind(a, p, explicit) ==
    /\ pc[a] = "running"
    /\ puts[a] < MaxPuts
    /\ puts' = [puts EXCEPT ![a] = @ + 1]
    /\ path' = [path EXCEPT ![a] = p]
    /\ existing' = [existing EXCEPT ![a] = KnownId(a, p, explicit)]
    /\ Goto(a, "writing")
    /\ rivals' = rivals \ {a}
    /\ UNCHANGED <<uploads, result, receipt, items, lastId, deleted, netVars>>

BeginPut(a, p, explicit) ==
    /\ pc[a] = "running"
    /\ puts[a] < MaxPuts
    /\ puts' = [puts EXCEPT ![a] = @ + 1]
    /\ path' = [path EXCEPT ![a] = p]
    /\ existing' = [existing EXCEPT ![a] = KnownId(a, p, explicit)]
    /\ Goto(a, IF existing'[a] = NoId THEN "finding" ELSE "writing")
    /\ rivals' = rivals \ {a}
    /\ UNCHANGED <<uploads, result, receipt, items, lastId, deleted, netVars>>

\* Mutant: the first item of the listing is taken, whatever its name.
Find_AnyName(a) ==
    /\ pc[a] = "finding"
    /\ existing' = [existing EXCEPT ![a] =
          IF DOMAIN items = {} THEN NoId ELSE CHOOSE i \in DOMAIN items : TRUE]
    /\ Goto(a, "writing")
    /\ UNCHANGED <<path, puts, uploads, result, receipt, domainVars, netVars>>

\* find_artifact_id: the item with exactly this name and data type, if any;
\* an answer of 404 means there is none, any other error fails the put.
Find(a) ==
    /\ pc[a] = "finding"
    /\ LET found == Holding(KeyOf[path[a]]) IN
       \/ /\ existing' = [existing EXCEPT ![a] =
                IF found = {} THEN NoId ELSE CHOOSE i \in found : TRUE]
          /\ Goto(a, "writing") /\ UNCHANGED result
       \/ Conclude(a, "other") /\ UNCHANGED existing
    /\ UNCHANGED <<path, puts, uploads, receipt, domainVars, netVars>>

\* upload_bytes or upload_file sends the content, or fails on the local file.
SendWrite(a) ==
    /\ pc[a] = "writing"
    /\ \/ /\ flying' = flying \cup
                {[content |-> Current(a), target |-> existing[a]]}
          /\ Goto(a, "waiting") /\ UNCHANGED result
       \/ Conclude(a, "other") /\ UNCHANGED flying
    /\ UNCHANGED <<receipt, answer, landed, attemptVars, domainVars>>

\* Mutant: the record keeps the id looked up and ignores the one saved.
Saved_KeepsExisting(a) ==
    /\ pc[a] = "waiting" /\ answer[a].saved # NoId
    /\ uploads' = [uploads EXCEPT ![a] =
          [q \in DOMAIN @ \cup {path[a]} |->
             IF q = path[a]
             THEN Item(IF existing[a] = NoId THEN lastId ELSE existing[a], Current(a))
             ELSE @[q]]]
    /\ answer' = [answer EXCEPT ![a] = NoAnswer]
    /\ Goto(a, "running")
    /\ UNCHANGED <<path, existing, puts, result, receipt, flying, landed, domainVars>>

\* The Domain answers with the id it saved the artifact under: record it.
Saved(a) ==
    /\ pc[a] = "waiting" /\ answer[a].saved # NoId
    /\ uploads' = [uploads EXCEPT ![a] =
          [q \in DOMAIN @ \cup {path[a]} |->
             IF q = path[a]
             THEN Item(answer[a].saved, Current(a))
             ELSE @[q]]]
    /\ answer' = [answer EXCEPT ![a] = NoAnswer]
    /\ Goto(a, "running")
    /\ UNCHANGED <<path, existing, puts, result, receipt, flying, landed, domainVars>>

\* The Domain answers with an error.
Rejected(a) ==
    /\ pc[a] = "waiting" /\ answer[a].error # "none"
    /\ Conclude(a, answer[a].error)
    /\ answer' = [answer EXCEPT ![a] = NoAnswer]
    /\ UNCHANGED <<receipt, flying, landed, attemptVars, domainVars>>

\* Mutant: a write that was not answered counts as done.
GiveUp_Optimistic(a) ==
    /\ pc[a] = "waiting"
    /\ uploads' = [uploads EXCEPT ![a] =
          [q \in DOMAIN @ \cup {path[a]} |->
             IF q = path[a]
             THEN Item(IF existing[a] = NoId THEN lastId + 1 ELSE existing[a], Current(a))
             ELSE @[q]]]
    /\ answer' = [answer EXCEPT ![a] = NoAnswer]
    /\ Goto(a, "running")
    /\ UNCHANGED <<path, existing, puts, result, receipt, flying, landed, domainVars>>

\* Mutant: a put whose answer is lost is skipped, and the runner goes on.
GiveUp_Skips(a) ==
    /\ pc[a] = "waiting"
    /\ answer' = [answer EXCEPT ![a] = NoAnswer]
    /\ Goto(a, "running")
    /\ UNCHANGED <<result, receipt, flying, landed, attemptVars, domainVars>>

\* The SDK stops waiting: a timeout or a transport error.  The write may be
\* under way all the same, or already applied.
GiveUp(a) ==
    /\ pc[a] = "waiting"
    /\ Conclude(a, "other")
    /\ answer' = [answer EXCEPT ![a] = NoAnswer]
    /\ UNCHANGED <<receipt, flying, landed, attemptVars, domainVars>>

-----------------------------------------------------------------------------
(* Router::run after the runner.                                           *)

Reported(a) == {uploads[a][p] : p \in DOMAIN uploads[a]}

Tell(a, kind, artifacts) ==
    receipt' = [receipt EXCEPT ![a] = [kind |-> kind, artifacts |-> artifacts]]

\* Router::run returns, and the SDK tells the DMS.  Success and failure both
\* name the recorded uploads; `fail` drops them when the details are too large.
\* The DMS hears nothing when set_failure refuses for another reason, when the
\* request is lost, or when the task was cancelled by then.
Report(a) ==
    /\ pc[a] = "reporting"
    /\ \/ result[a] = "ok" /\ Tell(a, "success", Reported(a))
       \/ result[a] # "ok" /\ Tell(a, "failure", Reported(a))
       \/ result[a] # "ok" /\ Tell(a, "bare_failure", {})
       \/ UNCHANGED receipt
    /\ Goto(a, "done")
    /\ UNCHANGED <<result, attemptVars, domainVars, netVars>>

\* External: the DMS cancels the task or the host interrupts it.  The request
\* under way is given up, the runner fails, and the SDK sends no receipt.
Cancelled(a) ==
    /\ pc[a] \in {"running", "finding", "writing", "waiting"}
    /\ Goto(a, "done") /\ result' = [result EXCEPT ![a] = "other"]
    /\ answer' = [answer EXCEPT ![a] = NoAnswer]
    /\ UNCHANGED <<receipt, flying, landed, attemptVars, domainVars>>

\* The node crashes, or the lease is lost and the attempt dropped.
Crash(a) ==
    /\ pc[a] \notin {"done", "crashed"}
    /\ Goto(a, "crashed")
    /\ answer' = [answer EXCEPT ![a] = NoAnswer]
    /\ UNCHANGED <<result, receipt, flying, landed, attemptVars, domainVars>>

-----------------------------------------------------------------------------
(* External: the Domain.                                                   *)

\* The sender of a write hears of it if it is still waiting.
Answer(w, id, error) ==
    LET a == w.content.by IN
    answer' = IF pc[a] = "waiting"
              THEN [answer EXCEPT ![a] = [saved |-> id, error |-> error]] ELSE answer

Put(i, w) ==
    /\ items' = [j \in DOMAIN items \cup {i} |->
                    IF j = i THEN [key |-> IF i \in DOMAIN items THEN items[i].key
                                           ELSE KeyOf[w.content.path],
                                   content |-> w.content]
                    ELSE items[j]]
    /\ landed' = landed \cup {Item(i, w.content)}
    /\ Answer(w, i, "none")

\* A write by name creates an item; somebody else's put of that key that is
\* under way has met a rival.
LandNew(w) ==
    /\ w \in flying /\ flying' = flying \ {w}
    /\ w.target = NoId /\ Holding(KeyOf[w.content.path]) = {}
    /\ lastId' = lastId + 1
    /\ Put(lastId + 1, w)
    /\ rivals' = rivals \cup
          {a \in Attempts \ {w.content.by} :
             pc[a] \in {"writing", "waiting"} /\ KeyOf[path[a]] = KeyOf[w.content.path]}
    /\ UNCHANGED <<deleted, pc, result, receipt, attemptVars>>

\* A write by id replaces the item's content.
LandById(w) ==
    /\ w \in flying /\ flying' = flying \ {w}
    /\ w.target \in DOMAIN items
    /\ Put(w.target, w)
    /\ UNCHANGED <<lastId, deleted, rivals, pc, result, receipt, attemptVars>>

\* A write by a name that is taken, or by an id that is gone.
Reject(w) ==
    /\ w \in flying /\ flying' = flying \ {w}
    /\ \/ /\ w.target = NoId /\ Holding(KeyOf[w.content.path]) # {}
          /\ Answer(w, NoId, "conflict")
       \/ /\ w.target # NoId /\ w.target \notin DOMAIN items
          /\ Answer(w, NoId, "not_found")
    /\ UNCHANGED <<landed, pc, result, receipt, attemptVars, domainVars>>

\* A write never reaches the Domain, or fails there.
Lose(w) ==
    /\ w \in flying /\ flying' = flying \ {w}
    /\ Answer(w, NoId, "other")
    /\ UNCHANGED <<landed, pc, result, receipt, attemptVars, domainVars>>

\* Somebody else deletes an item.
Delete(i) ==
    /\ i \in DOMAIN items
    /\ items' = Restrict(items, DOMAIN items \ {i})
    /\ deleted' = deleted \cup {i}
    /\ UNCHANGED <<lastId, rivals, pc, result, receipt, attemptVars, netVars>>

-----------------------------------------------------------------------------
Attempt(a) ==
    \/ Setup(a) \/ RunnerReturns(a)
    \/ \E p \in Paths : \E explicit \in {NoId} \cup Holding(KeyOf[p]) :
          BeginPut(a, p, explicit)
    \/ Find(a) \/ SendWrite(a) \/ Saved(a) \/ Rejected(a) \/ GiveUp(a)
    \/ Report(a) \/ Cancelled(a)

Domain ==
    \/ \E w \in flying : LandNew(w) \/ LandById(w) \/ Reject(w) \/ Lose(w)
    \/ \E i \in DOMAIN items : Delete(i)

Next == (\E a \in Attempts : Attempt(a) \/ Crash(a)) \/ Domain

Spec == Init /\ [][Next]_vars

-----------------------------------------------------------------------------
(* Properties.                                                             *)

\* Whatever is reported to the DMS, in success or failure, is an item that
\* the Domain did save under that id from that very put, and that has the
\* name the put asked for unless somebody deleted it.
ReceiptNamesSavedItems ==
    \A a \in Attempts : \A r \in receipt[a].artifacts :
        /\ r \in landed
        /\ r.id \in deleted \/ items[r.id].key = KeyOf[r.content.path]

\* After a success, the reported item holds what this attempt put last under
\* that path, or something another attempt put.  Two paths whose keys collide
\* are excepted: there the later put replaces the earlier one.
SuccessReceiptIsCurrent ==
    \A a \in Attempts : receipt[a].kind = "success" =>
        \A r \in receipt[a].artifacts :
            \/ r.id \in deleted
            \/ items[r.id].content = r.content
            \/ items[r.id].content.by # a
            \/ \E p \in Paths \ {r.content.path} : KeyOf[p] = KeyOf[r.content.path]

\* A success leaves nothing out: for every write of the attempt that the
\* Domain has ever applied, the receipt names what that path was put with last
\* ("Domain data goes through `io` so uploads land in the DMS receipt",
\* router.rs 9).  A write that lands unheard of makes its attempt fail.
SuccessReceiptIsComplete ==
    \A a \in Attempts : receipt[a].kind = "success" =>
        \A r \in landed : r.content.by = a =>
            \E q \in receipt[a].artifacts :
                /\ q.content.path = r.content.path
                /\ q.content.number >= r.content.number

\* A retry is idempotent: a put is refused as a conflict only if another
\* attempt created the same key while this put was under way, and not because
\* an earlier attempt has left its artifact behind.
ConflictOnlyWithRival ==
    \A a \in Attempts : result[a] = "conflict" => a \in rivals

\* A put addresses an item that is gone only if somebody deleted it: no put
\* works with an id that was never handed out.
NotFoundOnlyAfterDelete ==
    \A a \in Attempts : result[a] = "not_found" => existing[a] \in deleted

-----------------------------------------------------------------------------
(* The inductive invariant behind the safety properties.                   *)

\* An id stands for a key for good.
IsFor(i, k) == i \in deleted \/ (i \in DOMAIN items /\ items[i].key = k)

\* The item holds this content, unless something else than a later put of the
\* same attempt and path is the reason.
Holds(i, content) ==
    \/ i \in deleted
    \/ items[i].content = content
    \/ items[i].content.by # content.by
    \/ \E p \in Paths \ {content.path} : KeyOf[p] = KeyOf[content.path]

\* A put by name, after the look-up found none.
StillFree(a) == a \in rivals \/ Holding(KeyOf[path[a]]) = {}

LandInv == \A r \in landed : IsFor(r.id, KeyOf[r.content.path])

\* A write is the one its attempt waits for, or that has failed.
FlyInv ==
    \A w \in flying :
        LET a == w.content.by IN
        /\ w.target # NoId => IsFor(w.target, KeyOf[w.content.path])
        /\ \/ /\ pc[a] = "waiting" /\ answer[a] = NoAnswer
              /\ w.content = Current(a) /\ w.target = existing[a]
              /\ w.target = NoId => StillFree(a)
           \/ pc[a] \in {"reporting", "done", "crashed"} /\ result[a] # "ok"

PutInv ==
    \A a \in Attempts :
        /\ pc[a] \in {"finding", "writing", "waiting"} => puts[a] > 0
        /\ pc[a] = "writing" =>
              IF existing[a] = NoId THEN StillFree(a) ELSE IsFor(existing[a], KeyOf[path[a]])

AnswerInv ==
    \A a \in Attempts :
        /\ pc[a] # "waiting" => answer[a] = NoAnswer
        /\ answer[a].saved # NoId =>
              Item(answer[a].saved, Current(a)) \in landed /\ Holds(answer[a].saved, Current(a))
        /\ answer[a].error = "conflict" => a \in rivals
        /\ answer[a].error = "not_found" => existing[a] \in deleted

ResultInv ==
    \A a \in Attempts :
        /\ result[a] # "none" => pc[a] \in {"reporting", "done", "crashed"}
        /\ result[a] = "conflict" => a \in rivals
        /\ result[a] = "not_found" => existing[a] \in deleted

\* What is recorded for a path landed from a put of that path, and is there
\* unless a put of the path is under way or the attempt has failed.
RecordInv ==
    \A a \in Attempts : \A p \in DOMAIN uploads[a] :
        /\ uploads[a][p] \in landed
        /\ uploads[a][p].content.by = a /\ uploads[a][p].content.path = p
        /\ \/ Holds(uploads[a][p].id, uploads[a][p].content)
           \/ pc[a] = "waiting" /\ path[a] = p
           \/ pc[a] \in {"reporting", "done", "crashed"} /\ result[a] # "ok"

\* What has landed of an attempt is recorded, or superseded by what is, unless
\* the attempt still waits to hear of it or has failed.
CompleteInv ==
    \A r \in landed :
        LET a == r.content.by
            p == r.content.path
        IN
        \/ /\ p \in DOMAIN uploads[a]
           /\ uploads[a][p].content.number >= r.content.number
        \/ pc[a] = "waiting" /\ r.content = Current(a)
        \/ pc[a] \in {"reporting", "done", "crashed"} /\ result[a] # "ok"

\* No record is from a put yet to come.
NumberInv ==
    \A a \in Attempts : \A p \in DOMAIN uploads[a] :
        uploads[a][p].content.number <= puts[a]

ReceiptInv ==
    \A a \in Attempts :
        /\ receipt[a].kind # "none" => pc[a] = "done"
        /\ receipt[a].kind = "success" => result[a] = "ok"
        /\ receipt[a].kind = "success" => receipt[a].artifacts = Reported(a)
        /\ receipt[a].artifacts \subseteq Reported(a)
        /\ receipt[a].kind = "none" => receipt[a].artifacts = {}

IInv ==
    /\ TypeOK /\ LandInv /\ FlyInv /\ PutInv /\ AnswerInv
    /\ ResultInv /\ RecordInv /\ CompleteInv /\ NumberInv /\ ReceiptInv
=============================================================================
