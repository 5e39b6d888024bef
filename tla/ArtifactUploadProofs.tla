------------------------ MODULE ArtifactUploadProofs ------------------------
(***************************************************************************)
(* Proofs about ArtifactUpload.  The safety properties relate what an      *)
(* attempt has recorded, the writes it has in flight and the Domain's      *)
(* items; IInv states those relations, and one lemma per conjunct of it    *)
(* says that a step keeps it.  Steps are split into those of an attempt,   *)
(* which leave the Domain and the others alone, and those of the Domain,   *)
(* which leave the attempts alone.                                         *)
(***************************************************************************)
EXTENDS ArtifactUpload, TLAPS

USE UploadAssumption

\* What an attempt's own step leaves alone.
Others(a) ==
    /\ UNCHANGED <<items, deleted, landed, lastId>>
    /\ \A b \in Attempts \ {a} :
          /\ pc'[b] = pc[b] /\ path'[b] = path[b] /\ existing'[b] = existing[b]
          /\ puts'[b] = puts[b] /\ uploads'[b] = uploads[b] /\ result'[b] = result[b]
          /\ receipt'[b] = receipt[b] /\ answer'[b] = answer[b]
          /\ b \in rivals' <=> b \in rivals

\* A step of an attempt leaves the Domain and the other attempts alone: each
\* lease has a Router::run and a TaskIo of its own.
LEMMA OthersKept ==
    ASSUME TypeOK, NEW a \in Attempts, Attempt(a) \/ Crash(a) PROVE Others(a)
  <1>1. CASE Setup(a) \/ RunnerReturns(a)
    BY <1>1 DEF TypeOK, Setup, RunnerReturns, Conclude, Goto, Others, attemptVars, domainVars, netVars
  <1>2. ASSUME NEW p \in Paths, NEW explicit \in {NoId} \cup Holding(KeyOf[p]), BeginPut(a, p, explicit)
        PROVE Others(a)
    BY <1>2 DEF TypeOK, BeginPut, Goto, Others, netVars
  <1>3. CASE Find(a)
    BY <1>3 DEF TypeOK, Find, Conclude, Goto, Others, domainVars, netVars
  <1>4. CASE SendWrite(a)
    BY <1>4 DEF TypeOK, SendWrite, Conclude, Goto, Others, attemptVars, domainVars
  <1>5. CASE Saved(a)
    BY <1>5 DEF TypeOK, Saved, Goto, Others, domainVars
  <1>6. CASE Rejected(a) \/ GiveUp(a) \/ Cancelled(a) \/ Crash(a)
    BY <1>6 DEF TypeOK, Rejected, GiveUp, Cancelled, Crash, Conclude, Goto, Others, attemptVars, domainVars
  <1>7. CASE Report(a)
    BY <1>7 DEF TypeOK, Report, Tell, Goto, Others, attemptVars, domainVars, netVars
  <1> QED
    BY <1>1, <1>2, <1>3, <1>4, <1>5, <1>6, <1>7 DEF Attempt

\* What a step of the Domain leaves alone, and what it keeps.
AttemptsKept ==
    /\ UNCHANGED <<pc, path, existing, puts, uploads, result, receipt>>
    /\ flying' \subseteq flying /\ landed \subseteq landed' /\ rivals \subseteq rivals'
    /\ deleted \subseteq deleted' /\ lastId' >= lastId

\* A step of the Domain leaves the attempts alone, and forgets neither a write
\* it has applied nor an item that was deleted.
LEMMA DomainKeeps ==
    ASSUME TypeOK, Domain PROVE AttemptsKept
  <1>1. ASSUME NEW w \in flying, LandNew(w) \/ LandById(w) PROVE AttemptsKept
    BY <1>1 DEF TypeOK, LandNew, LandById, Put, attemptVars, AttemptsKept
  <1>2. ASSUME NEW w \in flying, Reject(w) \/ Lose(w) PROVE AttemptsKept
    BY <1>2 DEF TypeOK, Reject, Lose, attemptVars, domainVars, AttemptsKept
  <1>3. ASSUME NEW i \in DOMAIN items, Delete(i) PROVE AttemptsKept
    BY <1>3 DEF TypeOK, Delete, attemptVars, netVars, AttemptsKept
  <1> QED
    BY <1>1, <1>2, <1>3 DEF Domain

\* An id stands for a key until the item is deleted: a write by id keeps the
\* name of the item.
LEMMA IdStays ==
    ASSUME TypeOK, Domain, NEW i, NEW k, IsFor(i, k) PROVE IsFor(i, k)'
  <1>1. CASE i \in deleted
    BY <1>1, DomainKeeps DEF IsFor, AttemptsKept
  <1>2. CASE i \in DOMAIN items /\ items[i].key = k
    <2>0. i # lastId + 1
      BY <1>2 DEF TypeOK
    <2>1. ASSUME NEW w \in flying, NEW j, j = i \/ i # j,
                 items' = [l \in DOMAIN items \cup {j} |->
                    IF l = j THEN [key |-> IF j \in DOMAIN items THEN items[j].key
                                           ELSE KeyOf[w.content.path],
                                   content |-> w.content]
                    ELSE items[l]]
          PROVE i \in DOMAIN items' /\ items'[i].key = k
      BY <1>2, <2>1
    <2>2. ASSUME NEW w \in flying, LandNew(w) \/ LandById(w) PROVE IsFor(i, k)'
      BY <2>1, <2>2 DEF LandNew, LandById, Put, IsFor
    <2>3. ASSUME NEW w \in flying, Reject(w) \/ Lose(w) PROVE IsFor(i, k)'
      BY <1>2, <2>3 DEF Reject, Lose, domainVars, IsFor
    <2>4. ASSUME NEW j \in DOMAIN items, Delete(j) PROVE IsFor(i, k)'
      BY <1>2, <2>4 DEF Delete, Restrict, IsFor
    <2> QED
      BY <2>2, <2>3, <2>4 DEF Domain
  <1> QED
    BY <1>1, <1>2 DEF IsFor

\* Ids are below the last one handed out.
LEMMA IdBound ==
    ASSUME TypeOK, NEW i, NEW k, IsFor(i, k) PROVE i \in 1..lastId
  BY DEF TypeOK, IsFor

\* A key that no item has stays free unless a write by name lands under it.
LEMMA FreeStays ==
    ASSUME TypeOK, Domain, NEW k, Holding(k) = {}
    PROVE Holding(k)' = {} \/ \E w \in flying : LandNew(w) /\ KeyOf[w.content.path] = k
  <1>1. \A i \in DOMAIN items : items[i].key # k
    BY DEF Holding
  <1>2. ASSUME NEW w \in flying, LandNew(w), KeyOf[w.content.path] # k PROVE Holding(k)' = {}
    <2>1. lastId + 1 \notin DOMAIN items
      BY DEF TypeOK
    <2>2. \A i \in DOMAIN items' : items'[i].key # k
      BY <1>1, <1>2, <2>1 DEF LandNew, Put
    <2> QED
      BY <2>2 DEF Holding
  <1>3. ASSUME NEW w \in flying, LandById(w) PROVE Holding(k)' = {}
    <2>1. \A i \in DOMAIN items' : items'[i].key # k
      BY <1>1, <1>3 DEF LandById, Put
    <2> QED
      BY <2>1 DEF Holding
  <1>4. ASSUME NEW w \in flying, Reject(w) \/ Lose(w) PROVE Holding(k)' = {}
    BY <1>4 DEF Reject, Lose, domainVars, Holding
  <1>5. ASSUME NEW i \in DOMAIN items, Delete(i) PROVE Holding(k)' = {}
    <2>1. \A j \in DOMAIN items' : items'[j].key # k
      BY <1>1, <1>5 DEF Delete, Restrict
    <2> QED
      BY <2>1 DEF Holding
  <1> QED
    BY <1>2, <1>3, <1>4, <1>5 DEF Domain

\* Only the attempt that waits for the write hears of it.
LEMMA Answered ==
    ASSUME TypeOK, NEW w \in flying, NEW id, NEW error, Answer(w, id, error)
    PROVE \A b \in Attempts :
             answer'[b] = IF b = w.content.by /\ pc[b] = "waiting"
                          THEN [saved |-> id, error |-> error] ELSE answer[b]
  BY DEF TypeOK, Answer

\* The content of a put under way.
LEMMA CurrentType ==
    ASSUME TypeOK, PutInv, NEW a \in Attempts, pc[a] \in {"finding", "writing", "waiting"}
    PROVE Current(a) \in Contents
  <1>1. puts[a] \in 1..MaxPuts /\ path[a] \in Paths
    BY DEF TypeOK, PutInv
  <1> QED
    BY <1>1 DEF Current, Contents

\* What has landed keeps its key: a write by id reaches an item of the key it
\* was meant for.
LEMMA LandStep ==
    ASSUME IInv, Next PROVE LandInv'
  <1>0. TypeOK /\ LandInv /\ FlyInv
    BY DEF IInv
  <1>1. ASSUME NEW a \in Attempts, Attempt(a) \/ Crash(a) PROVE LandInv'
    BY <1>0, <1>1, OthersKept DEF LandInv, IsFor, Others
  <1>2. CASE Domain
    <2>1. ASSUME NEW r \in landed PROVE IsFor(r.id, KeyOf[r.content.path])'
      BY <1>0, <1>2, IdStays DEF LandInv
    <2>2. ASSUME NEW w \in flying, LandNew(w)
          PROVE \A r \in landed' : r \in landed \/ IsFor(r.id, KeyOf[r.content.path])'
      <3>1. lastId + 1 \notin DOMAIN items
        BY <1>0 DEF TypeOK
      <3>2. landed' = landed \cup {Item(lastId + 1, w.content)}
        BY <2>2 DEF LandNew, Put
      <3>3. lastId + 1 \in DOMAIN items' /\ items'[lastId + 1].key = KeyOf[w.content.path]
        BY <2>2, <3>1 DEF LandNew, Put
      <3>4. Item(lastId + 1, w.content).id = lastId + 1 /\ Item(lastId + 1, w.content).content = w.content
        BY DEF Item
      <3> QED
        BY <3>2, <3>3, <3>4 DEF IsFor
    <2>3. ASSUME NEW w \in flying, LandById(w)
          PROVE \A r \in landed' : r \in landed \/ IsFor(r.id, KeyOf[r.content.path])'
      <3>1. w.target # NoId
        BY <1>0, <2>3 DEF LandById, TypeOK, NoId
      <3>2. IsFor(w.target, KeyOf[w.content.path])
        BY <1>0, <3>1 DEF FlyInv
      <3>3. IsFor(w.target, KeyOf[w.content.path])'
        BY <1>0, <1>2, <3>2, IdStays
      <3>4. landed' = landed \cup {Item(w.target, w.content)}
        BY <2>3 DEF LandById, Put
      <3>5. Item(w.target, w.content).id = w.target /\ Item(w.target, w.content).content = w.content
        BY DEF Item
      <3> QED
        BY <3>3, <3>4, <3>5
    <2>5. (\E w \in flying : LandNew(w) \/ LandById(w)) \/ landed' = landed
      BY <1>2 DEF Domain, Reject, Lose, Delete, netVars
    <2> QED
      BY <2>1, <2>2, <2>3, <2>5 DEF LandInv
  <1> QED
    BY <1>1, <1>2 DEF Next

\* A result is final; it says conflict or not found because the Domain's
\* answer did.
LEMMA ResultStep ==
    ASSUME IInv, Next PROVE ResultInv'
  <1>0. TypeOK /\ ResultInv /\ AnswerInv
    BY DEF IInv
  <1>1. ASSUME NEW a \in Attempts, Attempt(a) \/ Crash(a) PROVE ResultInv'
    <2> DEFINE Good(b) == /\ result'[b] # "none" => pc'[b] \in {"reporting", "done", "crashed"}
                          /\ result'[b] = "conflict" => b \in rivals'
                          /\ result'[b] = "not_found" => existing'[b] \in deleted'
    <2>0. Others(a)
      BY <1>0, <1>1, OthersKept
    <2>1. \A b \in Attempts \ {a} : Good(b)
      BY <1>0, <2>0 DEF ResultInv, Others
    <2>2. ASSUME Setup(a) \/ RunnerReturns(a) \/ Report(a) PROVE Good(a)
      BY <1>0, <2>2 DEF TypeOK, ResultInv, Setup, RunnerReturns, Report, Conclude, Goto,
                        attemptVars, domainVars, netVars
    <2>3. ASSUME NEW p \in Paths, NEW explicit \in {NoId} \cup Holding(KeyOf[p]),
                 BeginPut(a, p, explicit) PROVE Good(a)
      BY <1>0, <2>3 DEF TypeOK, ResultInv, BeginPut
    <2>4. ASSUME Find(a) \/ SendWrite(a) PROVE Good(a)
      BY <1>0, <2>4 DEF TypeOK, ResultInv, Find, SendWrite, Conclude, Goto
    <2>5. ASSUME Saved(a) \/ GiveUp(a) \/ Cancelled(a) \/ Crash(a) PROVE Good(a)
      BY <1>0, <2>5 DEF TypeOK, ResultInv, Saved, GiveUp, Cancelled, Crash, Conclude, Goto, attemptVars, domainVars
    <2>6. ASSUME Rejected(a) PROVE Good(a)
      BY <1>0, <2>6 DEF TypeOK, AnswerInv, Rejected, Conclude, Goto, attemptVars, domainVars
    <2>7. Good(a)
      BY <1>1, <2>2, <2>3, <2>4, <2>5, <2>6 DEF Attempt
    <2> QED
      BY <2>1, <2>7 DEF ResultInv
  <1>2. CASE Domain
    BY <1>0, <1>2, DomainKeeps DEF ResultInv, AttemptsKept
  <1> QED
    BY <1>1, <1>2 DEF Next

\* The receipt holds what was recorded, and is sent once, at the end.
LEMMA ReceiptStep ==
    ASSUME IInv, Next PROVE ReceiptInv'
  <1>0. TypeOK /\ ReceiptInv
    BY DEF IInv
  <1>1. ASSUME NEW a \in Attempts, Attempt(a) \/ Crash(a) PROVE ReceiptInv'
    <2> DEFINE Good(b) == /\ receipt'[b].kind # "none" => pc'[b] = "done"
                          /\ receipt'[b].kind = "success" => result'[b] = "ok"
                          /\ receipt'[b].kind = "success" => receipt'[b].artifacts = Reported(b)'
                          /\ receipt'[b].artifacts \subseteq Reported(b)'
                          /\ receipt'[b].kind = "none" => receipt'[b].artifacts = {}
    <2>0. Others(a)
      BY <1>0, <1>1, OthersKept
    <2>1. \A b \in Attempts \ {a} : Good(b)
      BY <1>0, <2>0 DEF ReceiptInv, Others, Reported
    <2>2. ASSUME Report(a) PROVE Good(a)
      <3>1. pc[a] = "reporting" /\ pc'[a] = "done" /\ uploads' = uploads /\ result' = result
        BY <1>0, <2>2 DEF Report, Goto, TypeOK, attemptVars
      <3>2. Reported(a)' = Reported(a)
        BY <3>1 DEF Reported
      <3>3. ASSUME NEW kind \in {"success", "failure", "bare_failure"},
                   NEW artifacts \in {{}, Reported(a)},
                   receipt' = [receipt EXCEPT ![a] = [kind |-> kind, artifacts |-> artifacts]],
                   kind = "success" => result[a] = "ok" /\ artifacts = Reported(a)
            PROVE Good(a)
        <4>1. receipt'[a].kind = kind /\ receipt'[a].artifacts = artifacts
          BY <1>0, <3>3 DEF TypeOK
        <4> QED
          BY <3>1, <3>2, <3>3, <4>1
      <3>4. CASE UNCHANGED receipt
        BY <1>0, <3>1, <3>4 DEF ReceiptInv
      <3> QED
        BY <2>2, <3>3, <3>4 DEF Report, Tell
    <2>3. (receipt[a].kind = "none" /\ receipt' = receipt) \/ Report(a)
      BY <1>0, <1>1 DEF TypeOK, ReceiptInv, Attempt, Setup, RunnerReturns, BeginPut, Find, SendWrite,
                        Saved, Rejected, GiveUp, Cancelled, Crash
    <2>4. Good(a)
      BY <1>0, <2>2, <2>3 DEF ReceiptInv
    <2> QED
      BY <2>1, <2>4 DEF ReceiptInv
  <1>2. CASE Domain
    BY <1>0, <1>2, DomainKeeps DEF ReceiptInv, AttemptsKept, Reported
  <1> QED
    BY <1>1, <1>2 DEF Next

\* A put goes on to write either by an id of its key, or by a name the look-up
\* found free and only a rival can have taken since.
LEMMA PutStep ==
    ASSUME IInv, Next PROVE PutInv'
  <1> DEFINE Good(b) ==
         /\ pc'[b] \in {"finding", "writing", "waiting"} => puts'[b] > 0
         /\ pc'[b] = "writing" =>
              IF existing'[b] = NoId THEN StillFree(b)' ELSE IsFor(existing[b], KeyOf[path[b]])'
  <1>0. TypeOK /\ PutInv /\ RecordInv /\ LandInv /\ FlyInv
    BY DEF IInv
  <1>1. ASSUME NEW a \in Attempts, Attempt(a) \/ Crash(a), NEW b \in Attempts PROVE Good(b)
    <2>0. Others(a)
      BY <1>0, <1>1, OthersKept
    <2>1. CASE b # a
      <3>1. /\ pc'[b] = pc[b] /\ path'[b] = path[b] /\ existing'[b] = existing[b] /\ puts'[b] = puts[b]
            /\ (b \in rivals' <=> b \in rivals) /\ UNCHANGED <<items, deleted>>
        BY <2>0, <2>1 DEF Others
      <3> QED
        BY <1>0, <3>1 DEF PutInv, StillFree, Holding, IsFor
    <2>2. ASSUME NEW p \in Paths, NEW explicit \in {NoId} \cup Holding(KeyOf[p]),
                 BeginPut(a, p, explicit) PROVE Good(a)
      <3>1. /\ puts'[a] > 0 /\ path'[a] = p /\ existing'[a] = KnownId(a, p, explicit)
            /\ pc'[a] = (IF existing'[a] = NoId THEN "finding" ELSE "writing")
        BY <1>0, <2>2 DEF TypeOK, BeginPut, Goto
      <3>2. ASSUME explicit # NoId PROVE IsFor(explicit, KeyOf[p])
        BY <3>2 DEF Holding, IsFor
      <3>3. ASSUME p \in DOMAIN uploads[a] PROVE IsFor(uploads[a][p].id, KeyOf[p])
        BY <1>0, <3>3 DEF RecordInv, LandInv
      <3>4. KnownId(a, p, explicit) # NoId => IsFor(KnownId(a, p, explicit), KeyOf[p])
        BY <3>2, <3>3 DEF KnownId
      <3> QED
        BY <2>0, <3>1, <3>4 DEF Others, IsFor
    <2>3. ASSUME Find(a) PROVE Good(a)
      <3> DEFINE found == Holding(KeyOf[path[a]])
      <3>1. CASE pc'[a] = "writing"
        <4>1. /\ existing'[a] = IF found = {} THEN NoId ELSE CHOOSE i \in found : TRUE
              /\ puts' = puts /\ path' = path /\ pc[a] = "finding"
          BY <1>0, <2>3, <3>1 DEF Find, Conclude, Goto, TypeOK
        <4>2. CASE found = {}
          <5>1. Holding(KeyOf[path[a]])' = {}
            BY <2>0, <4>1, <4>2 DEF Others, Holding
          <5> QED
            BY <1>0, <4>1, <4>2, <5>1 DEF PutInv, StillFree
        <4>3. CASE found # {}
          <5>1. existing'[a] \in found
            BY <4>1, <4>3
          <5>2. existing'[a] \in DOMAIN items /\ items[existing'[a]].key = KeyOf[path[a]]
            BY <5>1 DEF Holding
          <5>3. existing'[a] # NoId
            BY <1>0, <5>2 DEF TypeOK, NoId
          <5> QED
            BY <1>0, <2>0, <4>1, <5>2, <5>3 DEF PutInv, IsFor, Others
        <4> QED
          BY <4>2, <4>3
      <3>2. CASE pc'[a] # "writing"
        BY <1>0, <2>3, <3>2 DEF Find, Conclude, Goto, TypeOK
      <3> QED
        BY <3>1, <3>2
    <2>4. ASSUME SendWrite(a) PROVE Good(a)
      BY <1>0, <2>4 DEF SendWrite, Conclude, Goto, TypeOK, PutInv, attemptVars
    <2>5. ASSUME Setup(a) \/ RunnerReturns(a) \/ Saved(a) \/ Rejected(a) \/ GiveUp(a) \/ Cancelled(a) \/ Report(a) \/ Crash(a)
          PROVE Good(a)
      <3>1. pc'[a] \in {"running", "reporting", "done", "crashed"}
        BY <1>0, <2>5 DEF Setup, RunnerReturns, Saved, Rejected, GiveUp, Cancelled, Report, Crash, Conclude, Goto, TypeOK
      <3> QED
        BY <3>1
    <2> QED
      BY <1>1, <2>1, <2>2, <2>3, <2>4, <2>5 DEF Attempt
  <1>2. ASSUME Domain, NEW b \in Attempts PROVE Good(b)
    <2>1. UNCHANGED <<pc, path, existing, puts>> /\ rivals \subseteq rivals'
      BY <1>0, <1>2, DomainKeeps DEF AttemptsKept
    <2>2. ASSUME pc[b] = "writing", StillFree(b) PROVE StillFree(b)'
      <3>1. ASSUME NEW w \in flying, LandNew(w), KeyOf[w.content.path] = KeyOf[path[b]]
            PROVE b \in rivals'
        <4>1. w.content.by # b
          BY <1>0, <2>2 DEF FlyInv
        <4> QED
          BY <2>2, <3>1, <4>1 DEF LandNew
      <3> QED
        BY <1>0, <1>2, <2>1, <2>2, <3>1, FreeStays DEF StillFree, Holding
    <2>3. ASSUME IsFor(existing[b], KeyOf[path[b]]) PROVE IsFor(existing[b], KeyOf[path[b]])'
      BY <1>0, <1>2, <2>1, <2>3, IdStays DEF IsFor
    <2> QED
      BY <1>0, <2>1, <2>2, <2>3 DEF PutInv
  <1> QED
    BY <1>1, <1>2 DEF Next, PutInv

\* A write under way belongs to the put that waits for it, or to an attempt
\* that has given up.
LEMMA FlyStep ==
    ASSUME IInv, Next PROVE FlyInv'
  <1> DEFINE Good(w) ==
         LET a == w.content.by IN
         /\ w.target # NoId => IsFor(w.target, KeyOf[w.content.path])
         /\ \/ /\ pc[a] = "waiting" /\ answer[a] = NoAnswer
               /\ w.content = Current(a) /\ w.target = existing[a]
               /\ w.target = NoId => StillFree(a)
            \/ pc[a] \in {"reporting", "done", "crashed"} /\ result[a] # "ok"
  <1>0. TypeOK /\ FlyInv /\ PutInv /\ ResultInv /\ AnswerInv
    BY DEF IInv
  <1>1. \A w \in flying : Good(w)
    BY <1>0 DEF FlyInv
  <1>2. \A w \in flying : w.content.by \in Attempts
    BY <1>0 DEF TypeOK, Writes, Contents
  <1>3. ASSUME NEW a \in Attempts, Attempt(a) \/ Crash(a) PROVE \A w \in flying' : Good(w)'
    <2>0. Others(a)
      BY <1>0, <1>3, OthersKept
    <2>1. ASSUME NEW w \in flying, w.content.by # a PROVE Good(w)'
      <3> DEFINE b == w.content.by
      <3>1. b \in Attempts \ {a}
        BY <1>2, <2>1
      <3> HIDE DEF b
      <3>2. /\ pc'[b] = pc[b] /\ path'[b] = path[b] /\ existing'[b] = existing[b] /\ puts'[b] = puts[b]
            /\ answer'[b] = answer[b] /\ result'[b] = result[b]
            /\ (b \in rivals' <=> b \in rivals) /\ UNCHANGED <<items, deleted>>
        BY <2>0, <3>1 DEF Others
      <3>3. Current(b)' = Current(b) /\ (StillFree(b) => StillFree(b)')
            /\ (IsFor(w.target, KeyOf[w.content.path]) => IsFor(w.target, KeyOf[w.content.path])')
        BY <3>2 DEF Current, StillFree, Holding, IsFor
      <3> QED
        BY <1>1, <3>2, <3>3 DEF b, NoAnswer
    <2>2. ASSUME NEW w \in flying, w.content.by = a PROVE pc'[a] \in {"reporting", "done", "crashed"} /\ result'[a] # "ok"
      <3>1. \/ pc[a] = "waiting" /\ answer[a] = NoAnswer /\ result[a] = "none"
            \/ pc[a] \in {"reporting", "done", "crashed"} /\ result[a] # "ok"
        BY <1>0, <1>1, <2>2 DEF ResultInv
      <3>2. NoAnswer.saved = NoId /\ NoAnswer.error = "none"
        BY DEF NoAnswer
      <3>3. ~Saved(a) /\ ~Rejected(a)
        BY <3>1, <3>2 DEF Saved, Rejected
      <3>4. GiveUp(a) \/ Cancelled(a) \/ Report(a) \/ Crash(a)
        BY <1>3, <3>1, <3>3 DEF Attempt, Setup, RunnerReturns, BeginPut, Find, SendWrite
      <3> QED
        BY <1>0, <3>1, <3>4 DEF GiveUp, Cancelled, Report, Crash, Conclude, Goto, TypeOK
    <2>3. ASSUME NEW w \in flying, w.content.by = a PROVE Good(w)'
      BY <1>1, <2>0, <2>2, <2>3 DEF Others, IsFor
    <2>4. ASSUME NEW w \in flying', w \notin flying PROVE Good(w)'
      <3>1. SendWrite(a)
        BY <1>3, <2>4 DEF Attempt, Setup, RunnerReturns, BeginPut, Find, Saved, Rejected, GiveUp, Cancelled, Report, Crash, netVars
      <3>2. /\ w = [content |-> Current(a), target |-> existing[a]]
            /\ pc[a] = "writing" /\ pc'[a] = "waiting"
            /\ UNCHANGED <<answer, path, existing, puts, items, deleted, rivals>>
        BY <1>0, <2>4, <3>1 DEF SendWrite, Goto, TypeOK, attemptVars, domainVars
      <3>3. w.content = Current(a) /\ w.target = existing[a] /\ Current(a)' = Current(a)
        BY <3>2 DEF Current
      <3>4. w.content.by = a /\ w.content.path = path[a]
        BY <3>3 DEF Current
      <3>5. answer'[a] = NoAnswer
        BY <1>0, <3>2 DEF AnswerInv
      <3>6. IF existing[a] = NoId THEN StillFree(a) ELSE IsFor(existing[a], KeyOf[path[a]])
        BY <1>0, <3>2 DEF PutInv
      <3>7. /\ StillFree(a)' = StillFree(a)
            /\ IsFor(w.target, KeyOf[w.content.path])' = IsFor(w.target, KeyOf[w.content.path])
        BY <3>2 DEF StillFree, Holding, IsFor
      <3> QED
        BY <3>2, <3>3, <3>4, <3>5, <3>6, <3>7 DEF NoAnswer
    <2> QED
      BY <2>1, <2>3, <2>4
  <1>4. CASE Domain
    <2>1. AttemptsKept
      BY <1>0, <1>4, DomainKeeps
    <2>2. ASSUME NEW v \in flying' PROVE Good(v)'
      <3> DEFINE b == v.content.by
      <3>1. v \in flying /\ b \in Attempts
        BY <1>2, <2>1 DEF AttemptsKept
      <3>2. v.target # NoId => IsFor(v.target, KeyOf[v.content.path])'
        BY <1>0, <1>1, <1>4, <3>1, IdStays
      <3>3. CASE pc[b] \in {"reporting", "done", "crashed"} /\ result[b] # "ok"
        BY <2>1, <3>2, <3>3 DEF AttemptsKept
      <3>4. CASE /\ pc[b] = "waiting" /\ answer[b] = NoAnswer
                 /\ v.content = Current(b) /\ v.target = existing[b]
                 /\ v.target = NoId => StillFree(b)
        <4>1. ASSUME NEW w \in flying, w \notin flying' PROVE w.content.by # b
          <5>1. SUFFICES ASSUME w.content.by = b PROVE FALSE
            OBVIOUS
          <5>2. w.content = v.content /\ w.target = v.target
            BY <1>1, <3>4, <5>1
          <5>3. w = v
            BY <1>0, <3>1, <5>2 DEF TypeOK, Writes
          <5> QED
            BY <4>1, <5>3
        <4>2. answer'[b] = NoAnswer
          <5>1. ASSUME NEW w \in flying, LandNew(w) \/ LandById(w) \/ Reject(w) \/ Lose(w)
                PROVE answer'[b] = answer[b]
            <6>1. w \notin flying' /\ \E id, error : Answer(w, id, error)
              BY <5>1 DEF LandNew, LandById, Reject, Lose, Put
            <6> QED
              BY <1>0, <3>1, <4>1, <6>1, Answered
          <5>2. ASSUME NEW i \in DOMAIN items, Delete(i) PROVE answer' = answer
            BY <5>2 DEF Delete, netVars
          <5> QED
            BY <1>4, <3>4, <5>1, <5>2 DEF Domain
        <4>3. v.target = NoId => StillFree(b)'
          <5>1. SUFFICES ASSUME StillFree(b) PROVE StillFree(b)'
            BY <3>4
          <5>2. ASSUME NEW w \in flying, LandNew(w), KeyOf[w.content.path] = KeyOf[path[b]]
                PROVE b \in rivals'
            <6>1. w \notin flying'
              BY <5>2 DEF LandNew
            <6> QED
              BY <3>1, <3>4, <4>1, <5>2, <6>1 DEF LandNew
          <5>3. path' = path /\ rivals \subseteq rivals'
            BY <2>1 DEF AttemptsKept
          <5> QED
            BY <1>0, <1>4, <5>1, <5>2, <5>3, FreeStays DEF StillFree, Holding
        <4>4. Current(b)' = Current(b) /\ UNCHANGED <<pc, existing>>
          BY <2>1 DEF AttemptsKept, Current
        <4> QED
          BY <3>2, <3>4, <4>2, <4>3, <4>4 DEF NoAnswer
      <3> QED
        BY <1>1, <3>1, <3>3, <3>4
    <2> QED
      BY <2>2 DEF FlyInv
  <1> QED
    BY <1>3, <1>4 DEF Next, FlyInv

\* What an item holds stays, unless another write of the same attempt lands on it.
LEMMA ContentStays ==
    ASSUME TypeOK, Domain, NEW i \in DOMAIN items, NEW c,
           items[i].content = c \/ items[i].content.by # c.by,
           \A w \in flying : LandById(w) /\ w.target = i => w.content.by # c.by
    PROVE i \in deleted' \/ items'[i].content = c \/ items'[i].content.by # c.by
  <1>0. i # lastId + 1
    BY DEF TypeOK
  <1>1. ASSUME NEW w \in flying, LandNew(w) PROVE items'[i] = items[i]
    BY <1>0, <1>1 DEF LandNew, Put
  <1>2. ASSUME NEW w \in flying, LandById(w)
        PROVE items'[i].content = IF i = w.target THEN w.content ELSE items[i].content
    BY <1>2 DEF LandById, Put
  <1>3. ASSUME NEW w \in flying, Reject(w) \/ Lose(w) PROVE items'[i] = items[i]
    BY <1>3 DEF Reject, Lose, domainVars
  <1>4. ASSUME NEW j \in DOMAIN items, Delete(j) PROVE i \in deleted' \/ items'[i] = items[i]
    BY <1>4 DEF Delete, Restrict
  <1> QED
    BY <1>1, <1>2, <1>3, <1>4 DEF Domain

\* The answer an attempt waits for is about the write it has sent.
LEMMA AnswerStep ==
    ASSUME IInv, Next PROVE AnswerInv'
  <1> DEFINE Good(a) ==
         /\ pc[a] # "waiting" => answer[a] = NoAnswer
         /\ answer[a].saved # NoId =>
               Item(answer[a].saved, Current(a)) \in landed /\ Holds(answer[a].saved, Current(a))
         /\ answer[a].error = "conflict" => a \in rivals
         /\ answer[a].error = "not_found" => existing[a] \in deleted
  <1>0. TypeOK /\ FlyInv /\ AnswerInv /\ LandInv
    BY DEF IInv
  <1>1. \A a \in Attempts : Good(a)
    BY <1>0 DEF AnswerInv
  <1>2. NoAnswer.saved = NoId /\ NoAnswer.error = "none"
    BY DEF NoAnswer
  <1>3. ASSUME NEW a \in Attempts, Attempt(a) \/ Crash(a), NEW b \in Attempts PROVE Good(b)'
    <2>0. Others(a)
      BY <1>0, <1>3, OthersKept
    <2>1. CASE b # a
      <3>1. /\ pc'[b] = pc[b] /\ existing'[b] = existing[b] /\ answer'[b] = answer[b]
            /\ (b \in rivals' <=> b \in rivals) /\ UNCHANGED <<items, deleted, landed>>
        BY <2>0, <2>1 DEF Others
      <3>2. Current(b)' = Current(b)
        BY <2>0, <2>1 DEF Others, Current
      <3>3. \A i : Holds(i, Current(b))' <=> Holds(i, Current(b))
        BY <3>1, <3>2 DEF Holds
      <3>4. Good(b)
        BY <1>1
      <3> QED
        BY <3>1, <3>2, <3>3, <3>4 DEF NoAnswer, Holds, Item
    <2>2. ASSUME b = a PROVE answer'[a] = NoAnswer
      <3>1. CASE Saved(a) \/ Rejected(a) \/ GiveUp(a) \/ Cancelled(a) \/ Crash(a)
        BY <1>0, <3>1 DEF TypeOK, Saved, Rejected, GiveUp, Cancelled, Crash
      <3>2. CASE ~(Saved(a) \/ Rejected(a) \/ GiveUp(a) \/ Cancelled(a) \/ Crash(a))
        <4>1. pc[a] # "waiting" /\ answer' = answer
          BY <1>3, <3>2 DEF Attempt, Setup, RunnerReturns, BeginPut, Find, SendWrite, Report, netVars
        <4> QED
          BY <1>0, <4>1 DEF AnswerInv
      <3> QED
        BY <3>1, <3>2
    <2> QED
      BY <1>2, <2>1, <2>2 DEF NoAnswer, NoId
  <1>4. ASSUME Domain, NEW b \in Attempts PROVE Good(b)'
    <2>0. AttemptsKept
      BY <1>0, <1>4, DomainKeeps
    <2>1. Current(b)' = Current(b) /\ pc' = pc /\ existing' = existing
      BY <2>0 DEF AttemptsKept, Current
    <2>2. CASE answer'[b] = answer[b]
      <3>1. CASE answer[b] = NoAnswer
        BY <1>2, <2>2, <3>1 DEF NoAnswer, NoId
      <3>2. CASE answer[b] # NoAnswer
        <4>1. \A w \in flying : w.content.by # b
          BY <1>0, <3>2 DEF FlyInv, AnswerInv
        <4>2. ASSUME answer[b].saved # NoId PROVE Holds(answer[b].saved, Current(b))'
          <5> DEFINE i == answer[b].saved
          <5>1. Item(i, Current(b)) \in landed /\ Holds(i, Current(b))
            BY <1>1, <4>2
          <5>2. Item(i, Current(b)).id = i /\ Current(b).by = b
            BY DEF Item, Current
          <5>3. i \in deleted \/ i \in DOMAIN items
            BY <1>0, <5>1, <5>2 DEF LandInv, IsFor
          <5> HIDE DEF i
          <5>4. CASE i \in deleted
            BY <2>0, <2>2, <5>4 DEF Holds, AttemptsKept, i
          <5>5. CASE i \in DOMAIN items /\ i \notin deleted
            <6>1. CASE items[i].content = Current(b) \/ items[i].content.by # Current(b).by
              <7>1. i \in deleted' \/ items'[i].content = Current(b) \/ items'[i].content.by # Current(b).by
                BY <1>0, <1>4, <4>1, <5>2, <5>5, <6>1, ContentStays
              <7> QED
                BY <2>1, <2>2, <7>1 DEF Holds, i
            <6>2. CASE \E p \in Paths \ {Current(b).path} : KeyOf[p] = KeyOf[Current(b).path]
              BY <2>1, <2>2, <6>2 DEF Holds, i
            <6> QED
              BY <5>1, <5>5, <6>1, <6>2 DEF Holds
          <5> QED
            BY <5>3, <5>4, <5>5
        <4>3. Good(b)
          BY <1>1
        <4> QED
          BY <2>0, <2>1, <2>2, <4>2, <4>3 DEF AttemptsKept, NoAnswer, Item
      <3> QED
        BY <3>1, <3>2
    <2>3. ASSUME NEW w \in flying, answer'[b] # answer[b],
                 LandNew(w) \/ LandById(w) \/ Reject(w) \/ Lose(w)
          PROVE Good(b)'
      <3>1. PICK id, error : Answer(w, id, error)
        BY <2>3 DEF LandNew, LandById, Reject, Lose, Put
      <3>2. b = w.content.by /\ pc[b] = "waiting"
        BY <1>0, <2>3, <3>1, Answered
      <3>3. /\ w.content = Current(b) /\ w.target = existing[b]
            /\ w.target = NoId => StillFree(b)
        BY <1>0, <3>2 DEF FlyInv
      <3>4. Current(b).by = b /\ Current(b).path = path[b]
        BY DEF Current
      <3>5. ASSUME NEW i, Put(i, w) PROVE Good(b)'
        <4>1. answer'[b] = [saved |-> i, error |-> "none"]
          BY <1>0, <3>2, <3>5, Answered DEF Put
        <4>2. landed' = landed \cup {Item(i, w.content)} /\ items'[i].content = w.content
          BY <3>5 DEF Put
        <4>3. Item(i, Current(b))' = Item(i, Current(b)) /\ Holds(i, Current(b))'
          BY <2>1, <3>3, <4>2 DEF Item, Holds
        <4>4. answer'[b].saved = i /\ answer'[b].error = "none"
          BY <4>1
        <4> QED
          BY <2>1, <3>2, <3>3, <4>2, <4>3, <4>4 DEF Holds, Item
      <3>6. ASSUME Reject(w) PROVE Good(b)'
        <4>1. CASE w.target = NoId /\ Holding(KeyOf[w.content.path]) # {} /\ Answer(w, NoId, "conflict")
          <5>1. answer'[b] = [saved |-> NoId, error |-> "conflict"]
            BY <1>0, <3>2, <4>1, Answered
          <5>2. b \in rivals
            BY <3>3, <3>4, <4>1 DEF StillFree
          <5> QED
            BY <2>0, <2>1, <3>2, <5>1, <5>2 DEF AttemptsKept
        <4>2. CASE w.target # NoId /\ w.target \notin DOMAIN items /\ Answer(w, NoId, "not_found")
          <5>1. answer'[b] = [saved |-> NoId, error |-> "not_found"]
            BY <1>0, <3>2, <4>2, Answered
          <5>2. existing[b] \in deleted
            BY <1>0, <3>3, <4>2 DEF FlyInv, IsFor
          <5> QED
            BY <2>0, <2>1, <3>2, <5>1, <5>2 DEF AttemptsKept
        <4> QED
          BY <3>6, <4>1, <4>2 DEF Reject
      <3>7. ASSUME Lose(w) PROVE Good(b)'
        <4>1. answer'[b] = [saved |-> NoId, error |-> "other"]
          BY <1>0, <3>2, <3>7, Answered DEF Lose
        <4> QED
          BY <2>1, <3>2, <4>1
      <3> QED
        BY <2>3, <3>5, <3>6, <3>7 DEF LandNew, LandById
    <2>4. ASSUME NEW i \in DOMAIN items, Delete(i) PROVE answer' = answer
      BY <2>4 DEF Delete, netVars
    <2> QED
      BY <1>4, <2>2, <2>3, <2>4 DEF Domain
  <1> QED
    BY <1>3, <1>4 DEF Next, AnswerInv

\* A recorded upload stays what the attempt last put under that path, as long
\* as no put of the path is under way and the attempt has not failed: only then
\* can a late write of its own land on the item.
LEMMA RecordStep ==
    ASSUME IInv, Next PROVE RecordInv'
  <1> DEFINE Good(a, p) ==
         /\ uploads[a][p] \in landed
         /\ uploads[a][p].content.by = a /\ uploads[a][p].content.path = p
         /\ \/ Holds(uploads[a][p].id, uploads[a][p].content)
            \/ pc[a] = "waiting" /\ path[a] = p
            \/ pc[a] \in {"reporting", "done", "crashed"} /\ result[a] # "ok"
  <1>0. TypeOK /\ FlyInv /\ RecordInv /\ LandInv /\ AnswerInv /\ ResultInv
    BY DEF IInv
  <1>1. \A a \in Attempts : \A p \in DOMAIN uploads[a] : Good(a, p)
    BY <1>0 DEF RecordInv
  <1>2. ASSUME NEW a \in Attempts, Attempt(a) \/ Crash(a), NEW b \in Attempts, NEW p \in DOMAIN uploads'[b]
        PROVE Good(b, p)'
    <2>0. Others(a)
      BY <1>0, <1>2, OthersKept
    <2>1. UNCHANGED <<items, deleted, landed>>
      BY <2>0 DEF Others
    <2>2. \A i, c : Holds(i, c)' <=> Holds(i, c)
      BY <2>1 DEF Holds
    <2>3. CASE b # a
      <3>1. /\ pc'[b] = pc[b] /\ path'[b] = path[b] /\ uploads'[b] = uploads[b]
            /\ result'[b] = result[b]
        BY <2>0, <2>3 DEF Others
      <3>2. Good(b, p)
        BY <1>1, <1>2, <3>1
      <3> QED
        BY <2>1, <2>2, <3>1, <3>2 DEF Holds
    <2>4. CASE b = a /\ ~Saved(a)
      <3>0. uploads' = uploads
        BY <1>2, <2>4 DEF Attempt, Setup, RunnerReturns, BeginPut, Find, SendWrite, Rejected, GiveUp, Cancelled,
                          Report, Crash, attemptVars
      <3>1. Good(a, p)
        BY <1>1, <1>2, <2>4, <3>0
      <3>2. \/ pc[a] \notin {"waiting", "reporting", "done", "crashed"}
            \/ pc'[a] \in {"reporting", "done", "crashed"} /\ result'[a] # "ok"
            \/ result[a] = "ok" /\ pc[a] # "waiting"
        <4>1. CASE pc[a] = "waiting"
          <5>1. result[a] = "none"
            BY <1>0, <4>1 DEF ResultInv
          <5>2. Rejected(a) \/ GiveUp(a) \/ Cancelled(a) \/ Crash(a)
            BY <1>2, <2>4, <4>1 DEF Attempt, Setup, RunnerReturns, BeginPut, Find, SendWrite, Report
          <5>3. answer[a].error \in {"none"} \cup Failures
            BY <1>0 DEF TypeOK
          <5> QED
            BY <1>0, <5>1, <5>2, <5>3 DEF Rejected, GiveUp, Cancelled, Crash, Conclude, Goto, TypeOK, Failures
        <4>2. CASE pc[a] \in {"reporting", "done", "crashed"} /\ result[a] # "ok"
          <5>1. Report(a) \/ Crash(a)
            BY <1>2, <4>2 DEF Attempt, Setup, RunnerReturns, BeginPut, Find, SendWrite, Saved, Rejected, GiveUp, Cancelled
          <5> QED
            BY <1>0, <4>2, <5>1 DEF Report, Crash, Goto, TypeOK
        <4> QED
          BY <4>1, <4>2
      <3>3. \/ Holds(uploads[a][p].id, uploads[a][p].content)
            \/ pc'[a] \in {"reporting", "done", "crashed"} /\ result'[a] # "ok"
        BY <3>1, <3>2
      <3> QED
        BY <2>1, <2>2, <2>4, <3>0, <3>1, <3>3 DEF Holds
    <2>5. CASE b = a /\ Saved(a)
      <3>2. /\ pc[a] = "waiting" /\ answer[a].saved # NoId
            /\ uploads'[a] = [q \in DOMAIN uploads[a] \cup {path[a]} |->
                                 IF q = path[a] THEN Item(answer[a].saved, Current(a))
                                 ELSE uploads[a][q]]
        BY <1>0, <2>5 DEF Saved, TypeOK
      <3>3. CASE p = path[a]
        <4>1. uploads'[a][p] = Item(answer[a].saved, Current(a))
          BY <3>2, <3>3
        <4>2. /\ Item(answer[a].saved, Current(a)).id = answer[a].saved
              /\ Item(answer[a].saved, Current(a)).content = Current(a)
              /\ Current(a).by = a /\ Current(a).path = path[a]
          BY DEF Item, Current
        <4>3. Item(answer[a].saved, Current(a)) \in landed /\ Holds(answer[a].saved, Current(a))
          BY <1>0, <3>2 DEF AnswerInv
        <4> QED
          BY <2>1, <2>2, <2>5, <3>3, <4>1, <4>2, <4>3 DEF Holds
      <3>4. CASE p # path[a]
        <4>1. p \in DOMAIN uploads[a] /\ uploads'[a][p] = uploads[a][p]
          BY <1>2, <2>5, <3>2, <3>4
        <4>2. Good(a, p) /\ Holds(uploads[a][p].id, uploads[a][p].content)
          BY <1>1, <3>2, <3>4, <4>1
        <4> QED
          BY <2>1, <2>2, <2>5, <4>1, <4>2 DEF Holds
      <3> QED
        BY <3>3, <3>4
    <2> QED
      BY <2>3, <2>4, <2>5
  <1>3. ASSUME Domain, NEW a \in Attempts, NEW p \in DOMAIN uploads'[a] PROVE Good(a, p)'
    <2>0. AttemptsKept
      BY <1>0, <1>3, DomainKeeps
    <2>1. Good(a, p)
      BY <1>1, <1>3, <2>0 DEF AttemptsKept
    <2> DEFINE i == uploads[a][p].id
               c == uploads[a][p].content
    <2>2. i' = i /\ c' = c
      BY <2>0 DEF AttemptsKept
    <2>3. c.by = a /\ c.path = p /\ IsFor(i, KeyOf[p])
      BY <1>0, <2>1 DEF LandInv
    <2> HIDE DEF i, c
    <2>4. ASSUME Holds(i, c), ~(pc[a] = "waiting" /\ path[a] = p),
                 ~(pc[a] \in {"reporting", "done", "crashed"} /\ result[a] # "ok")
          PROVE Holds(i, c)'
      <3>1. CASE i \in deleted
        BY <2>0, <2>2, <3>1 DEF Holds, AttemptsKept
      <3>2. CASE \E q \in Paths \ {c.path} : KeyOf[q] = KeyOf[c.path]
        BY <2>2, <3>2 DEF Holds
      <3>3. CASE i \notin deleted /\ ~\E q \in Paths \ {c.path} : KeyOf[q] = KeyOf[c.path]
        <4>1. i \in DOMAIN items /\ items[i].key = KeyOf[p]
          BY <2>3, <3>3 DEF IsFor
        <4>2. ASSUME NEW w \in flying, LandById(w), w.target = i PROVE w.content.by # a
          <5>1. SUFFICES ASSUME w.content.by = a PROVE FALSE
            OBVIOUS
          <5>2. w.content = Current(a) /\ pc[a] = "waiting"
            BY <1>0, <2>4, <5>1 DEF FlyInv
          <5>3. w.content.path = path[a] /\ path[a] \in Paths /\ path[a] # p
            BY <1>0, <2>4, <5>2 DEF Current, TypeOK
          <5>4. i # NoId
            BY <1>0, <4>1 DEF TypeOK, NoId
          <5>5. items[i].key = KeyOf[path[a]]
            BY <1>0, <3>3, <4>2, <5>3, <5>4 DEF FlyInv, IsFor
          <5> QED
            BY <2>3, <3>3, <4>1, <5>3, <5>5
        <4>3. items[i].content = c \/ items[i].content.by # c.by
          BY <2>4, <3>3 DEF Holds
        <4>4. i \in deleted' \/ items'[i].content = c \/ items'[i].content.by # c.by
          BY <1>0, <1>3, <2>3, <4>1, <4>2, <4>3, ContentStays
        <4> QED
          BY <2>2, <4>4 DEF Holds
      <3> QED
        BY <3>1, <3>2, <3>3
    <2> QED
      BY <2>0, <2>1, <2>4 DEF AttemptsKept, i, c
  <1> QED
    BY <1>2, <1>3 DEF Next, RecordInv

\* What has landed is recorded by the time its attempt goes on: an attempt that
\* does not hear of its write fails.
LEMMA CompleteStep ==
    ASSUME IInv, Next PROVE CompleteInv' /\ NumberInv'
  <1> DEFINE Recorded(a, c) == /\ c.path \in DOMAIN uploads[a]
                               /\ uploads[a][c.path].content.number >= c.number
             Failed(a) == pc[a] \in {"reporting", "done", "crashed"} /\ result[a] # "ok"
             Good(r) == LET a == r.content.by IN
                        \/ Recorded(a, r.content)
                        \/ pc[a] = "waiting" /\ r.content = Current(a)
                        \/ Failed(a)
  <1>0. TypeOK /\ FlyInv /\ CompleteInv /\ NumberInv /\ ResultInv /\ AnswerInv
    BY DEF IInv
  <1>1. \A r \in landed : Good(r)
    BY <1>0 DEF CompleteInv
  <1>2. \A r \in landed : r.content.by \in Attempts /\ r.content.number \in Nat
    BY <1>0 DEF TypeOK, Artifacts, Contents
  <1>3. \A a \in Attempts : \A p \in DOMAIN uploads[a] :
           uploads[a][p].content.number \in Nat /\ uploads[a][p].content.number <= puts[a]
    <2>1. SUFFICES ASSUME NEW a \in Attempts, NEW p \in DOMAIN uploads[a]
                   PROVE  uploads[a][p].content.number \in Nat
                          /\ uploads[a][p].content.number <= puts[a]
      OBVIOUS
    <2>2. uploads[a][p] \in Artifacts
      BY <1>0 DEF TypeOK, Range
    <2>3. uploads[a][p].content.number \in 1..MaxPuts
      BY <2>2 DEF Artifacts, Contents
    <2> QED BY <1>0, <2>3, UploadAssumption DEF NumberInv
  <1>4. ASSUME NEW a \in Attempts, Attempt(a) \/ Crash(a) PROVE CompleteInv' /\ NumberInv'
    <2>0. Others(a)
      BY <1>0, <1>4, OthersKept
    <2>1. landed' = landed /\ puts[a] \in Nat
      BY <1>0, <2>0 DEF Others, TypeOK
    <2>2. ASSUME NEW r \in landed, r.content.by # a PROVE Good(r)'
      <3> DEFINE b == r.content.by
      <3>1. b \in Attempts \ {a}
        BY <1>2, <2>2
      <3> HIDE DEF b
      <3>2. /\ pc'[b] = pc[b] /\ path'[b] = path[b] /\ puts'[b] = puts[b]
            /\ uploads'[b] = uploads[b] /\ result'[b] = result[b]
        BY <2>0, <3>1 DEF Others
      <3>3. Current(b)' = Current(b)
        BY <3>2 DEF Current
      <3> QED
        BY <1>1, <3>2, <3>3 DEF b
    <2>3. CASE Saved(a)
      <3>1. /\ pc[a] = "waiting" /\ UNCHANGED <<puts, path>>
            /\ uploads'[a] = [q \in DOMAIN uploads[a] \cup {path[a]} |->
                                 IF q = path[a] THEN Item(answer[a].saved, Current(a))
                                 ELSE uploads[a][q]]
        BY <1>0, <2>3 DEF Saved, TypeOK
      <3>2. /\ Item(answer[a].saved, Current(a)).content = Current(a)
            /\ Current(a).path = path[a] /\ Current(a).number = puts[a]
        BY DEF Item, Current
      <3>3. /\ path[a] \in DOMAIN uploads'[a]
            /\ uploads'[a][path[a]].content.number = puts[a]
        BY <3>1, <3>2
      <3>4. \A q \in DOMAIN uploads[a] :
               q \in DOMAIN uploads'[a] /\ (q # path[a] => uploads'[a][q] = uploads[a][q])
        BY <3>1
      <3>5. ASSUME NEW r \in landed, r.content.by = a PROVE Recorded(a, r.content)'
        <4>1. result[a] = "none"
          BY <1>0, <3>1 DEF ResultInv
        <4>2. Recorded(a, r.content) \/ r.content = Current(a)
          BY <1>1, <3>1, <3>5
        <4>3. CASE r.content.path = path[a]
          <5>1. r.content.number <= puts[a]
            BY <1>2, <1>3, <2>1, <3>2, <4>2, <4>3
          <5> QED
            BY <1>2, <2>1, <3>3, <4>3, <5>1
        <4>4. CASE r.content.path # path[a]
          BY <3>2, <3>4, <4>2, <4>4
        <4> QED
          BY <4>3, <4>4
      <3>6. CompleteInv'
        BY <2>1, <2>2, <3>5 DEF CompleteInv
      <3>7. ASSUME NEW q \in DOMAIN uploads'[a] PROVE uploads'[a][q].content.number <= puts[a]
        BY <1>3, <2>1, <3>1, <3>3, <3>4
      <3>8. NumberInv'
        BY <1>0, <2>0, <3>1, <3>7 DEF NumberInv, Others
      <3> QED
        BY <3>6, <3>8
    <2>4. CASE ~Saved(a)
      <3>1. uploads' = uploads
        BY <1>4, <2>4 DEF Attempt, Setup, RunnerReturns, BeginPut, Find, SendWrite, Rejected, GiveUp,
                          Cancelled, Report, Crash, attemptVars
      <3>2. puts'[a] = puts[a] \/ puts'[a] = puts[a] + 1
        BY <1>0, <1>4, <2>4 DEF TypeOK, Attempt, Setup, RunnerReturns, BeginPut, Find, SendWrite,
                          Rejected, GiveUp, Cancelled, Report, Crash, attemptVars
      <3>3. NumberInv'
        BY <1>0, <1>3, <2>0, <2>1, <3>1, <3>2 DEF NumberInv, Others
      <3>4. ASSUME pc[a] = "waiting" PROVE Failed(a)'
        <4>1. result[a] = "none"
          BY <1>0, <3>4 DEF ResultInv
        <4>2. Rejected(a) \/ GiveUp(a) \/ Cancelled(a) \/ Crash(a)
          BY <1>4, <2>4, <3>4 DEF Attempt, Setup, RunnerReturns, BeginPut, Find, SendWrite, Report
        <4>3. answer[a].error \in {"none"} \cup Failures
          BY <1>0 DEF TypeOK
        <4> QED
          BY <1>0, <4>1, <4>2, <4>3 DEF Rejected, GiveUp, Cancelled, Crash, Conclude, Goto, TypeOK, Failures
      <3>5. ASSUME Failed(a) PROVE Failed(a)'
        <4>1. Report(a) \/ Crash(a)
          BY <1>4, <3>5 DEF Attempt, Setup, RunnerReturns, BeginPut, Find, SendWrite, Saved, Rejected,
                            GiveUp, Cancelled
        <4> QED
          BY <1>0, <3>5, <4>1 DEF Report, Crash, Goto, TypeOK
      <3>6. ASSUME NEW r \in landed, r.content.by = a PROVE Good(r)'
        BY <1>1, <3>1, <3>4, <3>5, <3>6
      <3> QED
        BY <2>1, <2>2, <3>3, <3>6 DEF CompleteInv
    <2> QED
      BY <2>3, <2>4
  <1>5. CASE Domain
    <2>1. UNCHANGED <<pc, path, puts, uploads, result>>
      BY <1>0, <1>5, DomainKeeps DEF AttemptsKept
    <2>2. NumberInv'
      BY <1>0, <2>1 DEF NumberInv
    <2>3. ASSUME NEW r \in landed PROVE Good(r)'
      BY <1>1, <2>1 DEF Current
    <2>4. ASSUME NEW w \in flying, NEW i, Put(i, w) PROVE \A r \in landed' : r \in landed \/ Good(r)'
      <3>1. landed' = landed \cup {Item(i, w.content)} /\ Item(i, w.content).content = w.content
        BY <2>4 DEF Put, Item
      <3>2. LET a == w.content.by IN (pc[a] = "waiting" /\ w.content = Current(a)) \/ Failed(a)
        BY <1>0 DEF FlyInv
      <3> QED
        BY <2>1, <3>1, <3>2 DEF Current
    <2>5. (\E w \in flying : \E i : Put(i, w)) \/ landed' = landed
      BY <1>5 DEF Domain, LandNew, LandById, Reject, Lose, Delete, netVars
    <2> QED
      BY <2>2, <2>3, <2>4, <2>5 DEF CompleteInv
  <1> QED
    BY <1>4, <1>5 DEF Next

\* A step keeps the type invariant.  The id a record holds is one the Domain has
\* handed out because what is recorded has landed.
LEMMA TypeStep ==
    ASSUME IInv, Next PROVE TypeOK'
  <1> DEFINE Places == {"setup", "running", "finding", "writing", "waiting",
                        "reporting", "done", "crashed"}
             Results == {"none", "ok"} \cup Failures
             Answers == [saved : 0..lastId, error : {"none"} \cup Failures]
  <1>0. TypeOK /\ AnswerInv /\ RecordInv /\ LandInv
    BY DEF IInv
  <1>1. ASSUME NEW a \in Attempts, Attempt(a) \/ Crash(a) PROVE TypeOK'
    <2>1. Others(a)
      BY <1>0, <1>1, OthersKept
    <2>2. pc' \in [Attempts -> Places] /\ result' \in [Attempts -> Results]
      <3>1. CASE Rejected(a)
        <4>1. answer[a].error \in Results
          BY <1>0 DEF TypeOK
        <4> QED
          BY <1>0, <3>1, <4>1 DEF TypeOK, Rejected, Conclude, Goto
      <3>2. CASE ~Rejected(a)
        <4>1. pc' = pc \/ \E place \in Places : Goto(a, place)
          BY <1>1, <3>2 DEF Attempt, Setup, RunnerReturns, BeginPut, Find, SendWrite, Saved, GiveUp, Cancelled,
                            Report, Crash, Conclude
        <4>2. result' = result \/ \E r \in {"ok", "other"} : result' = [result EXCEPT ![a] = r]
          BY <1>1, <3>2 DEF Attempt, Setup, RunnerReturns, BeginPut, Find, SendWrite, Saved, GiveUp, Cancelled,
                            Report, Crash, Conclude, netVars
        <4>3. pc' \in [Attempts -> Places]
          BY <1>0, <4>1 DEF TypeOK, Goto
        <4>4. result' \in [Attempts -> Results]
          BY <1>0, <4>2 DEF TypeOK, Failures
        <4> QED
          BY <4>3, <4>4
      <3> QED
        BY <3>1, <3>2
    <2>3. /\ path' \in [Attempts -> Paths] /\ puts' \in [Attempts -> 0..MaxPuts]
          /\ existing' \in [Attempts -> 0..lastId]
      <3>1. ASSUME NEW p \in Paths, NEW explicit \in {NoId} \cup Holding(KeyOf[p]),
                   BeginPut(a, p, explicit)
            PROVE <2>3
        <4>1. KnownId(a, p, explicit) \in 0..lastId
          <5>1. explicit \in 0..lastId
            BY <1>0 DEF TypeOK, Holding, NoId
          <5>2. ASSUME p \in DOMAIN uploads[a] PROVE uploads[a][p].id \in 0..lastId
            BY <1>0, <5>2, IdBound DEF RecordInv, LandInv
          <5>3. NoId \in 0..lastId
            BY <1>0 DEF TypeOK, NoId
          <5> QED
            BY <5>1, <5>2, <5>3 DEF KnownId
        <4> QED
          BY <1>0, <3>1, <4>1 DEF TypeOK, BeginPut
      <3>2. CASE Find(a)
        <4>1. \A k : Holding(k) \subseteq 0..lastId
          BY <1>0 DEF TypeOK, Holding
        <4>2. NoId \in 0..lastId
          BY <1>0 DEF TypeOK, NoId
        <4>3. existing' = existing \/ \E i \in 0..lastId : existing' = [existing EXCEPT ![a] = i]
          <5> DEFINE found == Holding(KeyOf[path[a]])
          <5>1. found # {} => (CHOOSE i \in found : TRUE) \in found
            OBVIOUS
          <5>2. \/ existing' = existing
                \/ existing' = [existing EXCEPT ![a] =
                      IF found = {} THEN NoId ELSE CHOOSE i \in found : TRUE]
            BY <3>2 DEF Find
          <5> QED
            BY <4>1, <4>2, <5>1, <5>2
        <4> QED
          BY <1>0, <3>2, <4>3 DEF TypeOK, Find
      <3>3. CASE UNCHANGED <<path, puts, existing>>
        BY <1>0, <3>3 DEF TypeOK
      <3> QED
        BY <1>1, <3>1, <3>2, <3>3 DEF Attempt, Setup, RunnerReturns, SendWrite, Saved, Rejected,
                                      GiveUp, Cancelled, Report, Crash, attemptVars
    <2>4. /\ DOMAIN uploads' = Attempts
          /\ \A b \in Attempts : DOMAIN uploads'[b] \subseteq Paths /\ Range(uploads'[b]) \subseteq Artifacts
      <3>1. CASE Saved(a)
        <4>1. Item(answer[a].saved, Current(a)) \in Artifacts
          BY <1>0, <3>1 DEF AnswerInv, TypeOK, Saved
        <4>2. uploads'[a] = [q \in DOMAIN uploads[a] \cup {path[a]} |->
                                IF q = path[a] THEN Item(answer[a].saved, Current(a))
                                ELSE uploads[a][q]]
          BY <1>0, <3>1 DEF Saved, TypeOK
        <4>3. path[a] \in Paths /\ DOMAIN uploads[a] \subseteq Paths
          BY <1>0 DEF TypeOK
        <4>4. \A q \in DOMAIN uploads[a] : uploads[a][q] \in Artifacts
          BY <1>0 DEF TypeOK, Range
        <4>5. DOMAIN uploads'[a] \subseteq Paths /\ Range(uploads'[a]) \subseteq Artifacts
          BY <4>1, <4>2, <4>3, <4>4 DEF Range
        <4>6. DOMAIN uploads' = Attempts
          BY <1>0, <3>1 DEF Saved, TypeOK
        <4> QED
          BY <1>0, <2>1, <4>5, <4>6 DEF Others, TypeOK
      <3>2. CASE ~Saved(a)
        <4>1. uploads' = uploads
          BY <1>1, <3>2 DEF Attempt, Setup, RunnerReturns, BeginPut, Find, SendWrite, Rejected,
                            GiveUp, Cancelled, Report, Crash, attemptVars
        <4> QED
          BY <1>0, <4>1 DEF TypeOK
      <3> QED
        BY <3>1, <3>2
    <2>5. receipt' \in [Attempts -> Receipts]
      <3>1. CASE Report(a)
        <4>1. Reported(a) \subseteq Artifacts
          BY <1>0 DEF TypeOK, Reported, Range
        <4>2. receipt' = receipt \/ \E kind \in {"success", "failure", "bare_failure"} :
                 Tell(a, kind, Reported(a)) \/ Tell(a, kind, {})
          BY <3>1 DEF Report
        <4>3. \A kind \in {"success", "failure", "bare_failure"} :
                 /\ [kind |-> kind, artifacts |-> Reported(a)] \in Receipts
                 /\ [kind |-> kind, artifacts |-> {}] \in Receipts
          BY <4>1 DEF Receipts
        <4>4. receipt' = receipt \/ \E r \in Receipts : receipt' = [receipt EXCEPT ![a] = r]
          BY <4>2, <4>3 DEF Tell
        <4> QED
          BY <1>0, <4>4 DEF TypeOK
      <3>2. CASE ~Report(a)
        <4>1. receipt' = receipt
          BY <1>1, <3>2 DEF Attempt, Setup, RunnerReturns, BeginPut, Find, SendWrite, Saved, Rejected,
                            GiveUp, Cancelled, Crash
        <4> QED
          BY <1>0, <4>1 DEF TypeOK
      <3> QED
        BY <3>1, <3>2
    <2>6. flying' \subseteq Writes
      <3>1. CASE SendWrite(a)
        <4>1. pc[a] = "writing" /\ Current(a) \in Contents
          BY <1>0, <3>1, CurrentType DEF SendWrite, IInv, PutInv
        <4>2. existing[a] \in Nat
          BY <1>0 DEF TypeOK
        <4> QED
          BY <1>0, <3>1, <4>1, <4>2 DEF TypeOK, SendWrite, Writes
      <3>2. CASE ~SendWrite(a)
        <4>1. flying' = flying
          BY <1>1, <3>2 DEF Attempt, Setup, RunnerReturns, BeginPut, Find, Saved, Rejected, GiveUp, Cancelled,
                            Report, Crash, netVars
        <4> QED
          BY <1>0, <4>1 DEF TypeOK
      <3> QED
        BY <3>1, <3>2
    <2>7. answer' \in [Attempts -> Answers] /\ rivals' \subseteq Attempts
      <3>1. NoAnswer \in Answers
        BY <1>0 DEF NoAnswer, NoId, TypeOK
      <3>2. answer' = answer \/ answer' = [answer EXCEPT ![a] = NoAnswer]
        BY <1>1 DEF Attempt, Setup, RunnerReturns, BeginPut, Find, SendWrite, Saved, Rejected, GiveUp, Cancelled,
                    Report, Crash, netVars
      <3>3. rivals' \subseteq rivals
        BY <1>1 DEF Attempt, Setup, RunnerReturns, BeginPut, Find, SendWrite, Saved, Rejected, GiveUp, Cancelled,
                    Report, Crash, domainVars
      <3> QED
        BY <1>0, <3>1, <3>2, <3>3 DEF TypeOK
    <2>8. UNCHANGED <<items, lastId, landed, deleted>>
      BY <2>1 DEF Others
    <2> QED
      BY <1>0, <2>2, <2>3, <2>4, <2>5, <2>6, <2>7, <2>8 DEF TypeOK
  <1>2. ASSUME Domain PROVE TypeOK'
    <2>1. AttemptsKept
      BY <1>0, <1>2, DomainKeeps
    <2>2. lastId' \in Nat /\ lastId' >= lastId /\ 0..lastId \subseteq 0..lastId'
      <3>1. lastId' = lastId \/ lastId' = lastId + 1
        BY <1>2 DEF Domain, LandNew, LandById, Reject, Lose, Delete, domainVars
      <3> QED
        BY <1>0, <3>1 DEF TypeOK
    <2>3. /\ DOMAIN items' \subseteq 1..lastId'
          /\ \A i \in DOMAIN items' : items'[i] \in [key : Keys, content : Contents]
          /\ landed' \subseteq Artifacts
      <3>1. ASSUME NEW w \in flying, NEW i \in 1..lastId', Put(i, w) PROVE <2>3
        <4>1. w.content \in Contents /\ KeyOf[w.content.path] \in Keys
          BY <1>0 DEF TypeOK, Writes, Contents
        <4>2. Item(i, w.content) \in Artifacts
          BY <2>2, <3>1, <4>1 DEF Item, Artifacts, Ids, NoId
        <4>3. DOMAIN items' = DOMAIN items \cup {i} /\ landed' = landed \cup {Item(i, w.content)}
          BY <3>1 DEF Put
        <4>4. ASSUME NEW j \in DOMAIN items' PROVE items'[j] \in [key : Keys, content : Contents]
          BY <1>0, <3>1, <4>1, <4>3, <4>4 DEF TypeOK, Put
        <4> QED
          BY <1>0, <2>2, <4>2, <4>3, <4>4 DEF TypeOK
      <3>2. ASSUME NEW w \in flying, LandNew(w) PROVE lastId + 1 \in 1..lastId' /\ Put(lastId + 1, w)
        BY <1>0, <3>2 DEF LandNew, TypeOK
      <3>3. ASSUME NEW w \in flying, LandById(w) PROVE w.target \in 1..lastId' /\ Put(w.target, w)
        BY <1>0, <2>2, <3>3 DEF LandById, TypeOK
      <3>4. ASSUME NEW w \in flying, Reject(w) \/ Lose(w) PROVE <2>3
        BY <1>0, <3>4 DEF Reject, Lose, domainVars, TypeOK
      <3>5. ASSUME NEW i \in DOMAIN items, Delete(i) PROVE <2>3
        BY <1>0, <2>2, <3>5 DEF Delete, Restrict, netVars, TypeOK
      <3> QED
        BY <1>2, <3>1, <3>2, <3>3, <3>4, <3>5 DEF Domain
    <2>4. answer' \in [Attempts -> Answers]'
      <3>1. \A w \in flying : w.content.by \in Attempts
        BY <1>0 DEF TypeOK, Writes, Contents
      <3>2. Answers \subseteq Answers'
        BY <2>2
      <3>3. ASSUME NEW w \in flying, NEW i \in 0..lastId', NEW error \in {"none"} \cup Failures,
                   Answer(w, i, error)
            PROVE <2>4
        BY <1>0, <3>1, <3>2, <3>3 DEF TypeOK, Answer
      <3>4. NoId \in 0..lastId'
        BY <2>2 DEF NoId
      <3>5. ASSUME NEW w \in flying, LandNew(w) \/ LandById(w) PROVE <2>4
        <4>1. PICK i \in 0..lastId' : Answer(w, i, "none")
          BY <1>0, <2>2, <3>5 DEF LandNew, LandById, Put, TypeOK
        <4> QED
          BY <3>3, <4>1
      <3>6. ASSUME NEW w \in flying, Reject(w) \/ Lose(w) PROVE <2>4
        <4>1. PICK error \in Failures : Answer(w, NoId, error)
          BY <3>6 DEF Reject, Lose, Failures
        <4> QED
          BY <3>3, <3>4, <4>1
      <3>7. ASSUME NEW i \in DOMAIN items, Delete(i) PROVE <2>4
        BY <1>0, <3>2, <3>7 DEF Delete, netVars, TypeOK
      <3> QED
        BY <1>2, <3>5, <3>6, <3>7 DEF Domain
    <2>5. deleted' \subseteq 1..lastId' /\ rivals' \subseteq Attempts
      <3>1. deleted \subseteq 1..lastId /\ DOMAIN items \subseteq 1..lastId /\ rivals \subseteq Attempts
        BY <1>0 DEF TypeOK
      <3>2. deleted' = deleted \/ \E i \in DOMAIN items : deleted' = deleted \cup {i}
        BY <1>2 DEF Domain, LandNew, LandById, Reject, Lose, Delete, domainVars
      <3>3. rivals' \subseteq Attempts
        BY <1>2, <3>1 DEF Domain, LandNew, LandById, Reject, Lose, Delete, domainVars
      <3>4. 1..lastId \subseteq 1..lastId'
        BY <1>0, <2>2 DEF TypeOK
      <3> QED
        BY <3>1, <3>2, <3>3, <3>4
    <2>6. existing' \in [Attempts -> 0..lastId']
      BY <1>0, <2>1, <2>2 DEF TypeOK, AttemptsKept
    <2> QED
      BY <1>0, <2>1, <2>2, <2>3, <2>4, <2>5, <2>6 DEF TypeOK, AttemptsKept
  <1> QED
    BY <1>1, <1>2 DEF Next

-----------------------------------------------------------------------------
(* The theorems.                                                           *)

\* The invariant holds before any attempt begins.
LEMMA Start == Init => IInv
  <1> SUFFICES ASSUME Init PROVE IInv
    OBVIOUS
  <1>1. TypeOK
    <2>1. (CHOOSE p \in Paths : TRUE) \in Paths
      OBVIOUS
    <2>2. NoReceipt \in Receipts
      BY DEF NoReceipt, Receipts
    <2>3. /\ pc \in [Attempts -> {"setup"}] /\ path \in [Attempts -> Paths]
          /\ existing \in [Attempts -> {0}] /\ puts \in [Attempts -> {0}]
          /\ result \in [Attempts -> {"none"}] /\ receipt \in [Attempts -> Receipts]
          /\ lastId = 0 /\ flying = {} /\ landed = {} /\ deleted = {} /\ rivals = {}
          /\ DOMAIN items = {}
      BY <2>1, <2>2 DEF Init, NoId
    <2>4. /\ DOMAIN uploads = Attempts
          /\ \A a \in Attempts : DOMAIN uploads[a] \subseteq Paths /\ Range(uploads[a]) \subseteq Artifacts
      BY DEF Init, Range
    <2>5. answer \in [Attempts -> [saved : 0..lastId, error : {"none"} \cup Failures]]
      BY DEF Init, NoAnswer, NoId
    <2>6. puts \in [Attempts -> 0..MaxPuts] /\ existing \in [Attempts -> 0..lastId]
      BY <2>3
    <2>7. pc \in [Attempts -> {"setup", "running", "finding", "writing", "waiting",
                               "reporting", "done", "crashed"}]
          /\ result \in [Attempts -> {"none", "ok"} \cup Failures]
      BY <2>3
    <2> QED
      BY <2>3, <2>4, <2>5, <2>6, <2>7 DEF TypeOK
  <1>2. LandInv /\ FlyInv /\ PutInv /\ AnswerInv
    BY DEF Init, LandInv, FlyInv, PutInv, AnswerInv, NoAnswer, NoId
  <1>3. ResultInv /\ RecordInv /\ CompleteInv /\ NumberInv /\ ReceiptInv
    BY DEF Init, ResultInv, RecordInv, CompleteInv, NumberInv, ReceiptInv, NoReceipt
  <1> QED
    BY <1>1, <1>2, <1>3 DEF IInv

\* IInv holds in every reachable state, for any attempts, paths and keys and
\* any number of puts.
THEOREM Invariance == Spec => []IInv
  <1>1. IInv /\ [Next]_vars => IInv'
    <2>1. IInv /\ Next => IInv'
      BY TypeStep, LandStep, FlyStep, PutStep, AnswerStep, ResultStep, RecordStep, CompleteStep, ReceiptStep DEF IInv
    <2>2. IInv /\ UNCHANGED vars => IInv'
      <3> SUFFICES ASSUME IInv, UNCHANGED vars PROVE IInv'
        OBVIOUS
      <3>1. /\ UNCHANGED <<pc, path, existing, puts, uploads, result, receipt>>
            /\ UNCHANGED <<items, lastId, flying, answer, landed, deleted, rivals>>
        BY DEF vars
      <3>2. TypeOK'
        BY <3>1 DEF IInv, TypeOK
      <3>3. LandInv' /\ FlyInv' /\ PutInv'
        BY <3>1 DEF IInv, LandInv, FlyInv, PutInv, IsFor, StillFree, Holding, Current
      <3>4. AnswerInv' /\ ResultInv'
        BY <3>1 DEF IInv, AnswerInv, ResultInv, Item, Current, Holds
      <3>5. RecordInv' /\ ReceiptInv'
        BY <3>1 DEF IInv, RecordInv, ReceiptInv, Reported, Holds, Current
      <3>6. CompleteInv' /\ NumberInv'
        BY <3>1 DEF IInv, CompleteInv, NumberInv, Current
      <3> QED
        BY <3>2, <3>3, <3>4, <3>5, <3>6 DEF IInv
    <2> QED
      BY <2>1, <2>2
  <1> QED
    BY <1>1, Start, PTL DEF Spec

\* Type correctness of router.rs and put_domain_artifact's state.
THEOREM Typed == Spec => []TypeOK
  <1>1. IInv => TypeOK
    BY DEF IInv
  <1> QED
    BY <1>1, Invariance, PTL

\* Every artifact reported to the DMS (router.rs, complete_request and fail)
\* is an item the Domain saved from that very put, under the name it asked for.
THEOREM ReceiptsNameSavedItems == Spec => []ReceiptNamesSavedItems
  <1>1. IInv => ReceiptNamesSavedItems
    <2> SUFFICES ASSUME IInv, NEW a \in Attempts, NEW r \in receipt[a].artifacts
                 PROVE /\ r \in landed
                       /\ r.id \in deleted \/ items[r.id].key = KeyOf[r.content.path]
      BY DEF ReceiptNamesSavedItems
    <2>1. PICK p \in DOMAIN uploads[a] : r = uploads[a][p]
      BY DEF IInv, ReceiptInv, Reported
    <2>2. r \in landed
      BY <2>1 DEF IInv, RecordInv
    <2> QED
      BY <2>2 DEF IInv, LandInv, IsFor
  <1> QED
    BY <1>1, Invariance, PTL

\* After a success no late write of the attempt's own has replaced what its
\* receipt names: put_domain_artifact awaits each write before the next, and an
\* attempt that stops waiting for one fails.
THEOREM SuccessReceiptsAreCurrent == Spec => []SuccessReceiptIsCurrent
  <1>1. IInv => SuccessReceiptIsCurrent
    <2> SUFFICES ASSUME IInv, NEW a \in Attempts, receipt[a].kind = "success",
                        NEW r \in receipt[a].artifacts
                 PROVE \/ r.id \in deleted
                       \/ items[r.id].content = r.content
                       \/ items[r.id].content.by # a
                       \/ \E p \in Paths \ {r.content.path} : KeyOf[p] = KeyOf[r.content.path]
      BY DEF SuccessReceiptIsCurrent
    <2>1. PICK p \in DOMAIN uploads[a] : r = uploads[a][p]
      BY DEF IInv, ReceiptInv, Reported
    <2>2. pc[a] = "done" /\ result[a] = "ok"
      BY DEF IInv, ReceiptInv
    <2>3. r.content.by = a /\ Holds(r.id, r.content)
      BY <2>1, <2>2 DEF IInv, RecordInv
    <2> QED
      BY <2>3 DEF Holds
  <1> QED
    BY <1>1, Invariance, PTL

\* A success receipt names everything the attempt has left in the Domain, even
\* by a write that landed late or unheard of.
THEOREM SuccessReceiptsAreComplete == Spec => []SuccessReceiptIsComplete
  <1>1. IInv => SuccessReceiptIsComplete
    <2> SUFFICES ASSUME IInv, NEW a \in Attempts, receipt[a].kind = "success",
                        NEW r \in landed, r.content.by = a
                 PROVE \E q \in receipt[a].artifacts :
                          /\ q.content.path = r.content.path
                          /\ q.content.number >= r.content.number
      BY DEF SuccessReceiptIsComplete
    <2>1. pc[a] = "done" /\ result[a] = "ok" /\ receipt[a].artifacts = Reported(a)
      BY DEF IInv, ReceiptInv
    <2>2. /\ r.content.path \in DOMAIN uploads[a]
          /\ uploads[a][r.content.path].content.number >= r.content.number
      BY <2>1 DEF IInv, CompleteInv
    <2>3. uploads[a][r.content.path].content.path = r.content.path
      BY <2>2 DEF IInv, RecordInv
    <2> QED
      BY <2>1, <2>2, <2>3 DEF Reported
  <1> QED
    BY <1>1, Invariance, PTL

\* A retry does not trip over what an earlier attempt left in the Domain:
\* find_artifact_id makes its puts replace it.
THEOREM ConflictsNeedRivals == Spec => []ConflictOnlyWithRival
  <1>1. IInv => ConflictOnlyWithRival
    BY DEF IInv, ResultInv, ConflictOnlyWithRival
  <1> QED
    BY <1>1, Invariance, PTL

\* No put works with an id that was never an item's: ids come from the
\* listing, the record or the caller.
THEOREM NotFoundNeedsDelete == Spec => []NotFoundOnlyAfterDelete
  <1>1. IInv => NotFoundOnlyAfterDelete
    BY DEF IInv, ResultInv, NotFoundOnlyAfterDelete
  <1> QED
    BY <1>1, Invariance, PTL
=============================================================================
