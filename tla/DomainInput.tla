----------------------------- MODULE DomainInput -----------------------------
(***************************************************************************)
(* How a task gets hold of its manifest: TaskIo::materialize of            *)
(* node-host/src/io.rs, which turns a CID into a query, lists it in the    *)
(* task's Domain and downloads every item into a fresh root in the temp    *)
(* directory, and the lines of runner/src/lib.rs that read the first item  *)
(* and remove the root.  The Domain is external.                           *)
(*                                                                         *)
(* A CID is taken apart as far as the code does: a URL is its path         *)
(* segments and its query pairs, a comma-separated value the sequence of   *)
(* its tokens.  An item stands for its own id.                             *)
(***************************************************************************)
EXTENDS Naturals, Sequences, FiniteSets, SequencesExt

CONSTANTS
    Items,      \* data items that may be in the task's Domain
    NameOf, TypeOf,   \* item -> name, data type
    Stamp,      \* name -> the timestamp in it, or None
    Clean,      \* sanitize_component, on names, types and timestamps
    Uuids,      \* the tokens that are UUIDs
    Own,        \* the task's Domain
    Cids,       \* inputs of tasks
    None

IsSequence(s) == s \in Seq(ToSet(s))

ASSUME InputAssumption ==
    /\ IsFiniteSet(Items) /\ Items \cup {Own} \subseteq Uuids
    /\ Uuids \cap {None, "", "domains", "data"} = {}
    /\ \A c \in Cids : c.form \in {"malformed", "id", "url"}
    /\ \A c \in Cids : c.form = "url" =>
          /\ IsSequence(c.path) /\ IsSequence(c.query)
          /\ \A k \in 1..Len(c.query) : c.query[k].value # None

VARIABLES
    pc, cid,
    base,     \* does the lease name the Domain's server?
    query,    \* what is asked of the Domain
    todo,     \* items listed and not yet downloaded
    parts,    \* items downloaded, in order
    present,  \* items in the Domain
    root,     \* the download root: "none", "there" or "removed"
    files,    \* path -> the item in the file, and is it whole?
    manifest, \* what the runner read as its manifest
    outcome,  \* "none", "refused", "failed", "dropped" or "ok"
    left      \* history: why a root was left in the temp directory

vars == <<pc, cid, base, query, todo, parts, present, root, files, manifest, outcome, left>>

\* download_path: the folder is the timestamp, or the name if there is none.
PathOf(i) ==
    LET name == NameOf[i]
        scan == IF Stamp[name] = None THEN name ELSE Stamp[name]
    IN <<Clean[scan], Clean[name], Clean[TypeOf[i]]>>

NoFile == [of |-> None, whole |-> FALSE]
NoQuery == [ids |-> {}, name |-> None, data_type |-> None]
Files == [of : Items \cup {None}, whole : BOOLEAN]

TypeOK ==
    /\ pc \in {"parse", "list", "root", "create", "read", "undo", "take", "discard", "ended"}
    /\ cid \in Cids /\ base \in BOOLEAN
    /\ query.ids \subseteq Uuids
    /\ todo \in Seq(Items) /\ parts \in Seq(Items)
    /\ present \subseteq Items
    /\ root \in {"none", "there", "removed"}
    /\ files \in [{PathOf(i) : i \in Items} -> Files] /\ manifest \in Files
    /\ outcome \in {"none", "refused", "failed", "dropped", "ok"}
    /\ left \subseteq {"dropped", "removal", "unreadable"}

Init ==
    /\ pc = "parse" /\ cid \in Cids /\ base \in BOOLEAN
    /\ query = NoQuery /\ todo = <<>> /\ parts = <<>>
    /\ present \in SUBSET Items
    /\ root = "none" /\ files = [p \in {PathOf(i) : i \in Items} |-> NoFile]
    /\ manifest = NoFile /\ outcome = "none" /\ left = {}

-----------------------------------------------------------------------------
(* The CID.                                                                *)

\* The places where ".../domains/{domain}/data" begins.
Heads(segments) ==
    {i \in 1..Len(segments) : /\ segments[i] = "domains" /\ i + 2 <= Len(segments)
                              /\ segments[i + 2] = "data"}
First(places) == CHOOSE i \in places : \A j \in places : i <= j

\* Mutant: the segment behind "data" is looked for one place too far.
DataId_OffByOne(segments) ==
    IF Heads(segments) = {} \/ First(Heads(segments)) + 4 > Len(segments) THEN None
    ELSE segments[First(Heads(segments)) + 4]

\* The segment behind "data".
DataId(segments) ==
    IF Heads(segments) = {} \/ First(Heads(segments)) + 3 > Len(segments) THEN None
    ELSE segments[First(Heads(segments)) + 3]

DomainIn(segments) ==
    IF Heads(segments) = {} THEN None ELSE segments[First(Heads(segments)) + 1]

\* The first value of a key counts.
Value(pairs, key) ==
    LET at == {k \in 1..Len(pairs) : pairs[k].key = key}
    IN IF at = {} THEN None ELSE pairs[First(at)].value

\* Mutant: an empty token is taken for an id.
ListedIds_Empty(pairs) ==
    UNION {ToSet(pairs[k].value) : k \in {n \in 1..Len(pairs) : pairs[n].key = "ids"}}

\* All the tokens of "ids" that are not empty.
ListedIds(pairs) ==
    {id \in UNION {ToSet(pairs[k].value) : k \in {n \in 1..Len(pairs) : pairs[n].key = "ids"}} :
        id # ""}

\* The segments that are not empty.
Segments(url) ==
    LET kept[n \in 0..Len(url.path)] ==
            IF n = 0 THEN <<>>
            ELSE IF url.path[n] = "" THEN kept[n - 1] ELSE Append(kept[n - 1], url.path[n])
    IN kept[Len(url.path)]

\* parse_download_target: an id in the path overrides those of the query.
Ids(url) ==
    IF DataId(Segments(url)) # None THEN {DataId(Segments(url))} ELSE ListedIds(url.query)

QueryOf(c) ==
    IF c.form = "id" THEN [NoQuery EXCEPT !.ids = {c.id}]
    ELSE [ids |-> Ids(c),
          name |-> Value(c.query, "name"), data_type |-> Value(c.query, "data_type")]

\* Mutant: the ids are passed on as they are.
Refused_AnyId(c) ==
    \/ c.form = "malformed"
    \/ /\ c.form = "url"
       /\ (c.relative /\ ~base) \/ DomainIn(Segments(c)) \notin {None, Own}

\* A URL of another Domain is refused; one without any Domain is not.
Refused(c) ==
    \/ c.form = "malformed"
    \/ c.form = "id" /\ c.id \notin Uuids
    \/ /\ c.form = "url"
       /\ \/ c.relative /\ ~base
          \/ ~(Ids(c) \subseteq Uuids)
          \/ DomainIn(Segments(c)) \notin {None, Own}

-----------------------------------------------------------------------------
(* The download.                                                           *)

End(o) == pc' = "ended" /\ outcome' = o

\* parse_cid.
Parse ==
    /\ pc = "parse"
    /\ IF Refused(cid) THEN End("refused") /\ UNCHANGED query
       ELSE pc' = "list" /\ query' = QueryOf(cid) /\ UNCHANGED outcome
    /\ UNCHANGED <<cid, base, todo, parts, present, root, files, manifest, left>>

\* External: which items the Domain finds.
Matches(i) ==
    /\ query.ids = {} \/ i \in query.ids
    /\ query.name \in {None, NameOf[i]} /\ query.data_type \in {None, TypeOf[i]}

\* The items come in any order; none is an error.
List ==
    /\ pc = "list"
    /\ LET found == {i \in present : Matches(i)} IN
          \E order \in SetToSeqs(found) :
              found # {} /\ todo' = order /\ pc' = "root"
    /\ UNCHANGED <<cid, base, query, parts, present, root, files, manifest, outcome, left>>

ListFails ==
    /\ pc = "list" /\ End("failed")
    /\ UNCHANGED <<cid, base, query, todo, parts, present, root, files, manifest, left>>

\* create_dir_all on a root with a name of its own.
MakeRoot ==
    /\ pc = "root"
    /\ \/ root' = "there" /\ pc' = "create" /\ UNCHANGED outcome
       \/ End("failed") /\ UNCHANGED root
    /\ UNCHANGED <<cid, base, query, todo, parts, present, files, manifest, left>>

\* The next item's file is created, or truncated.
Create ==
    /\ pc = "create"
    /\ files' = [files EXCEPT ![PathOf(Head(todo))] = [of |-> Head(todo), whole |-> FALSE]]
    /\ pc' = "read"
    /\ UNCHANGED <<cid, base, query, todo, parts, present, root, manifest, outcome, left>>

\* Its directory or its file cannot be made, or its transfer fails.
StepFails ==
    /\ pc \in {"create", "read"} /\ pc' = "undo"
    /\ UNCHANGED <<cid, base, query, todo, parts, present, root, files, manifest,
                   outcome, left>>

\* read_into: every byte is in the file when it returns.
Read ==
    /\ pc = "read" /\ Head(todo) \in present
    /\ files' = [files EXCEPT ![PathOf(Head(todo))].whole = TRUE]
    /\ parts' = Append(parts, Head(todo)) /\ todo' = Tail(todo)
    /\ pc' = IF todo' = <<>> THEN "take" ELSE "create"
    /\ UNCHANGED <<cid, base, query, present, root, manifest, outcome, left>>

\* remove_dir_all, the failure of which nobody looks at.
RemoveRoot ==
    \/ /\ root' = "removed" /\ UNCHANGED left
       /\ files' = [p \in DOMAIN files |-> NoFile]
    \/ left' = left \cup {"removal"} /\ UNCHANGED <<root, files>>

\* Mutant: the first failure is returned at once.
Undo_NoRemoval ==
    /\ pc = "undo" /\ End("failed")
    /\ UNCHANGED <<cid, base, query, todo, parts, present, root, files, manifest, left>>

\* A download that fails takes its root with it.
Undo ==
    /\ pc = "undo" /\ End("failed")
    /\ RemoveRoot
    /\ UNCHANGED <<cid, base, query, todo, parts, present, manifest>>

-----------------------------------------------------------------------------
(* The runner.                                                             *)

\* Mutant: the last item is taken for the manifest.
Primary_Last == Last(parts)

\* parts.remove(0)
Primary == Head(parts)

\* The runner reads the file of the first item; if it cannot, it gives up and
\* the root stays.
Take ==
    /\ pc = "take"
    /\ \/ manifest' = files[PathOf(Primary)] /\ pc' = "discard" /\ UNCHANGED <<outcome, left>>
       \/ End("failed") /\ left' = left \cup {"unreadable"} /\ UNCHANGED manifest
    /\ UNCHANGED <<cid, base, query, todo, parts, present, root, files>>

Discard ==
    /\ pc = "discard" /\ End("ok")
    /\ RemoveRoot
    /\ UNCHANGED <<cid, base, query, todo, parts, present, manifest>>

\* The run is dropped where it waits, by a lost lease or an interrupt; nobody
\* cleans the temp directory.
Drop ==
    /\ pc # "ended" /\ End("dropped")
    /\ left' = IF root = "there" THEN left \cup {"dropped"} ELSE left
    /\ UNCHANGED <<cid, base, query, todo, parts, present, root, files, manifest>>

\* External: others add and delete items.
DomainChanges ==
    /\ pc # "ended"
    /\ \E i \in Items : present' \in {present \cup {i}, present \ {i}}
    /\ UNCHANGED <<pc, cid, base, query, todo, parts, root, files, manifest, outcome, left>>

Next ==
    \/ Parse \/ List \/ ListFails \/ MakeRoot \/ Create \/ StepFails \/ Read \/ Undo
    \/ Take \/ Discard \/ Drop \/ DomainChanges

Spec == Init /\ [][Next]_vars

-----------------------------------------------------------------------------
(* Properties.                                                             *)

\* The forms of a CID that the doc comment of materialize lists (io.rs 145-146):
\* a data UUID, .../domains/{d}/data/{id}, and .../domains/{d}/data with ids,
\* names and types to select by.
EndsWith(url, tail) ==
    /\ Len(url.path) >= Len(tail)
    /\ SubSeq(url.path, Len(url.path) - Len(tail) + 1, Len(url.path)) = tail
    /\ \A k \in 1..(Len(url.path) - Len(tail)) : url.path[k] \notin {"", "domains", "data"}
ItemUrl(c, d, i) == c.form = "url" /\ EndsWith(c, <<"domains", d, "data", i>>) /\ c.query = <<>>
QueryUrl(c, d) == c.form = "url" /\ EndsWith(c, <<"domains", d, "data">>)

\* The items that a CID of one of these forms names.
Selected(pairs, i) ==
    /\ \A p \in ToSet(pairs) : p.key = "ids" => ToSet(p.value) \subseteq Uuids \cup {""}
    /\ \/ \A p \in ToSet(pairs) : p.key = "ids" => ToSet(p.value) \subseteq {""}
       \/ \E p \in ToSet(pairs) : p.key = "ids" /\ i \in ToSet(p.value)
    /\ \A k \in 1..Len(pairs) :
          (pairs[k].key = "name" /\ \A j \in 1..(k - 1) : pairs[j].key # "name")
              => pairs[k].value = NameOf[i]
    /\ \A k \in 1..Len(pairs) :
          (pairs[k].key = "data_type" /\ \A j \in 1..(k - 1) : pairs[j].key # "data_type")
              => pairs[k].value = TypeOf[i]

Named(c, i) ==
    \/ c.form = "id" /\ c.id = i
    \/ ItemUrl(c, Own, i)
    \/ QueryUrl(c, Own) /\ Selected(c.query, i)

Documented(c) ==
    \/ c.form = "id"
    \/ \E d, i \in Uuids : ItemUrl(c, d, i) \/ QueryUrl(c, d)

\* For a CID of a documented form the Domain is asked for the items it names and
\* for no others, and another Domain's URL is never answered from the task's own
\* (parse_cid, parse_download_target).
AsksWhatIsNamed ==
    pc \in {"list", "root", "create", "read", "take", "discard"} /\ Documented(cid) =>
        \A i \in Items : Matches(i) <=> Named(cid, i)

\* No CID that names an item of the task's Domain is refused, unless it is
\* relative to a server the lease does not name.
NamedIsNotRefused ==
    outcome = "refused" /\ (\E i \in Items : Named(cid, i)) =>
        cid.form = "url" /\ cid.relative /\ ~base

\* What the runner takes for its manifest is a whole item, and the one whose
\* name and id it reports, unless two of the items have one path (io.rs 331-345
\* against lib.rs 131-155).
ManifestIsPrimary ==
    manifest # NoFile =>
        /\ manifest.whole
        /\ \/ manifest.of = parts[1]
           \/ \E k \in 2..Len(parts) :
                 PathOf(parts[k]) = PathOf(parts[1]) /\ manifest.of = parts[k]

\* The temp directory is left as it was, except by a run that is dropped, a
\* removal that fails, or a manifest that cannot be read (io.rs 349, lib.rs 155).
RootIsRemoved == pc = "ended" /\ root = "there" => left # {}

-----------------------------------------------------------------------------
(* The inductive invariant behind them.                                    *)

\* What is asked is what the CID says, from the moment it was parsed.
QueryInv ==
    /\ outcome = "refused" => Refused(cid)
    /\ pc \in {"list", "root", "create", "read", "undo", "take", "discard"} =>
          ~Refused(cid) /\ query = QueryOf(cid)

\* The k-th item's file is whole, and is its own or that of a later item of the
\* same path.
Landed(k) ==
    \E j \in k..Len(parts) :
        /\ PathOf(parts[j]) = PathOf(parts[k])
        /\ files[PathOf(parts[k])] = [of |-> parts[j], whole |-> TRUE]

\* Every item downloaded is on the disk, but for one whose file is being
\* overwritten.
FilesInv ==
    /\ pc \in {"parse", "list", "root"} => parts = <<>>
    /\ pc \in {"root", "create", "read"} => todo # <<>>
    /\ pc = "read" => files[PathOf(Head(todo))].of = Head(todo)
    /\ pc = "take" => parts # <<>>
    /\ pc \in {"create", "read", "take"} =>
          \A k \in 1..Len(parts) :
              Landed(k) \/ (pc = "read" /\ PathOf(parts[k]) = PathOf(Head(todo)))
    /\ pc \notin {"discard", "ended"} => manifest = NoFile

\* What is downloaded, and what is taken for the manifest, was asked for.
FoundInv ==
    /\ pc = "parse" => todo = <<>>
    /\ \A k \in 1..Len(todo) : Matches(todo[k])
    /\ \A k \in 1..Len(parts) : Matches(parts[k])
    /\ manifest # NoFile =>
          manifest.of \in Items /\ Matches(manifest.of) /\ ~Refused(cid) /\ query = QueryOf(cid)

\* There is no root before it is made.
RootInv == pc \in {"parse", "list", "root"} => root # "there"

IInv ==
    /\ TypeOK /\ QueryInv /\ FilesInv /\ FoundInv /\ ManifestIsPrimary
    /\ RootInv /\ RootIsRemoved
=============================================================================
