---------------------------- MODULE SQLiteMemory ----------------------------
(***************************************************************************)
(* The memory of the command line host: records with revisions, their      *)
(* sources and word index, candidates a Run proposes, the outbox that has  *)
(* them checked once the Run has ended, their adoption by the user, and    *)
(* what forgetting a record suppresses.                                    *)
(*                                                                         *)
(*   agent_adapters/storage/memory.py    SQLiteMemory                      *)
(*   agent_subsystems/memory/context.py  RunMemoryContext                  *)
(*                                                                         *)
(* Every mutation is one transaction (BEGIN IMMEDIATE), so one action.     *)
(* What users and Runs read, they use in later transactions.               *)
(***************************************************************************)
EXTENDS Integers, FiniteSets

CONSTANTS
    Runs,         \* Runs of the environment
    ScopeOf,      \* the task of a Run
    Users,        \* those who manage the memory, in any number of processes
    Contents,     \* texts of records, up to their fingerprint
    MaxMemories,  \* bound: records
    MaxRevision,  \* bound: revisions of a record
    MaxSources,   \* bound: sources of a proposal, at most 10 in the code
    None          \* no content, no record

ASSUME MemoryAssumption ==
    /\ ScopeOf \in [Runs -> STRING]
    /\ MaxMemories \in Nat /\ MaxRevision \in Nat \ {0}
    /\ None \notin Contents \cup (1 .. MaxMemories)

VARIABLES
    run,         \* a Run: "none", "open", "ended"
    job,         \* its row in memory_jobs: "none", "pending", "done"
    status,      \* a record: "none", "active", "disabled", "forgotten"
    revision,    \* its revision
    content,     \* the text of that revision; None once it is deleted
    sources,     \* the sources of that revision
    lineage,     \* every source the record ever had
    words,       \* the text whose terms are in the index; None if none are
    suppressed,  \* the keys of memory_suppressed
    candidate,   \* the candidate a Run has proposed
    copy,        \* the record a user has read, with its revision and text
    review,      \* the candidate a user has read, with its revision
    selected,    \* what a Run retrieved when it first asked the memory
    sent         \* what went into its last model request

records == <<status, revision, content, sources, lineage, words, suppressed>>
vars == <<run, job, status, revision, content, sources, lineage, words, suppressed,
          candidate, copy, review, selected, sent>>

Memories == 1 .. MaxMemories

(* A request or a tool result of a Run; a revision of a record; the user.  *)
Sources == [kind : {"run"}, run : Runs]
           \cup [kind : {"memory"}, id : Memories, revision : 1 .. MaxRevision]
           \cup {[kind |-> "user"]}

(* Keys: a source, a record that was forgotten, a text.                    *)
Keys == [source : Sources] \cup [id : Memories] \cup [content : Contents]

NoCandidate == [status |-> "none"]
Candidate ==
    [status : {"pending", "ready", "invalid", "rejected", "adopted"}, revision : Nat,
     content : Contents, sources : SUBSET Sources, memory : Memories \cup {None}]

Items == [id : Memories, revision : Nat, content : Contents]
Nothing == [id |-> None]

TypeOK ==
    /\ run \in [Runs -> {"none", "open", "ended"}]
    /\ job \in [Runs -> {"none", "pending", "done"}]
    /\ status \in [Memories -> {"none", "active", "disabled", "forgotten"}]
    /\ revision \in [Memories -> 0 .. MaxRevision]
    /\ content \in [Memories -> Contents \cup {None}]
    /\ sources \in [Memories -> SUBSET Sources]
    /\ lineage \in [Memories -> SUBSET Sources]
    /\ words \in [Memories -> Contents \cup {None}]
    /\ suppressed \in SUBSET Keys
    /\ candidate \in [Runs -> Candidate \cup {NoCandidate}]
    /\ copy \in [Users -> Items \cup {Nothing}]
    /\ review \in [Users -> [run : Runs, revision : Nat] \cup {Nothing}]
    /\ selected \in [Runs -> SUBSET Items]
    /\ sent \in [Runs -> SUBSET Items]

Init ==
    /\ run = [r \in Runs |-> "none"]
    /\ job = [r \in Runs |-> "none"]
    /\ status = [m \in Memories |-> "none"]
    /\ revision = [m \in Memories |-> 0]
    /\ content = [m \in Memories |-> None]
    /\ sources = [m \in Memories |-> {}]
    /\ lineage = [m \in Memories |-> {}]
    /\ words = [m \in Memories |-> None]
    /\ suppressed = {}
    /\ candidate = [r \in Runs |-> NoCandidate]
    /\ copy = [u \in Users |-> Nothing]
    /\ review = [u \in Users |-> Nothing]
    /\ selected = [r \in Runs |-> {}]
    /\ sent = [r \in Runs |-> {}]

-----------------------------------------------------------------------------
(* Helpers                                                                 *)

Active(m) == status[m] = "active"
Known(m) == status[m] \in {"active", "disabled"}
Item(m) == [id |-> m, revision |-> revision[m], content |-> content[m]]

(* read(): the active record, at the revision asked for.                   *)
Current(item) == Active(item.id) /\ revision[item.id] = item.revision

(* A new revision: text, sources, lineage and index together.              *)
Revised(m, text, from) ==
    /\ revision' = [revision EXCEPT ![m] = @ + 1]
    /\ content' = [content EXCEPT ![m] = text]
    /\ sources' = [sources EXCEPT ![m] = from]
    /\ lineage' = [lineage EXCEPT ![m] = @ \cup from]
    /\ words' = [words EXCEPT ![m] = text]

Duplicates(text) == {m \in Memories : Known(m) /\ content[m] = text}
Unused == {m \in Memories : status[m] = "none"}

(* _save(): a text that is known, disabled or not, gains the sources, any  *)
(* other becomes a new active record. m is the record.                     *)
\* Mutant: a known text gains nothing.
MutantSaved(m, text, from) ==
    \/ m \in Duplicates(text) /\ UNCHANGED <<status, revision, content, sources, lineage, words>>
    \/ /\ Duplicates(text) = {} /\ m \in Unused
       /\ status' = [status EXCEPT ![m] = "active"]
       /\ Revised(m, text, from)

Saved(m, text, from) ==
    \/ /\ m \in Duplicates(text)
       /\ lineage' = [lineage EXCEPT ![m] = @ \cup from]
       /\ UNCHANGED <<status, revision, content, sources, words>>
    \/ /\ Duplicates(text) = {} /\ m \in Unused
       /\ status' = [status EXCEPT ![m] = "active"]
       /\ Revised(m, text, from)

(* _validate_sources(): a Run of the same task, a current active record.   *)
Valid(source, r) ==
    \/ source.kind = "run" /\ run[source.run] # "none" /\ ScopeOf[source.run] = ScopeOf[r]
    \/ source.kind = "memory" /\ Current(source)

Suppressed(text, from) ==
    \/ [content |-> text] \in suppressed
    \/ \E s \in from : \/ [source |-> s] \in suppressed
                       \/ s.kind = "memory" /\ [id |-> s.id] \in suppressed

Adoptable(r, text) ==
    /\ \A s \in candidate[r].sources : Valid(s, r)
    /\ ~Suppressed(text, candidate[r].sources)

-----------------------------------------------------------------------------
(* Users: saving, reading, and acting on what they have read               *)

(* An explicit save looks at no suppression.                               *)
Save(text) ==
    /\ \E m \in Memories : Saved(m, text, {[kind |-> "user"]})
    /\ UNCHANGED <<run, job, suppressed, candidate, copy, review, selected, sent>>

Read(u, m) ==
    /\ Known(m)
    /\ copy' = [copy EXCEPT ![u] = Item(m)]
    /\ UNCHANGED <<run, job, records, candidate, review, selected, sent>>

(* The compare-and-set of every change; what a user has read is used once. *)
\* Mutant: the revision is not compared.
MutantSwaps(u, m) ==
    /\ copy[u].id = m /\ Known(m)
    /\ copy' = [copy EXCEPT ![u] = Nothing]
    /\ UNCHANGED <<run, job, candidate, review, selected, sent>>

Swaps(u, m) ==
    /\ copy[u].id = m /\ Known(m)
    /\ copy[u].revision = revision[m]
    /\ copy' = [copy EXCEPT ![u] = Nothing]
    /\ UNCHANGED <<run, job, candidate, review, selected, sent>>

(* revise(): the user becomes one of the sources.                          *)
Revise(u, m, text) ==
    /\ Swaps(u, m) /\ revision[m] < MaxRevision
    /\ Revised(m, text, sources[m] \cup {[kind |-> "user"]})
    /\ UNCHANGED <<status, suppressed>>

(* set_status(): a revision more, with the same text and sources.          *)
SetStatus(u, m, next) ==
    /\ Swaps(u, m) /\ revision[m] < MaxRevision
    /\ status' = [status EXCEPT ![m] = next]
    /\ Revised(m, content[m], sources[m])
    /\ UNCHANGED suppressed

(* Text, sources and index are deleted; what the record came from, the     *)
(* record and its last text are remembered by their keys.                  *)
\* Mutant: the index is kept.
MutantErased(m) ==
    /\ content' = [content EXCEPT ![m] = None]
    /\ sources' = [sources EXCEPT ![m] = {}]
    /\ UNCHANGED words

Erased(m) ==
    /\ content' = [content EXCEPT ![m] = None]
    /\ sources' = [sources EXCEPT ![m] = {}]
    /\ words' = [words EXCEPT ![m] = None]

Forget(u, m) ==
    /\ Swaps(u, m) /\ revision[m] < MaxRevision
    /\ status' = [status EXCEPT ![m] = "forgotten"]
    /\ revision' = [revision EXCEPT ![m] = @ + 1]
    /\ suppressed' = suppressed \cup {[source |-> s] : s \in lineage[m]}
                                \cup {[id |-> m], [content |-> content[m]]}
    /\ Erased(m)
    /\ UNCHANGED lineage

(* rebuild() writes the index again from the current revisions.            *)
Rebuild ==
    /\ words' = content
    /\ UNCHANGED <<run, job, status, revision, content, sources, lineage, suppressed,
                   candidate, copy, review, selected, sent>>

-----------------------------------------------------------------------------
(* Runs: retrieval and proposals                                           *)

StartRun(r) ==
    /\ run[r] = "none"
    /\ run' = [run EXCEPT ![r] = "open"]
    /\ UNCHANGED <<job, records, candidate, copy, review, selected, sent>>

(* Retrieval happens once. The items: those a request would contain.       *)
Select(r, ids) ==
    /\ run[r] = "open" /\ selected[r] = {}
    /\ ids \subseteq {m \in Memories : Active(m)} /\ ids # {}
    /\ selected' = [selected EXCEPT ![r] = {Item(m) : m \in ids}]
    /\ UNCHANGED <<run, job, records, candidate, copy, review, sent>>

(* revalidate(), before each model request.                                *)
\* Mutant: a record that is active is enough.
MutantAllowed(items) == {i \in items : Active(i.id)}
Allowed(items) == {i \in items : Current(i)}

Request(r) ==
    /\ run[r] = "open" /\ selected[r] # {}
    /\ sent' = [sent EXCEPT ![r] = Allowed(selected[r])]
    /\ UNCHANGED <<run, job, records, candidate, copy, review, selected>>

(* propose(): nothing of a Run that has ended, whatever its tool does      *)
(* late. A repeated call returns the candidate there is.                   *)
\* Mutant: the end of the Run is not looked at.
MutantMayPropose(r) == candidate[r] = NoCandidate /\ run[r] # "none"
MayPropose(r) == candidate[r] = NoCandidate /\ run[r] = "open"

Propose(r, text, from) ==
    /\ MayPropose(r)
    /\ candidate' = [candidate EXCEPT ![r] =
           [status |-> "pending", revision |-> 1, content |-> text, sources |-> from,
            memory |-> None]]
    /\ UNCHANGED <<run, job, records, copy, review, selected, sent>>

(* The transaction that ends a Run queues the job (memory_outbox).         *)
EndRun(r) ==
    /\ run[r] = "open"
    /\ run' = [run EXCEPT ![r] = "ended"]
    /\ job' = [job EXCEPT ![r] = IF candidate[r] # NoCandidate THEN "pending" ELSE "none"]
    /\ UNCHANGED <<records, candidate, copy, review, selected, sent>>

-----------------------------------------------------------------------------
(* Candidates                                                              *)

(* process(), one job: a candidate whose sources do not hold, or do not    *)
(* support what it claims (verify_claim), or are suppressed is invalid.    *)
Process(r, supported) ==
    /\ run[r] = "ended" /\ job[r] = "pending"
    /\ job' = [job EXCEPT ![r] = "done"]
    /\ candidate' = [candidate EXCEPT ![r] =
           IF @.status # "pending" THEN @
           ELSE [@ EXCEPT !.status = IF supported /\ Adoptable(r, candidate[r].content)
                                     THEN "ready" ELSE "invalid"]]
    /\ UNCHANGED <<run, records, copy, review, selected, sent>>

Review(u, r) ==
    /\ candidate[r].status \in {"pending", "ready", "invalid"}
    /\ review' = [review EXCEPT ![u] =
           [run |-> r, revision |-> candidate[r].revision]]
    /\ UNCHANGED <<run, job, records, candidate, copy, selected, sent>>

(* decide(): the revision that was read is compared, a candidate that has  *)
(* been adopted stays so.                                                  *)
Decides(u, r) ==
    /\ review[u] # Nothing /\ review[u].run = r /\ candidate[r] # NoCandidate
    /\ candidate[r].revision = review[u].revision
    /\ review' = [review EXCEPT ![u] = Nothing]
    /\ UNCHANGED <<run, job, copy, selected, sent>>

Decided(c, verdict, text, m) ==
    [status |-> verdict, revision |-> c.revision + 1, content |-> text,
     sources |-> c.sources, memory |-> m]

Reject(u, r) ==
    /\ Decides(u, r)
    /\ candidate[r].status # "adopted"
    /\ candidate' = [candidate EXCEPT ![r] = Decided(@, "rejected", @.content, @.memory)]
    /\ UNCHANGED records

(* The user may change the text; the sources are validated again.          *)
Adopt(u, r, text, m) ==
    /\ Decides(u, r)
    /\ candidate[r].status = "ready"
    /\ Adoptable(r, text)
    /\ Saved(m, text, candidate[r].sources)
    /\ candidate' = [candidate EXCEPT ![r] = Decided(@, "adopted", text, m)]
    /\ UNCHANGED suppressed

(* The sources a proposal names.                                           *)
Proposals == {from \in SUBSET {s \in Sources : s.kind # "user"} :
                  Cardinality(from) \in 1 .. MaxSources}

Next ==
    \/ \E text \in Contents : Save(text)
    \/ Rebuild
    \/ \E u \in Users, m \in Memories :
           \/ Read(u, m) \/ Forget(u, m)
           \/ \E text \in Contents : Revise(u, m, text)
           \/ \E next \in {"active", "disabled"} : SetStatus(u, m, next)
    \/ \E r \in Runs :
           \/ StartRun(r) \/ Request(r) \/ EndRun(r)
           \/ \E ids \in SUBSET Memories : Select(r, ids)
           \/ \E text \in Contents, from \in Proposals : Propose(r, text, from)
           \/ \E supported \in BOOLEAN : Process(r, supported)
           \/ \E u \in Users :
                  \/ Review(u, r) \/ Reject(u, r)
                  \/ \E text \in Contents, m \in Memories : Adopt(u, r, text, m)

Spec == Init /\ [][Next]_vars

-----------------------------------------------------------------------------
(* Properties                                                              *)

(* A candidate that is not checked yet waits for the end of its Run, or in *)
(* the outbox: however late its tool runs, and however often the outbox is *)
(* worked off, none is passed over (memory.py:305, 448; sqlite.py:93).     *)
CandidatesAwaited ==
    \A r \in Runs : candidate[r].status = "pending" =>
        run[r] = "open" \/ (run[r] = "ended" /\ job[r] = "pending")

(* The index finds a record by its current text, and a forgotten one not   *)
(* at all (memory.py:157, 262).                                            *)
IndexIsCurrent == words = content

FromRuns(from) == {s \in from : s.kind = "run"}

(* No candidate brings back what was forgotten: none is adopted that rests *)
(* on a request or tool result a forgotten record came from, also when the *)
(* record came from several of them (foundational-memory-l2.md).           *)
AdoptedNow(r) == candidate[r].status # "adopted" /\ candidate'[r].status = "adopted"
WasForgotten(q) == candidate[q].status = "adopted" /\ status[candidate[q].memory] = "forgotten"
RevivesNothing ==
    \A r, q \in Runs : AdoptedNow(r) /\ WasForgotten(q) =>
        FromRuns(candidate'[r].sources) \cap FromRuns(candidate[q].sources) = {}
ForgottenForGood == [][RevivesNothing]_vars

(* Nobody changes, stops or forgets a text he has not seen: who acts on a  *)
(* record has read the text it has (memory.py:233-237).                    *)
SeenBefore ==
    \A m \in Memories :
        Known(m) /\ (content'[m] # content[m] \/ status'[m] # status[m]) =>
            \E u \in Users : /\ copy'[u] # copy[u]
                             /\ copy[u].id = m /\ copy[u].content = content[m]
NoLostEdit == [][SeenBefore]_vars

(* What a model is told from memory is active and is the current text when *)
(* the request is made, although it was retrieved when the Run began       *)
(* (context.py:15-29).                                                     *)
CurrentlyTrue ==
    \A r \in Runs : sent'[r] # sent[r] =>
        \A i \in sent'[r] : Active(i.id) /\ content[i.id] = i.content
OnlyCurrentSent == [][CurrentlyTrue]_vars

(* A record that stays what it was is no second source of what was         *)
(* forgotten either. The code does not keep this: the revision is part of  *)
(* the key, and stopping and enabling the record gives its text another.   *)
SameRecord(s, t) == s.kind = "memory" /\ t.kind = "memory" /\ s.id = t.id
MemorySourceForgotten ==
    [][\A r, q \in Runs : AdoptedNow(r) /\ WasForgotten(q) =>
          \A s \in candidate'[r].sources, t \in candidate[q].sources : ~SameRecord(s, t)]_vars
=============================================================================
