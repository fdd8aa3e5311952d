-------------------------- MODULE SQLiteMemoryProofs --------------------------
(***************************************************************************)
(* Proofs about SQLiteMemory, for any number of Runs, users, texts and     *)
(* records: what is forgotten stays forgotten, nobody acts on a text he    *)
(* has not seen, and no candidate is passed over.                          *)
(***************************************************************************)
EXTENDS SQLiteMemory, TLAPS

(* A record has a text exactly while it is known, and revisions from one.  *)
RecordsWhole ==
    \A m \in Memories :
        /\ Known(m) => content[m] \in Contents /\ revision[m] >= 1
        /\ ~Known(m) => content[m] = None
        /\ status[m] = "none" => revision[m] = 0

(* What somebody has read is what the record says, as long as the record   *)
(* has that revision.                                                      *)
ReadTruly(i) ==
    /\ i.revision \in 1 .. revision[i.id]
    /\ Known(i.id) /\ i.revision = revision[i.id] => i.content = content[i.id]

CopiesTrue ==
    /\ \A u \in Users : copy[u] # Nothing => ReadTruly(copy[u])
    /\ \A r \in Runs : \A i \in selected[r] : ReadTruly(i)

(* A record remembers the sources of every candidate adopted into it.      *)
AdoptionsTraced ==
    \A r \in Runs : candidate[r].status = "adopted" =>
        /\ candidate[r].memory \in Memories
        /\ status[candidate[r].memory] # "none"
        /\ candidate[r].sources \subseteq lineage[candidate[r].memory]

(* All sources of a forgotten record are suppressed.                       *)
ForgottenSuppressed ==
    \A m \in Memories : status[m] = "forgotten" =>
        \A s \in lineage[m] : [source |-> s] \in suppressed

MemoryInv == /\ TypeOK /\ RecordsWhole /\ IndexIsCurrent /\ CandidatesAwaited
             /\ CopiesTrue /\ AdoptionsTraced /\ ForgottenSuppressed

(* What _save() does, whichever record it returns.                         *)
LEMMA SavedFacts ==
  ASSUME MemoryInv, NEW m \in Memories, NEW text \in Contents, NEW from \in SUBSET Sources,
         Saved(m, text, from)
  PROVE  /\ status' \in [Memories -> {"none", "active", "disabled", "forgotten"}]
         /\ revision' \in [Memories -> 0 .. MaxRevision]
         /\ content' \in [Memories -> Contents \cup {None}]
         /\ sources' \in [Memories -> SUBSET Sources]
         /\ lineage' \in [Memories -> SUBSET Sources]
         /\ words' \in [Memories -> Contents \cup {None}]
         /\ Known(m)' /\ revision'[m] >= 1 /\ content'[m] = text
         /\ from \subseteq lineage'[m] /\ lineage[m] \subseteq lineage'[m]
         /\ status[m] # "forgotten"
         /\ \/ UNCHANGED <<status, revision, content, sources, words>> /\ Known(m)
            \/ status[m] = "none" /\ revision[m] = 0
         /\ \A n \in Memories \ {m} :
               /\ status'[n] = status[n] /\ revision'[n] = revision[n]
               /\ content'[n] = content[n] /\ lineage'[n] = lineage[n]
<1> USE MemoryAssumption DEF MemoryInv
<1>1. CASE m \in Duplicates(text) /\ lineage' = [lineage EXCEPT ![m] = @ \cup from]
           /\ UNCHANGED <<status, revision, content, sources, words>>
  BY <1>1 DEF TypeOK, RecordsWhole, Duplicates, Known
<1>2. CASE /\ m \in Unused /\ status' = [status EXCEPT ![m] = "active"]
           /\ Revised(m, text, from)
  <2>1. /\ status[m] = "none" /\ revision[m] = 0 /\ ~Known(m)
        /\ 0 + 1 \in 0 .. MaxRevision
    BY <1>2 DEF TypeOK, RecordsWhole, Unused, Known
  <2>2. /\ status' \in [Memories -> {"none", "active", "disabled", "forgotten"}]
        /\ status'[m] = "active"
        /\ \A n \in Memories \ {m} : status'[n] = status[n]
    BY <1>2 DEF TypeOK
  <2>3. /\ revision' \in [Memories -> 0 .. MaxRevision] /\ revision'[m] = 1
        /\ \A n \in Memories \ {m} : revision'[n] = revision[n]
    BY <1>2, <2>1 DEF TypeOK, Revised
  <2>4. /\ content' \in [Memories -> Contents \cup {None}] /\ content'[m] = text
        /\ words' \in [Memories -> Contents \cup {None}]
        /\ \A n \in Memories \ {m} : content'[n] = content[n]
    BY <1>2 DEF TypeOK, Revised
  <2>5. /\ sources' \in [Memories -> SUBSET Sources]
        /\ lineage' \in [Memories -> SUBSET Sources]
        /\ lineage'[m] = lineage[m] \cup from
        /\ \A n \in Memories \ {m} : lineage'[n] = lineage[n]
    BY <1>2 DEF TypeOK, Revised
  <2>6. QED
    BY <2>1, <2>2, <2>3, <2>4, <2>5 DEF Known
<1>3. QED
  BY <1>1, <1>2 DEF Saved

(* A save touches no revision that somebody can have read.                 *)
LEMMA SavedReads ==
  ASSUME MemoryInv, NEW m \in Memories, NEW text \in Contents, NEW from \in SUBSET Sources,
         Saved(m, text, from), NEW i \in Items, ReadTruly(i)
  PROVE  ReadTruly(i)'
<1>1. i.id \in Memories
  BY DEF Items
<1>2. CASE i.id # m
  <2>1. /\ status'[i.id] = status[i.id] /\ revision'[i.id] = revision[i.id]
        /\ content'[i.id] = content[i.id]
    BY <1>1, <1>2, SavedFacts
  <2>2. QED
    BY <2>1 DEF ReadTruly, Known
<1>3. CASE i.id = m
  <2>1. \/ UNCHANGED <<status, revision, content>>
        \/ revision[m] = 0
    BY SavedFacts
  <2>2. revision[m] # 0
    BY <1>3 DEF ReadTruly
  <2>3. QED
    BY <2>1, <2>2 DEF ReadTruly, Known
<1>4. QED
  BY <1>2, <1>3

(* An adopted candidate keeps its sources and names its record.            *)
LEMMA AdoptFacts ==
  ASSUME MemoryInv, NEW u \in Users, NEW r \in Runs, NEW text \in Contents,
         NEW m \in Memories, Adopt(u, r, text, m)
  PROVE  /\ candidate[r].status = "ready"
         /\ candidate[r].sources \in SUBSET Sources
         /\ Saved(m, text, candidate[r].sources)
         /\ candidate' \in [Runs -> Candidate \cup {NoCandidate}]
         /\ candidate'[r].status = "adopted"
         /\ candidate'[r].memory = m
         /\ candidate'[r].sources = candidate[r].sources
         /\ \A q \in Runs \ {r} : candidate'[q] = candidate[q]
<1> USE DEF MemoryInv
<1>1. candidate[r].status = "ready" /\ Saved(m, text, candidate[r].sources)
  BY DEF Adopt
<1>2. candidate[r] \in Candidate
  BY <1>1 DEF TypeOK, NoCandidate
<1>3. candidate[r].sources \in SUBSET Sources /\ candidate[r].revision \in Nat
  BY <1>2 DEF Candidate
<1> DEFINE c == Decided(candidate[r], "adopted", text, m)
<1>4. /\ c \in Candidate /\ c.status = "adopted" /\ c.memory = m
      /\ c.sources = candidate[r].sources
  BY <1>3 DEF Candidate, Decided
<1>5. candidate' = [candidate EXCEPT ![r] = c]
  BY DEF Adopt
<1> HIDE DEF c
<1>6. /\ candidate' \in [Runs -> Candidate \cup {NoCandidate}]
      /\ candidate'[r] = c
      /\ \A q \in Runs \ {r} : candidate'[q] = candidate[q]
  BY <1>4, <1>5 DEF TypeOK
<1>7. QED
  BY <1>1, <1>3, <1>4, <1>6

(* The types: a decided candidate was there, a read record has a text.     *)
LEMMA TypeOKStep ==
  ASSUME MemoryInv, Next
  PROVE  TypeOK'
<1> USE MemoryAssumption DEF MemoryInv
<1>1. ASSUME NEW text \in Contents, Save(text) PROVE TypeOK'
  <2>1. PICK m \in Memories : Saved(m, text, {[kind |-> "user"]})
    BY <1>1 DEF Save
  <2>2. {[kind |-> "user"]} \in SUBSET Sources
    BY DEF Sources
  <2>3. QED
    BY <1>1, <2>1, <2>2, SavedFacts DEF Save, TypeOK
<1>2. ASSUME Rebuild PROVE TypeOK'
  BY <1>2 DEF TypeOK, Rebuild
<1>3. ASSUME NEW u \in Users, NEW m \in Memories, Read(u, m) PROVE TypeOK'
  BY <1>3 DEF TypeOK, RecordsWhole, Items, records, Item, Read
<1>4. ASSUME NEW u \in Users, NEW m \in Memories, Forget(u, m) PROVE TypeOK'
  BY <1>4 DEF TypeOK, CopiesTrue, Memories, Items, Nothing, NoCandidate,
       Keys, Swaps, Erased, Known, ReadTruly, Forget
<1>5. ASSUME NEW u \in Users, NEW m \in Memories, NEW text \in Contents, Revise(u, m, text) PROVE TypeOK'
  BY <1>5 DEF TypeOK, Sources, Swaps, Revised, Revise
<1>6. ASSUME NEW u \in Users, NEW m \in Memories,
             NEW next \in {"active", "disabled"}, SetStatus(u, m, next) PROVE TypeOK'
  BY <1>6 DEF TypeOK, AdoptionsTraced, ForgottenSuppressed, Swaps, Revised,
       SetStatus
<1>7. ASSUME NEW r \in Runs, StartRun(r) PROVE TypeOK'
  BY <1>7 DEF TypeOK, records, StartRun
<1>8. ASSUME NEW r \in Runs, Request(r) PROVE TypeOK'
  BY <1>8 DEF TypeOK, records, Allowed, Request
<1>9. ASSUME NEW r \in Runs, EndRun(r) PROVE TypeOK'
  BY <1>9 DEF TypeOK, records, EndRun
<1>10. ASSUME NEW r \in Runs, NEW ids \in SUBSET Memories, Select(r, ids) PROVE TypeOK'
  <2>1. \A m \in ids : Item(m) \in Items
    BY <1>10 DEF TypeOK, RecordsWhole, Select, Item, Items, Active, Known
  <2>2. QED
    BY <1>10, <2>1 DEF TypeOK, Select, records
<1>11. ASSUME NEW r \in Runs, NEW text \in Contents, NEW from \in Proposals, Propose(r, text, from) PROVE TypeOK'
  BY <1>11 DEF TypeOK, Candidate, records, Proposals, Propose
<1>12. ASSUME NEW r \in Runs, NEW supported \in BOOLEAN, Process(r, supported) PROVE TypeOK'
  <2>1. CASE candidate[r].status = "pending"
    <3>1. candidate[r] \in Candidate
      BY <2>1 DEF TypeOK, NoCandidate
    <3>2. \A v \in {"ready", "invalid"} : [candidate[r] EXCEPT !.status = v] \in Candidate
      BY <3>1 DEF Candidate
    <3>3. \E v \in {"ready", "invalid"} :
             candidate' = [candidate EXCEPT ![r] = [candidate[r] EXCEPT !.status = v]]
      BY <1>12, <2>1 DEF Process
    <3>4. candidate' \in [Runs -> Candidate \cup {NoCandidate}]
      BY <3>2, <3>3 DEF TypeOK
    <3>5. QED
      BY <1>12, <3>4 DEF TypeOK, Process, records
  <2>2. CASE candidate[r].status # "pending"
    BY <1>12, <2>2 DEF TypeOK, Process, records
  <2>3. QED
    BY <2>1, <2>2
<1>13. ASSUME NEW u \in Users, NEW r \in Runs, Review(u, r) PROVE TypeOK'
  BY <1>13 DEF TypeOK, Candidate, NoCandidate, records, Review
<1>14. ASSUME NEW u \in Users, NEW r \in Runs, Reject(u, r) PROVE TypeOK'
  <2>1. candidate[r] \in Candidate
    BY <1>14 DEF TypeOK, Reject, Decides
  <2>2. Decided(candidate[r], "rejected", candidate[r].content, candidate[r].memory)
           \in Candidate
    BY <2>1 DEF Candidate, Decided
  <2>3. QED
    BY <1>14, <2>2 DEF TypeOK, Reject, Decides, records
<1>15. ASSUME NEW u \in Users, NEW r \in Runs, NEW text \in Contents,
             NEW m \in Memories, Adopt(u, r, text, m) PROVE TypeOK'
  <2>1. Saved(m, text, candidate[r].sources) /\ candidate[r].sources \in SUBSET Sources
    BY <1>15, AdoptFacts
  <2>2. QED
    BY <1>15, <2>1, SavedFacts, AdoptFacts DEF Adopt, Decides, TypeOK
<1>16. QED
  BY <1>1, <1>2, <1>3, <1>4, <1>5, <1>6, <1>7, <1>8, <1>9, <1>10, <1>11,
       <1>12, <1>13, <1>14, <1>15
     DEF Next

(* A new record takes revision one, a forgotten one loses its text.        *)
LEMMA RecordsWholeStep ==
  ASSUME MemoryInv, Next
  PROVE  RecordsWhole'
<1> USE MemoryAssumption DEF MemoryInv
<1>1. CASE UNCHANGED <<status, content, revision>>
  BY <1>1 DEF RecordsWhole, Known
<1>2. ASSUME NEW text \in Contents, Save(text) PROVE RecordsWhole'
  <2>1. PICK m \in Memories : Saved(m, text, {[kind |-> "user"]})
    BY <1>2 DEF Save
  <2>2. {[kind |-> "user"]} \in SUBSET Sources
    BY DEF Sources
  <2>3. QED
    BY <1>2, <2>1, <2>2, SavedFacts DEF Save, RecordsWhole, Known
<1>3. ASSUME NEW u \in Users, NEW m \in Memories, Forget(u, m) PROVE RecordsWhole'
  BY <1>3 DEF RecordsWhole, Known, TypeOK, Erased, Forget
<1>4. ASSUME NEW u \in Users, NEW m \in Memories, NEW text \in Contents, Revise(u, m, text) PROVE RecordsWhole'
  BY <1>4 DEF RecordsWhole, Known, CopiesTrue, Memories, Nothing, Swaps,
       Revised, ReadTruly, Revise
<1>5. ASSUME NEW u \in Users, NEW m \in Memories,
             NEW next \in {"active", "disabled"}, SetStatus(u, m, next) PROVE RecordsWhole'
  BY <1>5 DEF RecordsWhole, Known, CopiesTrue, Memories, Nothing, Swaps,
       Revised, ReadTruly, SetStatus
<1>6. ASSUME NEW u \in Users, NEW r \in Runs, NEW text \in Contents,
             NEW m \in Memories, Adopt(u, r, text, m) PROVE RecordsWhole'
  <2>1. Saved(m, text, candidate[r].sources) /\ candidate[r].sources \in SUBSET Sources
    BY <1>6, AdoptFacts
  <2>2. QED
    BY <1>6, <2>1, SavedFacts, AdoptFacts DEF Adopt, Decides, RecordsWhole, Known
<1>7. QED
  BY <1>1, <1>2, <1>3, <1>4, <1>5, <1>6
     DEF Next, Rebuild, Read, records, StartRun, Request, EndRun, Select,
       Propose, Process, Review, Reject, Decides

(* Whoever writes a text writes its index.                                 *)
LEMMA IndexIsCurrentStep ==
  ASSUME MemoryInv, Next
  PROVE  IndexIsCurrent'
<1> USE MemoryAssumption DEF MemoryInv
<1>1. CASE UNCHANGED <<words, content>>
  BY <1>1 DEF IndexIsCurrent
<1>2. ASSUME NEW text \in Contents, Save(text) PROVE IndexIsCurrent'
  BY <1>2 DEF IndexIsCurrent, Saved, Revised, Save
<1>3. ASSUME Rebuild PROVE IndexIsCurrent'
  BY <1>3 DEF IndexIsCurrent, Rebuild
<1>4. ASSUME NEW u \in Users, NEW m \in Memories, Forget(u, m) PROVE IndexIsCurrent'
  BY <1>4 DEF IndexIsCurrent, Erased, Forget
<1>5. ASSUME NEW u \in Users, NEW m \in Memories, NEW text \in Contents, Revise(u, m, text) PROVE IndexIsCurrent'
  BY <1>5 DEF IndexIsCurrent, Revised, Revise
<1>6. ASSUME NEW u \in Users, NEW m \in Memories,
             NEW next \in {"active", "disabled"}, SetStatus(u, m, next) PROVE IndexIsCurrent'
  BY <1>6 DEF IndexIsCurrent, Revised, SetStatus
<1>7. ASSUME NEW u \in Users, NEW r \in Runs, NEW text \in Contents,
             NEW m \in Memories, Adopt(u, r, text, m) PROVE IndexIsCurrent'
  BY <1>7 DEF IndexIsCurrent, Saved, Revised, Adopt
<1>8. QED
  BY <1>1, <1>2, <1>3, <1>4, <1>5, <1>6, <1>7
     DEF Next, Read, records, StartRun, Request, EndRun, Select, Propose,
       Process, Review, Reject, Decides

(* A Run that has proposed is queued when it ends, and nothing is proposed *)
(* after that.                                                             *)
LEMMA CandidatesAwaitedStep ==
  ASSUME MemoryInv, Next
  PROVE  CandidatesAwaited'
<1> USE MemoryAssumption DEF MemoryInv
<1>1. CASE UNCHANGED <<candidate, run, job>>
  BY <1>1 DEF CandidatesAwaited
<1>2. ASSUME NEW r \in Runs, StartRun(r) PROVE CandidatesAwaited'
  BY <1>2 DEF CandidatesAwaited, StartRun
<1>3. ASSUME NEW r \in Runs, EndRun(r) PROVE CandidatesAwaited'
  BY <1>3 DEF CandidatesAwaited, TypeOK, NoCandidate, EndRun
<1>4. ASSUME NEW r \in Runs, NEW text \in Contents, NEW from \in Proposals, Propose(r, text, from) PROVE CandidatesAwaited'
  BY <1>4 DEF CandidatesAwaited, MayPropose, Propose
<1>5. ASSUME NEW r \in Runs, NEW supported \in BOOLEAN, Process(r, supported) PROVE CandidatesAwaited'
  BY <1>5 DEF CandidatesAwaited, TypeOK, Process
<1>6. ASSUME NEW u \in Users, NEW r \in Runs, Reject(u, r) PROVE CandidatesAwaited'
  BY <1>6 DEF CandidatesAwaited, Decides, Decided, Reject
<1>7. ASSUME NEW u \in Users, NEW r \in Runs, NEW text \in Contents,
             NEW m \in Memories, Adopt(u, r, text, m) PROVE CandidatesAwaited'
  <2>1. /\ candidate'[r].status = "adopted"
        /\ \A q \in Runs \ {r} : candidate'[q] = candidate[q]
    BY <1>7, AdoptFacts
  <2>2. UNCHANGED <<run, job>>
    BY <1>7 DEF Adopt, Decides
  <2>3. QED
    BY <2>1, <2>2 DEF CandidatesAwaited
<1>8. QED
  BY <1>1, <1>2, <1>3, <1>4, <1>5, <1>6, <1>7
     DEF Next, Save, Revised, Rebuild, Read, records, Forget, Swaps, Revise,
       SetStatus, Request, Select, Review

(* A change of a text is a new revision, so what was read stays true of its *)
(* revision.                                                               *)
LEMMA CopiesTrueStep ==
  ASSUME MemoryInv, Next
  PROVE  CopiesTrue'
<1> USE MemoryAssumption DEF MemoryInv
<1>1. CASE UNCHANGED <<copy, selected, revision, status, content>>
  BY <1>1 DEF CopiesTrue, ReadTruly, Known
<1>2. ASSUME NEW text \in Contents, Save(text) PROVE CopiesTrue'
  <2>1. PICK m \in Memories : Saved(m, text, {[kind |-> "user"]})
    BY <1>2 DEF Save
  <2>2. {[kind |-> "user"]} \in SUBSET Sources
    BY DEF Sources
  <2>3. \A i \in Items : ReadTruly(i) => ReadTruly(i)'
    BY <2>1, <2>2, SavedReads
  <2>4. UNCHANGED <<copy, selected>>
    BY <1>2 DEF Save
  <2>5. QED
    BY <2>3, <2>4 DEF CopiesTrue, TypeOK
<1>3. ASSUME NEW u \in Users, NEW m \in Memories, Read(u, m) PROVE CopiesTrue'
  BY <1>3 DEF CopiesTrue, ReadTruly, Known, TypeOK, RecordsWhole, records,
       Item, Read
<1>4. ASSUME NEW u \in Users, NEW m \in Memories, Forget(u, m) PROVE CopiesTrue'
  BY <1>4 DEF CopiesTrue, ReadTruly, Known, TypeOK, Swaps, Erased, Forget
<1>5. ASSUME NEW u \in Users, NEW m \in Memories, NEW text \in Contents, Revise(u, m, text) PROVE CopiesTrue'
  BY <1>5 DEF CopiesTrue, ReadTruly, Known, TypeOK, Swaps, Revised, Revise
<1>6. ASSUME NEW u \in Users, NEW m \in Memories,
             NEW next \in {"active", "disabled"}, SetStatus(u, m, next) PROVE CopiesTrue'
  BY <1>6 DEF CopiesTrue, ReadTruly, Known, Memories, Nothing, Swaps,
       Revised, SetStatus
<1>7. ASSUME NEW r \in Runs, NEW ids \in SUBSET Memories, Select(r, ids) PROVE CopiesTrue'
  BY <1>7 DEF CopiesTrue, ReadTruly, Known, TypeOK, RecordsWhole, records,
       Item, Active, Select
<1>8. ASSUME NEW u \in Users, NEW r \in Runs, NEW text \in Contents,
             NEW m \in Memories, Adopt(u, r, text, m) PROVE CopiesTrue'
  <2>1. Saved(m, text, candidate[r].sources) /\ candidate[r].sources \in SUBSET Sources
    BY <1>8, AdoptFacts
  <2>2. \A i \in Items : ReadTruly(i) => ReadTruly(i)'
    BY <2>1, SavedReads
  <2>3. UNCHANGED <<copy, selected>>
    BY <1>8 DEF Adopt, Decides
  <2>4. QED
    BY <2>2, <2>3 DEF CopiesTrue, TypeOK
<1>9. QED
  BY <1>1, <1>2, <1>3, <1>4, <1>5, <1>6, <1>7, <1>8
     DEF Next, Rebuild, StartRun, records, Request, EndRun, Propose,
       Process, Review, Reject, Decides

(* Adoption adds the sources to the lineage, also of a text that is known;  *)
(* lineages only grow.                                                     *)
LEMMA AdoptionsTracedStep ==
  ASSUME MemoryInv, Next
  PROVE  AdoptionsTraced'
<1> USE MemoryAssumption DEF MemoryInv
<1>1. CASE UNCHANGED <<candidate, status, lineage>>
  BY <1>1 DEF AdoptionsTraced
<1>2. ASSUME NEW text \in Contents, Save(text) PROVE AdoptionsTraced'
  <2>1. PICK m \in Memories : Saved(m, text, {[kind |-> "user"]})
    BY <1>2 DEF Save
  <2>2. {[kind |-> "user"]} \in SUBSET Sources
    BY DEF Sources
  <2>3. QED
    BY <1>2, <2>1, <2>2, SavedFacts DEF Save, AdoptionsTraced, Known
<1>3. ASSUME NEW u \in Users, NEW m \in Memories, Forget(u, m) PROVE AdoptionsTraced'
  BY <1>3 DEF AdoptionsTraced, Swaps, Forget
<1>4. ASSUME NEW u \in Users, NEW m \in Memories, NEW text \in Contents, Revise(u, m, text) PROVE AdoptionsTraced'
  BY <1>4 DEF AdoptionsTraced, Swaps, Revised, Revise
<1>5. ASSUME NEW u \in Users, NEW m \in Memories,
             NEW next \in {"active", "disabled"}, SetStatus(u, m, next) PROVE AdoptionsTraced'
  BY <1>5 DEF AdoptionsTraced, Swaps, Revised, SetStatus
<1>6. ASSUME NEW r \in Runs, NEW text \in Contents, NEW from \in Proposals, Propose(r, text, from) PROVE AdoptionsTraced'
  BY <1>6 DEF AdoptionsTraced, records, Propose
<1>7. ASSUME NEW r \in Runs, NEW supported \in BOOLEAN, Process(r, supported) PROVE AdoptionsTraced'
  BY <1>7 DEF AdoptionsTraced, records, Process
<1>8. ASSUME NEW u \in Users, NEW r \in Runs, Reject(u, r) PROVE AdoptionsTraced'
  BY <1>8 DEF AdoptionsTraced, records, Decided, Reject
<1>9. ASSUME NEW u \in Users, NEW r \in Runs, NEW text \in Contents,
             NEW m \in Memories, Adopt(u, r, text, m) PROVE AdoptionsTraced'
  <2>1. /\ candidate'[r].memory = m /\ candidate'[r].sources = candidate[r].sources
        /\ candidate[r].sources \in SUBSET Sources
        /\ Saved(m, text, candidate[r].sources)
        /\ \A q \in Runs \ {r} : candidate'[q] = candidate[q]
    BY <1>9, AdoptFacts
  <2>2. /\ candidate[r].sources \subseteq lineage'[m] /\ lineage[m] \subseteq lineage'[m]
        /\ Known(m)'
        /\ \A k \in Memories \ {m} : status'[k] = status[k] /\ lineage'[k] = lineage[k]
    BY <2>1, SavedFacts
  <2>3. QED
    BY <2>1, <2>2 DEF AdoptionsTraced, Known
<1>10. QED
  BY <1>1, <1>2, <1>3, <1>4, <1>5, <1>6, <1>7, <1>8, <1>9
     DEF Next, Rebuild, Read, records, StartRun, Request, EndRun, Select,
       Review

(* Forgetting suppresses the lineage, and a forgotten record gains none.   *)
LEMMA ForgottenSuppressedStep ==
  ASSUME MemoryInv, Next
  PROVE  ForgottenSuppressed'
<1> USE MemoryAssumption DEF MemoryInv
<1>1. CASE UNCHANGED <<status, lineage, suppressed>>
  BY <1>1 DEF ForgottenSuppressed
<1>2. ASSUME NEW text \in Contents, Save(text) PROVE ForgottenSuppressed'
  <2>1. PICK m \in Memories : Saved(m, text, {[kind |-> "user"]})
    BY <1>2 DEF Save
  <2>2. {[kind |-> "user"]} \in SUBSET Sources
    BY DEF Sources
  <2>3. QED
    BY <1>2, <2>1, <2>2, SavedFacts DEF Save, ForgottenSuppressed, Known
<1>3. ASSUME NEW u \in Users, NEW m \in Memories, Forget(u, m) PROVE ForgottenSuppressed'
  BY <1>3 DEF ForgottenSuppressed, TypeOK, Forget
<1>4. ASSUME NEW u \in Users, NEW m \in Memories, NEW text \in Contents, Revise(u, m, text) PROVE ForgottenSuppressed'
  BY <1>4 DEF ForgottenSuppressed, TypeOK, Swaps, Revised, Known, Revise
<1>5. ASSUME NEW u \in Users, NEW m \in Memories,
             NEW next \in {"active", "disabled"}, SetStatus(u, m, next) PROVE ForgottenSuppressed'
  BY <1>5 DEF ForgottenSuppressed, TypeOK, Revised, SetStatus
<1>6. ASSUME NEW u \in Users, NEW r \in Runs, NEW text \in Contents,
             NEW m \in Memories, Adopt(u, r, text, m) PROVE ForgottenSuppressed'
  <2>1. Saved(m, text, candidate[r].sources) /\ candidate[r].sources \in SUBSET Sources
    BY <1>6, AdoptFacts
  <2>2. /\ Known(m)'
        /\ \A k \in Memories \ {m} : status'[k] = status[k] /\ lineage'[k] = lineage[k]
    BY <2>1, SavedFacts
  <2>3. suppressed' = suppressed
    BY <1>6 DEF Adopt
  <2>4. QED
    BY <2>2, <2>3 DEF ForgottenSuppressed, Known
<1>7. QED
  BY <1>1, <1>2, <1>3, <1>4, <1>5, <1>6
     DEF Next, Rebuild, Read, records, StartRun, Request, EndRun, Select,
       Propose, Process, Review, Reject, Decides

-----------------------------------------------------------------------------
(* The invariant and what follows from it                                  *)

LEMMA MemoryInvInit == Init => MemoryInv
BY MemoryAssumption DEF Init, MemoryInv, TypeOK, RecordsWhole, IndexIsCurrent,
   CandidatesAwaited, CopiesTrue, AdoptionsTraced, ForgottenSuppressed, NoCandidate,
   Nothing, Known, Candidate

LEMMA MemoryInvStep == MemoryInv /\ [Next]_vars => MemoryInv'
<1> SUFFICES ASSUME MemoryInv, [Next]_vars PROVE MemoryInv'
  OBVIOUS
<1>1. CASE Next
  BY <1>1, TypeOKStep, RecordsWholeStep, IndexIsCurrentStep, CandidatesAwaitedStep,
     CopiesTrueStep, AdoptionsTracedStep, ForgottenSuppressedStep DEF MemoryInv
<1>2. CASE UNCHANGED vars
  BY <1>2 DEF vars, MemoryInv, TypeOK, RecordsWhole, IndexIsCurrent, CandidatesAwaited,
     CopiesTrue, ReadTruly, AdoptionsTraced, ForgottenSuppressed, Known
<1>3. QED
  BY <1>1, <1>2

(* Records, copies, candidates and suppressions agree in every reachable   *)
(* state, for any number of Runs, users and records (memory.py).           *)
THEOREM MemoryIsSound == Spec => []MemoryInv
BY MemoryInvInit, MemoryInvStep, PTL DEF Spec

(* Every candidate that is not checked yet is still awaited.               *)
THEOREM CandidatesAreAwaited == Spec => []CandidatesAwaited
<1>1. MemoryInv => CandidatesAwaited
  BY DEF MemoryInv
<1>2. QED
  BY <1>1, MemoryIsSound, PTL

(* The index holds the current texts, and no forgotten one.                *)
THEOREM IndexStaysCurrent == Spec => []IndexIsCurrent
<1>1. MemoryInv => IndexIsCurrent
  BY DEF MemoryInv
<1>2. QED
  BY <1>1, MemoryIsSound, PTL

(* What was forgotten never comes back from its requests and tool results. *)
THEOREM ForgettingLasts == Spec => ForgottenForGood
<1>1. MemoryInv /\ [Next]_vars => [RevivesNothing]_vars
  <2> SUFFICES ASSUME MemoryInv, Next, NEW r \in Runs, NEW q \in Runs,
                      AdoptedNow(r), WasForgotten(q)
               PROVE  FromRuns(candidate'[r].sources) \cap FromRuns(candidate[q].sources) = {}
    BY DEF RevivesNothing
  <2>1. \A s \in candidate[q].sources : [source |-> s] \in suppressed
    BY DEF WasForgotten, MemoryInv, AdoptionsTraced, ForgottenSuppressed
  <2>2. PICK u \in Users, text \in Contents, m \in Memories : Adopt(u, r, text, m)
    <3>1. CASE \E u \in Users, p \in Runs, text \in Contents, m \in Memories :
                  Adopt(u, p, text, m)
      <4>1. PICK u \in Users, p \in Runs, text \in Contents, m \in Memories :
                    Adopt(u, p, text, m)
        BY <3>1
      <4>2. p = r
        BY <4>1, AdoptFacts DEF AdoptedNow
      <4>3. QED
        BY <4>1, <4>2
    <3>2. CASE \E u \in Users, p \in Runs : Reject(u, p)
      BY <3>2 DEF Reject, Decided, AdoptedNow, MemoryInv, TypeOK
    <3>3. CASE \E p \in Runs, supported \in BOOLEAN : Process(p, supported)
      BY <3>3 DEF Process, AdoptedNow, MemoryInv, TypeOK, Candidate, NoCandidate
    <3>4. CASE \E p \in Runs, text \in Contents, from \in Proposals : Propose(p, text, from)
      BY <3>4 DEF Propose, AdoptedNow, MemoryInv, TypeOK
    <3>5. CASE candidate' = candidate
      BY <3>5 DEF AdoptedNow
    <3>6. QED
      BY <3>1, <3>2, <3>3, <3>4, <3>5 DEF Next, Save, Rebuild, Read, Forget, Revise,
         SetStatus, Swaps, StartRun, Request, EndRun, Select, Review
  <2>3. ~Suppressed(text, candidate[r].sources)
    BY <2>2 DEF Adopt, Adoptable
  <2>4. candidate'[r].sources = candidate[r].sources
    BY <2>2, AdoptFacts
  <2>5. QED
    BY <2>1, <2>3, <2>4 DEF Suppressed, FromRuns
<1>2. QED
  BY <1>1, MemoryIsSound, PTL DEF Spec, ForgottenForGood

(* Nobody changes, stops or forgets a text he has not seen.                *)
THEOREM EditsAreSeen == Spec => NoLostEdit
<1>1. MemoryInv /\ [Next]_vars => [SeenBefore]_vars
  <2> SUFFICES ASSUME MemoryInv, Next, NEW n \in Memories, Known(n),
                      content'[n] # content[n] \/ status'[n] # status[n]
               PROVE  \E u \in Users : /\ copy'[u] # copy[u]
                                       /\ copy[u].id = n /\ copy[u].content = content[n]
    BY DEF SeenBefore
  <2>1. ASSUME NEW u \in Users, NEW m \in Memories, Swaps(u, m),
               \A k \in Memories \ {m} : content'[k] = content[k] /\ status'[k] = status[k]
        PROVE  /\ copy'[u] # copy[u]
               /\ copy[u].id = n /\ copy[u].content = content[n]
    <3>1. m = n
      BY <2>1
    <3>2. copy[u] \in Items /\ copy[u] # Nothing /\ copy'[u] = Nothing
      BY <2>1, MemoryAssumption DEF Swaps, MemoryInv, TypeOK, Nothing, Items, Memories
    <3>3. ReadTruly(copy[u])
      BY <3>2 DEF MemoryInv, CopiesTrue
    <3>4. QED
      BY <2>1, <3>1, <3>2, <3>3 DEF Swaps, ReadTruly
  <2>2. CASE \E u \in Users, m \in Memories : Forget(u, m)
    BY <2>1, <2>2 DEF Forget, Erased, MemoryInv, TypeOK
  <2>3. CASE \E u \in Users, m \in Memories, text \in Contents : Revise(u, m, text)
    BY <2>1, <2>3 DEF Revise, Revised, MemoryInv, TypeOK
  <2>4. CASE \E u \in Users, m \in Memories, next \in {"active", "disabled"} :
                SetStatus(u, m, next)
    BY <2>1, <2>4 DEF SetStatus, Revised, MemoryInv, TypeOK
  <2>5. CASE \E text \in Contents : Save(text)
    <3>1. PICK text \in Contents, m \in Memories : Saved(m, text, {[kind |-> "user"]})
      BY <2>5 DEF Save
    <3>2. {[kind |-> "user"]} \in SUBSET Sources
      BY DEF Sources
    <3>3. content'[n] = content[n] /\ status'[n] = status[n]
      BY <3>1, <3>2, SavedFacts DEF Known
    <3>4. QED
      BY <3>3
  <2>6. CASE \E u \in Users, r \in Runs, text \in Contents, m \in Memories :
                Adopt(u, r, text, m)
    <3>1. PICK r \in Runs, text \in Contents, m \in Memories :
              /\ candidate[r].sources \in SUBSET Sources
              /\ Saved(m, text, candidate[r].sources)
      BY <2>6, AdoptFacts
    <3>2. content'[n] = content[n] /\ status'[n] = status[n]
      BY <3>1, SavedFacts DEF Known
    <3>3. QED
      BY <3>2
  <2>7. CASE UNCHANGED <<content, status>>
    BY <2>7
  <2>8. QED
    BY <2>2, <2>3, <2>4, <2>5, <2>6, <2>7 DEF Next, Rebuild, Read, StartRun, Request,
       EndRun, Select, Propose, Process, Review, Reject, records
<1>2. QED
  BY <1>1, MemoryIsSound, PTL DEF Spec, NoLostEdit

(* What a model is told from memory is active and current.                 *)
THEOREM SentIsCurrent == Spec => OnlyCurrentSent
<1>1. MemoryInv /\ [Next]_vars => [CurrentlyTrue]_vars
  <2> SUFFICES ASSUME MemoryInv, Next, NEW r \in Runs, sent'[r] # sent[r],
                      NEW i \in sent'[r]
               PROVE  Active(i.id) /\ content[i.id] = i.content
    BY DEF CurrentlyTrue
  <2>1. PICK p \in Runs : Request(p)
    BY DEF Next, Save, Rebuild, Read, Forget, Revise, SetStatus, Swaps, StartRun, EndRun,
       Select, Propose, Process, Review, Reject, Adopt, Decides
  <2>2. i \in selected[r] /\ Current(i)
    BY <2>1 DEF Request, Allowed, MemoryInv, TypeOK
  <2>3. ReadTruly(i)
    BY <2>2 DEF MemoryInv, CopiesTrue
  <2>4. QED
    BY <2>2, <2>3 DEF Current, Active, ReadTruly, Known
<1>2. QED
  BY <1>1, MemoryIsSound, PTL DEF Spec, OnlyCurrentSent
==============================================================================
