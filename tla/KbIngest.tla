------------------------------ MODULE KbIngest ------------------------------
(***************************************************************************)
(* The documents of a knowledge base: the manager adds, reindexes, deletes *)
(* them, workers claim one at a time, and replace its chunks in a          *)
(* transaction that stays open across the embedding call                   *)
(* (services/kb_ingest_worker.py, services/kb_ingest.py,                   *)
(* routers/knowledge_bases.py).                                            *)
(*                                                                         *)
(* The chunks a run writes for a document stand for one another: a run is  *)
(* numbered, and chunks[d] holds the runs whose rows are there.            *)
(***************************************************************************)
EXTENDS Naturals, FiniteSets

CONSTANTS
    NumDocs,        \* bound: documents, numbered in the order of created_at
    KbWorkers,      \* ingest workers: one, or two while a deploy overlaps
    MaxKbOps,       \* bound: requests of the manager
    MaxKbFaults     \* bound: crashes and failures that cannot be recorded

Docs == 1..NumDocs
ASSUME KbCounts == NumDocs \in Nat /\ MaxKbOps \in Nat /\ MaxKbFaults \in Nat

VARIABLES
    doc,            \* kb_documents: content, status, chunk_count (in runs)
    chunks,         \* kb_chunks, committed
    run,            \* what a worker holds between two awaits
    runs,           \* number of claims so far
    kbOps, kbFaults,
    overlapped      \* history: documents two runs worked on at a time

kbVars == <<doc, chunks, run, runs, kbOps, kbFaults, overlapped>>

NoDoc == [text |-> "blank", st |-> "none", count |-> 0]
NoRun == [pc |-> "idle", d |-> 0, id |-> 0, gone |-> {}]

InitKb ==
    /\ doc = [d \in Docs |-> NoDoc]
    /\ chunks = [d \in Docs |-> {}]
    /\ run = [w \in KbWorkers |-> NoRun]
    /\ runs = 0 /\ kbOps = 0 /\ kbFaults = 0 /\ overlapped = {}

\* An id is not used again.
DocRows == {d \in Docs : doc[d].st \notin {"none", "gone"}}

-----------------------------------------------------------------------------
(* The manager.                                                             *)

Asked == kbOps < MaxKbOps /\ kbOps' = kbOps + 1

\* upload_document and paste_document store the bytes unread; whether there is text in
\* them shows only when the worker extracts it.
AddDocument(d, content) ==
    /\ Asked /\ doc[d].st = "none" /\ \A e \in Docs : e < d => doc[e].st # "none"
    /\ doc' = [doc EXCEPT ![d] = [text |-> content, st |-> "pending", count |-> 0]]
    /\ UNCHANGED <<chunks, run, runs, kbFaults, overlapped>>

\* reindex_document does not ask whether a run is under way.
Reindex(d) ==
    /\ Asked /\ d \in DocRows
    /\ doc' = [doc EXCEPT ![d].st = "pending"]
    /\ UNCHANGED <<chunks, run, runs, kbFaults, overlapped>>

\* The cascade takes the chunks along; the row of a run under way is simply gone.
Delete(ds) ==
    /\ doc' = [d \in Docs |-> IF d \in ds THEN [doc[d] EXCEPT !.st = "gone"] ELSE doc[d]]
    /\ chunks' = [d \in Docs |-> IF d \in ds THEN {} ELSE chunks[d]]

DeleteDocument(d) ==
    /\ Asked /\ d \in DocRows /\ Delete({d})
    /\ UNCHANGED <<run, runs, kbFaults, overlapped>>

DeleteBase ==
    /\ Asked /\ DocRows # {} /\ Delete(DocRows)
    /\ UNCHANGED <<run, runs, kbFaults, overlapped>>

-----------------------------------------------------------------------------
(* _tick: claim, extract, replace.                                          *)

Pending == {d \in DocRows : doc[d].st = "pending"}
WorkedOn(d) == \E w \in KbWorkers : run[w].d = d

\* The oldest pending row, flipped and committed at once; SKIP LOCKED only matters while
\* another claim commits.
ClaimDocument(w) ==
    /\ run[w].pc = "idle"
    /\ \E d \in Pending :
        /\ \A e \in Pending : d <= e
        /\ doc' = [doc EXCEPT ![d].st = "processing"]
        /\ run' = [run EXCEPT ![w] = [pc |-> "extract", d |-> d, id |-> runs + 1, gone |-> {}]]
        /\ overlapped' = IF WorkedOn(d) THEN overlapped \cup {d} ELSE overlapped
    /\ runs' = runs + 1
    /\ UNCHANGED <<chunks, kbOps, kbFaults>>

\* Slip: the rows of the earlier run stay.
KeepsRows(d) == {}

\* The DELETE at the head of the transaction takes the rows committed by then.
Replaced(d) == chunks[d]

\* It waits for a run that has deleted the same rows and not committed.
Deleting(d) == UNION {run[v].gone : v \in {v \in KbWorkers : run[v].pc = "open" /\ run[v].d = d}}

Extract(w) ==
    /\ run[w].pc = "extract" /\ doc[run[w].d].text # "broken"
    /\ LET d == run[w].d
           gone == Replaced(d)
       IN  run' = [run EXCEPT ![w].gone = gone,
                              ![w].pc = IF gone \cap Deleting(d) = {} THEN "open" ELSE "waits"]
    /\ UNCHANGED <<doc, chunks, runs, kbOps, kbFaults, overlapped>>

Unblocked(w) ==
    /\ run[w].pc = "waits" /\ run[w].gone \cap Deleting(run[w].d) = {}
    /\ run' = [run EXCEPT ![w].pc = "open"]
    /\ UNCHANGED <<doc, chunks, runs, kbOps, kbFaults, overlapped>>

\* Slip: the new count is added to the old one.
CountOnTop(d) == doc[d].count + (IF doc[d].text = "blank" THEN 0 ELSE 1)

CountOf(d) == IF doc[d].text = "blank" THEN 0 ELSE 1

\* Embedded, inserted, counted and committed; a blank text leaves no chunk and a document
\* deleted meanwhile is updated nowhere.
Store(w) ==
    LET d == run[w].d
        blank == doc[d].text = "blank"
    IN  /\ run[w].pc = "open" /\ (d \in DocRows \/ blank)
        /\ IF d \in DocRows
           THEN /\ doc' = [doc EXCEPT ![d].st = "indexed", ![d].count = CountOf(d)]
                /\ chunks' = [chunks EXCEPT ![d] = (@ \ run[w].gone) \cup
                                                   (IF blank THEN {} ELSE {run[w].id})]
           ELSE UNCHANGED <<doc, chunks>>
        /\ run' = [run EXCEPT ![w] = NoRun]
        /\ UNCHANGED <<runs, kbOps, kbFaults, overlapped>>

\* No text to be had, no embedding, no parent row: everything rolls back and the status is
\* written in a transaction of its own, which may fail as well.
IngestFails(w) ==
    /\ run[w].pc \in {"extract", "open"}
    /\ LET d == run[w].d IN
        \/ /\ doc' = IF d \in DocRows THEN [doc EXCEPT ![d].st = "failed"] ELSE doc
           /\ UNCHANGED kbFaults
        \/ /\ kbFaults < MaxKbFaults /\ kbFaults' = kbFaults + 1
           /\ UNCHANGED doc
    /\ run' = [run EXCEPT ![w] = NoRun]
    /\ UNCHANGED <<chunks, runs, kbOps, overlapped>>

KbCrash(w) ==
    /\ run[w].pc # "idle"
    /\ kbFaults < MaxKbFaults /\ kbFaults' = kbFaults + 1
    /\ run' = [run EXCEPT ![w] = NoRun]
    /\ UNCHANGED <<doc, chunks, runs, kbOps, overlapped>>

-----------------------------------------------------------------------------
KbNext ==
    \/ \E d \in Docs, content \in {"text", "blank", "broken"} : AddDocument(d, content)
    \/ \E d \in Docs : Reindex(d) \/ DeleteDocument(d)
    \/ DeleteBase
    \/ \E w \in KbWorkers : ClaimDocument(w) \/ Extract(w) \/ Unblocked(w) \/ Store(w) \/ IngestFails(w)
                                \/ KbCrash(w)

KbSpec == InitKb /\ [][KbNext]_kbVars

-----------------------------------------------------------------------------
KbTypeOK ==
    /\ doc \in [Docs -> [text: {"text", "blank", "broken"}, count: 0..1,
                         st: {"none", "pending", "processing", "indexed", "failed", "gone"}]]
    /\ chunks \in [Docs -> SUBSET (1..runs)]
    /\ run \in [KbWorkers -> [pc: {"idle", "extract", "waits", "open"}, d: Docs \cup {0},
                              id: 0..runs, gone: SUBSET (1..runs)]]
    /\ runs \in Nat /\ kbOps \in 0..MaxKbOps /\ kbFaults \in 0..MaxKbFaults
    /\ overlapped \subseteq Docs

\* However often a document is reindexed, and whichever runs fail or die on the way, its
\* chunks are those of one run and chunk_count says how many; unless two runs worked on
\* it at a time.  (kb_ingest_worker.py:14, re-index idempotency)
CountIsRows == \A d \in DocRows : d \in overlapped \/ doc[d].count = Cardinality(chunks[d])
=============================================================================
