--------------------------- MODULE RetrievalIndex ---------------------------
(***************************************************************************)
(* The retrieval index: rag/index.py collects the pages and the issues     *)
(* (rag/ingest.py, integrations/atlassian_client.py), cuts them into       *)
(* chunks, embeds these in batches and upserts them into table chunks in   *)
(* one transaction, while authors go on editing and readers go on asking.  *)
(*                                                                         *)
(* A run is a process somebody starts; nothing keeps two from overlapping. *)
(* A document is a number, its text is named by its version.  Confluence   *)
(* and Jira are outside: a request is answered with any results there are  *)
(* and any cursor, so a run may come upon a document twice, in two         *)
(* versions, or not at all.  A cursor is "new" or was "seen" before in its *)
(* listing, which is all the code asks of it.                              *)
(*                                                                         *)
(* An operator right before the definition it resembles, with a qualified  *)
(* name (StoreOneByOne, ...), is a defect the properties must notice.      *)
(***************************************************************************)
EXTENDS Integers, Sequences, FiniteSets, SequencesExt

CONSTANTS
    MaxDocument,        \* bound: documents of both systems
    MaxPage,            \* the documents up to this one are Confluence pages
    MaxVersion,         \* bound: edits of a document
    Sections(_),        \* the sections of a version of a page
    LIMIT,              \* limit, max_results: results of one request
    MAX_PAGES,          \* _MAX_PAGES: requests of one listing
    BATCH_SIZE,         \* DEFAULT_BATCH_SIZE
    Runs                \* processes that index

ASSUME IndexAssumption ==
    /\ {MaxDocument, MaxPage, MaxVersion, LIMIT} \subseteq Nat
    /\ {BATCH_SIZE, MAX_PAGES} \subseteq Nat \ {0}
    /\ \A v \in 0..MaxVersion : Sections(v) \in Nat

VARIABLES
    documents,      \* Atlassian: document -> whether it is there, its label, its version
    chunks,         \* table chunks
    runs            \* the progress of each run

vars == <<documents, chunks, runs>>

-----------------------------------------------------------------------------
Documents == 1..MaxDocument
IsPage(d) == d <= MaxPage
Text == [document : Documents, chunk_index : Nat, version : 0..MaxVersion]
Chunk == [text : Text, embedding : Text]
Result == [document : Documents, version : 0..MaxVersion]
Sources == {"confluence", "jira"}
Steps == {"idle", "fetch", "take", "embed", "store"}
Cursor == {"new", "seen", "none"}
Run == [pc : Steps, source : Sources, results : Seq(Result), next : Cursor, requests : Nat,
        texts : Seq(Text), embeddings : Seq(Text), start : Nat]
NoRun == [pc |-> "idle", source |-> "confluence", results |-> <<>>, next |-> "none",
          requests |-> 0, texts |-> <<>>, embeddings |-> <<>>, start |-> 0]

At(r, pc) == runs[r].pc = pc
Goto(r, pc) == runs' = [runs EXCEPT ![r].pc = pc]
End(r) == runs' = [runs EXCEPT ![r] = NoRun]

\* chunk_document: a page by its sections, an issue as one.
ChunksIn(d, v) == IF IsPage(d) /\ Sections(v) # 0 THEN Sections(v) ELSE 1
ChunkDocument(d, v) ==
    [i \in 1..ChunksIn(d, v) |-> [document |-> d, chunk_index |-> i - 1, version |-> v]]

-----------------------------------------------------------------------------
\* Authors write, delete, edit and label.
Write(d) ==
    /\ \E there, labelled \in BOOLEAN, v \in {documents[d].version, documents[d].version + 1} :
          /\ v <= MaxVersion
          /\ labelled => there /\ IsPage(d)
          /\ documents' = [documents EXCEPT ![d] = [there |-> there, labelled |-> labelled, version |-> v]]
    /\ UNCHANGED <<chunks, runs>>

Start(r) ==
    /\ At(r, "idle")
    /\ Goto(r, "fetch")
    /\ UNCHANGED <<documents, chunks>>

\* What a request may be answered with: documents of the source, as they are now.
Listed(source) == {d \in Documents : documents[d].there /\ (IsPage(d) <=> source = "confluence")}
Answers(source) ==
    {[i \in DOMAIN ds |-> [document |-> ds[i], version |-> documents[ds[i]].version]] :
        ds \in UNION {[1..n -> Listed(source)] : n \in 0..LIMIT}}

\* fetch_confluence_pages, fetch_jira_issues: one page of results, and the cursor
\* for the next one, if any; the first of a listing cannot have been seen.
Fetch(r) ==
    /\ At(r, "fetch")
    /\ \E results \in Answers(runs[r].source), next \in Cursor :
          /\ next = "seen" => runs[r].requests > 0
          /\ runs' = [runs EXCEPT ![r].pc = "take", ![r].results = results, ![r].next = next]
    /\ UNCHANGED <<documents, chunks>>

\* The body of the loops of collect_documents.  An issue is taken as it was read;
\* a page is asked for its labels, in a request of its own (fetch_confluence_labels),
\* which fails the run when the page is gone by then.
Take(r) ==
    LET d == Head(runs[r].results).document
        texts == ChunkDocument(d, Head(runs[r].results).version)
        rest == [runs EXCEPT ![r].results = Tail(@)] IN
    /\ At(r, "take") /\ runs[r].results # <<>>
    /\ \/ /\ IsPage(d) /\ ~documents[d].there
          /\ End(r)
       \/ /\ IsPage(d) /\ documents[d].there /\ ~documents[d].labelled
          /\ runs' = rest
       \/ /\ IsPage(d) => documents[d].there /\ documents[d].labelled
          /\ runs' = [rest EXCEPT ![r].texts = @ \o texts]
    /\ UNCHANGED <<documents, chunks>>

\* "A repeated cursor would loop forever, so it is treated as the end."
FollowCursor(r) == runs[r].next = "new"

NextRequestUncounted(r) ==
    /\ At(r, "take") /\ runs[r].results = <<>> /\ FollowCursor(r)
    /\ runs' = [runs EXCEPT ![r].pc = "fetch", ![r].next = "none"]
    /\ UNCHANGED <<documents, chunks>>

\* iter_confluence_pages, iter_jira_issues: the next request, unless there were too
\* many of them.
NextRequest(r) ==
    LET made == runs[r].requests + 1 IN
    /\ At(r, "take") /\ runs[r].results = <<>> /\ FollowCursor(r)
    /\ IF made = MAX_PAGES THEN End(r)
       ELSE runs' = [runs EXCEPT ![r].pc = "fetch", ![r].requests = made, ![r].next = "none"]
    /\ UNCHANGED <<documents, chunks>>

\* The issues follow the pages; then everything is cut, and the texts are embedded.
EndListing(r) ==
    /\ At(r, "take") /\ runs[r].results = <<>> /\ ~FollowCursor(r)
    /\ runs' = [runs EXCEPT ![r].requests = 0, ![r].next = "none", ![r].source = "jira",
                            ![r].pc = IF runs[r].source = "confluence" THEN "fetch" ELSE "embed"]
    /\ UNCHANGED <<documents, chunks>>

Lowest(a, b) == IF a <= b THEN a ELSE b
BatchFromTheFirst(r) == SubSeq(runs[r].texts, 1, Lowest(BATCH_SIZE, Len(runs[r].texts)))

\* One request of embed_texts; the loop steps by the size of a batch.
Batch(r) ==
    SubSeq(runs[r].texts, runs[r].start + 1, Lowest(runs[r].start + BATCH_SIZE, Len(runs[r].texts)))

Embed(r) ==
    /\ At(r, "embed")
    /\ IF runs[r].start < Len(runs[r].texts)
       THEN runs' = [runs EXCEPT ![r].embeddings = @ \o Batch(r), ![r].start = @ + BATCH_SIZE]
       ELSE Goto(r, "store")
    /\ UNCHANGED <<documents, chunks>>

\* upsert_chunk: the row of a place, document_id and chunk_index, is replaced.  Of
\* the upserts of a run that meet at a place, the last one stays.
SamePlace(c, e) == c.text.document = e.text.document /\ c.text.chunk_index = e.text.chunk_index
LastAtTheirPlace(new) == {i \in DOMAIN new : \A j \in DOMAIN new : SamePlace(new[i], new[j]) => j <= i}
Upsert(old, new) ==
    LET stored == {new[i] : i \in LastAtTheirPlace(new)} IN
    {c \in old : \A e \in stored : ~SamePlace(c, e)} \cup stored

Zipped(r) == [i \in DOMAIN runs[r].texts \cap DOMAIN runs[r].embeddings |->
                 [text |-> runs[r].texts[i], embedding |-> runs[r].embeddings[i]]]

StoreOneByOne(r) ==
    /\ At(r, "store")
    /\ IF runs[r].texts = <<>> THEN End(r) /\ UNCHANGED chunks
       ELSE /\ chunks' = Upsert(chunks, <<[text |-> Head(runs[r].texts),
                                           embedding |-> Head(runs[r].embeddings)]>>)
            /\ runs' = [runs EXCEPT ![r].texts = Tail(@), ![r].embeddings = Tail(@)]
    /\ UNCHANGED documents

\* The upserts of one transaction; of two that meet at a row one waits for the
\* other.  What the documents had before and have no more stays.
Store(r) ==
    /\ At(r, "store")
    /\ chunks' = Upsert(chunks, Zipped(r))
    /\ End(r)
    /\ UNCHANGED documents

\* A request or the database fails the run, or it is stopped: nothing is stored.
Fail(r) ==
    /\ ~At(r, "idle")
    /\ End(r)
    /\ UNCHANGED <<documents, chunks>>

-----------------------------------------------------------------------------
Init ==
    /\ documents = [d \in Documents |-> [there |-> FALSE, labelled |-> FALSE, version |-> 0]]
    /\ chunks = {}
    /\ runs = [r \in Runs |-> NoRun]

\* A run goes on.
Step(r) == Fetch(r) \/ Take(r) \/ NextRequest(r) \/ EndListing(r) \/ Embed(r) \/ Store(r)

Next ==
    \/ \E d \in Documents : Write(d)
    \/ \E r \in Runs : Start(r) \/ Step(r) \/ Fail(r)

Spec == Init /\ [][Next]_vars

\* A process runs on; Atlassian and the embedding service answer or fail.
FairSpec == Spec /\ \A r \in Runs : WF_vars(Step(r))

-----------------------------------------------------------------------------
Of(d) == {c.text : c \in {b \in chunks : b.text.document = d}}

\* Type invariant: the documents, the table and the runs, which start afresh.
TypeOK ==
    /\ documents \in [Documents -> [there : BOOLEAN, labelled : BOOLEAN, version : 0..MaxVersion]]
    /\ chunks \subseteq Chunk
    /\ runs \in [Runs -> Run]
    /\ \A r \in Runs : At(r, "idle") => runs[r] = NoRun

\* Every chunk is found by what it says: its embedding is of its own text,
\* however many batches its run made and however often it came upon a document
\* (index.main zips the two).
EmbeddingsAreOfTheirText == \A c \in chunks : c.embedding = c.text

\* A reader finds some version of each document whole and one chunk at each
\* place, while runs overlap, fail and overwrite each other, and although one run
\* may collect a document twice and in two versions (upsert_chunk in index.main).
DocumentsAreWhole ==
    /\ \A c, e \in chunks : SamePlace(c, e) => c = e
    /\ \A d \in Documents : Of(d) = {} \/
          \E v \in 0..MaxVersion : ToSet(ChunkDocument(d, v)) \subseteq Of(d)

\* "A server that keeps handing back the same cursor must not loop forever"
\* (test_atlassian_pagination.py:74), nor one that always has a new one: every run
\* ends, whatever it is answered (range(_MAX_PAGES), and the batches of embed_texts).
RunsEnd == \A r \in Runs : ~At(r, "idle") ~> At(r, "idle")
=============================================================================
