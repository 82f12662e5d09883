------------------------ MODULE RetrievalIndexProofs ------------------------
(***************************************************************************)
(* Proofs, for any documents, any way to cut them, any answers of the two  *)
(* systems, any size of a batch and any number of runs, that chunks are    *)
(* embedded by their own text and that documents are whole.                *)
(***************************************************************************)
EXTENDS RetrievalIndex, SequenceTheorems, TLAPS

Texts(r) == ToSet(runs[r].texts)
Pieces(d, v) == ToSet(ChunkDocument(d, v))

\* The texts of a list that no later one takes the place of.
Meet(t, u) == t.document = u.document /\ t.chunk_index = u.chunk_index
LastIn(s) == {s[i] : i \in {k \in DOMAIN s : \A j \in DOMAIN s : Meet(s[k], s[j]) => j <= k}}

\* A run has embedded the first of its texts, all of them before it stores.
EmbeddingFacts(r) ==
    /\ runs[r].pc \in {"fetch", "take"} => runs[r].embeddings = <<>> /\ runs[r].start = 0
    /\ Len(runs[r].embeddings) = Lowest(runs[r].start, Len(runs[r].texts))
    /\ \A i \in 1..Len(runs[r].embeddings) : runs[r].embeddings[i] = runs[r].texts[i]
    /\ At(r, "store") => runs[r].start >= Len(runs[r].texts)

\* Of each document a run came upon, however often, some version is whole in what it
\* collected, with none of its pieces replaced by a later one.
DocumentFacts(r) ==
    \A t \in Texts(r) : \E v \in 0..MaxVersion : Pieces(t.document, v) \subseteq LastIn(runs[r].texts)

RunInv == \A r \in Runs : EmbeddingFacts(r) /\ DocumentFacts(r)

\* The inductive invariant.
IndInv == TypeOK /\ RunInv /\ EmbeddingsAreOfTheirText /\ DocumentsAreWhole

-----------------------------------------------------------------------------
LEMMA NoRunTyped ==
    NoRun \in Run /\ NoRun.texts = <<>> /\ NoRun.embeddings = <<>> /\ NoRun.start = 0
    /\ NoRun.pc = "idle"
  BY DEF NoRun, Run, Steps, Sources, Cursor

\* What has the elements of a sequence and of one appended to it.
LEMMA ConcatElements ==
    ASSUME NEW S, NEW s \in Seq(S), NEW t \in Seq(S)
    PROVE  ToSet(s \o t) = ToSet(s) \cup ToSet(t)
  <1>1. /\ s \o t \in Seq(S) /\ Len(s \o t) = Len(s) + Len(t)
        /\ \A i \in 1..Len(s) + Len(t) : (s \o t)[i] = IF i <= Len(s) THEN s[i] ELSE t[i - Len(s)]
    BY ConcatProperties
  <1>2. /\ Len(s) \in Nat /\ Len(t) \in Nat /\ DOMAIN s = 1..Len(s) /\ DOMAIN t = 1..Len(t)
        /\ DOMAIN (s \o t) = 1..Len(s) + Len(t)
    BY <1>1, LenProperties
  <1>3. \A x \in ToSet(s \o t) : x \in ToSet(s) \cup ToSet(t)
    BY <1>1, <1>2 DEF ToSet
  <1>4. ASSUME NEW x \in ToSet(s) PROVE x \in ToSet(s \o t)
    BY <1>1, <1>2 DEF ToSet
  <1>5. ASSUME NEW x \in ToSet(t) PROVE x \in ToSet(s \o t)
    <2>1. PICK i \in 1..Len(t) : x = t[i]
      BY <1>2 DEF ToSet
    <2>2. Len(s) + i \in 1..Len(s) + Len(t) /\ ~(Len(s) + i <= Len(s)) /\ Len(s) + i - Len(s) = i
      BY <1>2
    <2> QED BY <1>1, <1>2, <2>1, <2>2 DEF ToSet
  <1> QED BY <1>3, <1>4, <1>5

\* A document is cut into texts of its own, one for each place.
LEMMA PiecesTyped ==
    ASSUME NEW d \in Documents, NEW v \in 0..MaxVersion
    PROVE  /\ ChunkDocument(d, v) \in Seq(Text)
           /\ Pieces(d, v) # {}
           /\ \A t \in Pieces(d, v) : t.document = d /\ t.version = v
           /\ \A i, j \in DOMAIN ChunkDocument(d, v) :
                 ChunkDocument(d, v)[i].chunk_index = ChunkDocument(d, v)[j].chunk_index => i = j
  <1> DEFINE n == ChunksIn(d, v)
             piece(i) == [document |-> d, chunk_index |-> i - 1, version |-> v]
  <1>1. n \in Nat /\ n >= 1
    BY IndexAssumption DEF ChunksIn
  <1>2. ChunkDocument(d, v) = [i \in 1..n |-> piece(i)]
    BY DEF ChunkDocument
  <1> HIDE DEF n
  <1>3. \A i \in 1..n : piece(i) \in Text
    BY <1>1 DEF Text
  <1>4. ChunkDocument(d, v) \in Seq(Text)
    BY <1>1, <1>2, <1>3, SeqDef
  <1>5. \A t \in Pieces(d, v) : \E i \in 1..n : t = piece(i)
    BY <1>2 DEF Pieces, ToSet
  <1>6. piece(1) \in Pieces(d, v)
    <2>1. 1 \in DOMAIN ChunkDocument(d, v) /\ ChunkDocument(d, v)[1] = piece(1)
      BY <1>1, <1>2
    <2> QED BY <2>1 DEF Pieces, ToSet
  <1>7. \A t \in Pieces(d, v) : t.document = d /\ t.version = v
    BY <1>5
  <1>8. \A i, j \in 1..n : piece(i).chunk_index = piece(j).chunk_index => i = j
    BY <1>1
  <1> QED BY <1>1, <1>2, <1>4, <1>6, <1>7, <1>8

\* A document that is collected takes the places of what was collected of it before,
\* and of nothing else.
LEMMA CollectedLast ==
    ASSUME NEW s \in Seq(Text), NEW d \in Documents, NEW v \in 0..MaxVersion
    PROVE  /\ Pieces(d, v) \subseteq LastIn(s \o ChunkDocument(d, v))
           /\ \A x \in LastIn(s) : x.document # d => x \in LastIn(s \o ChunkDocument(d, v))
  <1> DEFINE t == ChunkDocument(d, v)
             all == s \o t
  <1>1. /\ t \in Seq(Text)
        /\ \A x \in Pieces(d, v) : x.document = d
        /\ \A i, j \in DOMAIN t : t[i].chunk_index = t[j].chunk_index => i = j
    BY PiecesTyped
  <1> HIDE DEF t
  <1>2. /\ all \in Seq(Text) /\ Len(all) = Len(s) + Len(t)
        /\ \A i \in 1..Len(s) + Len(t) : all[i] = IF i <= Len(s) THEN s[i] ELSE t[i - Len(s)]
    BY <1>1, ConcatProperties
  <1>3. /\ Len(s) \in Nat /\ Len(t) \in Nat /\ DOMAIN s = 1..Len(s) /\ DOMAIN t = 1..Len(t)
        /\ DOMAIN all = 1..Len(s) + Len(t)
    BY <1>1, <1>2, LenProperties
  <1> HIDE DEF all
  <1>4. \A i \in 1..Len(t) : t[i].document = d
    BY <1>1, <1>3 DEF Pieces, ToSet, t
  <1>5. ASSUME NEW x \in Pieces(d, v) PROVE x \in LastIn(all)
    <2>1. PICK k \in 1..Len(t) : x = t[k]
      BY <1>3 DEF Pieces, ToSet, t
    <2>2. Len(s) + k \in DOMAIN all /\ all[Len(s) + k] = x
      BY <1>2, <1>3, <2>1
    <2>3. ASSUME NEW j \in DOMAIN all, Meet(x, all[j]) PROVE j <= Len(s) + k
      <3>1. CASE j <= Len(s)
        BY <1>3, <3>1
      <3>2. CASE ~(j <= Len(s))
        <4>1. j - Len(s) \in DOMAIN t /\ all[j] = t[j - Len(s)]
          BY <1>2, <1>3, <3>2
        <4>2. j - Len(s) = k
          BY <1>1, <1>3, <2>1, <2>3, <4>1 DEF Meet
        <4> QED BY <1>3, <4>2
      <3> QED BY <3>1, <3>2
    <2> QED BY <2>2, <2>3 DEF LastIn
  <1>6. ASSUME NEW x \in LastIn(s), x.document # d PROVE x \in LastIn(all)
    <2>1. PICK k \in DOMAIN s : x = s[k] /\ \A j \in DOMAIN s : Meet(s[k], s[j]) => j <= k
      BY DEF LastIn
    <2>2. k \in DOMAIN all /\ all[k] = x
      BY <1>2, <1>3, <2>1
    <2>3. ASSUME NEW j \in DOMAIN all, Meet(x, all[j]) PROVE j <= k
      <3>1. CASE j <= Len(s)
        BY <1>2, <1>3, <2>1, <2>3, <3>1
      <3>2. CASE ~(j <= Len(s))
        <4>1. j - Len(s) \in 1..Len(t) /\ all[j] = t[j - Len(s)]
          BY <1>2, <1>3, <3>2
        <4> QED BY <1>4, <1>6, <2>3, <4>1 DEF Meet
      <3> QED BY <3>1, <3>2
    <2> QED BY <2>2, <2>3 DEF LastIn
  <1> QED BY <1>5, <1>6 DEF all, t

\* Nothing is there (Init).
LEMMA InitIndInv == Init => IndInv
  <1> SUFFICES ASSUME Init PROVE IndInv
    OBVIOUS
  <1>1. \A r \in Runs : runs[r] = NoRun
    BY DEF Init
  <1>2. TypeOK
    BY <1>1, NoRunTyped, IndexAssumption DEF Init, TypeOK, At
  <1>3. RunInv
    <2>1. \A r \in Runs : Texts(r) = {}
      BY <1>1, NoRunTyped DEF Texts, ToSet
    <2>2. \A r \in Runs : EmbeddingFacts(r)
      BY <1>1, NoRunTyped DEF EmbeddingFacts, At, Lowest
    <2> QED BY <2>1, <2>2 DEF RunInv, DocumentFacts
  <1>4. EmbeddingsAreOfTheirText /\ DocumentsAreWhole
    BY DEF Init, EmbeddingsAreOfTheirText, DocumentsAreWhole, Of
  <1> QED BY <1>2, <1>3, <1>4 DEF IndInv

-----------------------------------------------------------------------------
\* A run goes on: it stores nothing, so only its own facts are in question.
LEMMA RunGoesOn ==
    ASSUME IndInv, NEW r \in Runs, NEW d \in Run, runs' = [runs EXCEPT ![r] = d],
           UNCHANGED <<documents, chunks>>,
           d.pc # "idle" \/ d = NoRun,
           EmbeddingFacts(r)', DocumentFacts(r)'
    PROVE  IndInv'
  <1>1. runs' \in [Runs -> Run] /\ runs'[r] = d /\ \A q \in Runs : q # r => runs'[q] = runs[q]
    BY DEF IndInv, TypeOK
  <1>2. TypeOK'
    BY <1>1, NoRunTyped DEF IndInv, TypeOK, At
  <1>3. ASSUME NEW q \in Runs, q # r PROVE EmbeddingFacts(q)' /\ DocumentFacts(q)'
    <2>1. runs'[q] = runs[q] /\ Texts(q)' = Texts(q)
      BY <1>1, <1>3 DEF Texts
    <2>2. EmbeddingFacts(q) /\ DocumentFacts(q)
      BY DEF IndInv, RunInv
    <2>3. EmbeddingFacts(q)'
      BY <2>1, <2>2 DEF EmbeddingFacts, At
    <2>4. DocumentFacts(q)'
      BY <2>1, <2>2 DEF DocumentFacts
    <2> QED BY <2>3, <2>4
  <1>4. EmbeddingsAreOfTheirText' /\ DocumentsAreWhole'
    BY DEF IndInv, EmbeddingsAreOfTheirText, DocumentsAreWhole, Of
  <1> QED BY <1>2, <1>3, <1>4 DEF IndInv, RunInv

\* A run that has ended, or not yet begun to collect, has nothing.
LEMMA EmptyRun ==
    ASSUME NEW r \in Runs, runs'[r].texts = <<>>, runs'[r].embeddings = <<>>, runs'[r].start = 0,
           runs'[r].pc \in {"idle", "fetch"}
    PROVE  EmbeddingFacts(r)' /\ DocumentFacts(r)'
  <1>1. Texts(r)' = {}
    BY DEF Texts, ToSet
  <1>2. EmbeddingFacts(r)'
    BY DEF EmbeddingFacts, At, Lowest
  <1> QED BY <1>1, <1>2 DEF DocumentFacts

\* A run ends and stores nothing.
LEMMA EndStep ==
    ASSUME IndInv, NEW r \in Runs, End(r), UNCHANGED <<documents, chunks>>
    PROVE  IndInv'
  <1>1. runs' = [runs EXCEPT ![r] = NoRun]
    BY DEF End
  <1>2. runs'[r] = NoRun
    BY <1>1 DEF IndInv, TypeOK
  <1> QED BY <1>1, <1>2, NoRunTyped, EmptyRun, RunGoesOn

\* A run starts afresh (index.main).
LEMMA StartStep ==
    ASSUME IndInv, NEW r \in Runs, Start(r)
    PROVE  IndInv'
  <1> DEFINE d == [runs[r] EXCEPT !.pc = "fetch"]
  <1>1. runs' = [runs EXCEPT ![r] = d] /\ UNCHANGED <<documents, chunks>>
    BY DEF Start, Goto, IndInv, TypeOK
  <1>2. d \in Run /\ d.pc = "fetch" /\ d.texts = <<>> /\ d.embeddings = <<>> /\ d.start = 0
    BY NoRunTyped DEF Run, Steps, Start, IndInv, TypeOK
  <1> HIDE DEF d
  <1>3. runs'[r] = d
    BY <1>1 DEF IndInv, TypeOK
  <1> QED BY <1>1, <1>2, <1>3, EmptyRun, RunGoesOn

\* Authors change a document.
LEMMA WriteStep ==
    ASSUME IndInv, NEW d \in Documents, Write(d)
    PROVE  IndInv'
  <1>1. PICK there \in BOOLEAN, labelled \in BOOLEAN,
             v \in {documents[d].version, documents[d].version + 1} :
          /\ v <= MaxVersion
          /\ documents' = [documents EXCEPT ![d] =
                             [there |-> there, labelled |-> labelled, version |-> v]]
    BY DEF Write
  <1>2. UNCHANGED <<chunks, runs>>
    BY DEF Write
  <1>3. TypeOK'
    <2>1. documents[d].version \in 0..MaxVersion /\ v \in 0..MaxVersion
      BY <1>1, IndexAssumption DEF IndInv, TypeOK
    <2>2. documents' \in [Documents -> [there : BOOLEAN, labelled : BOOLEAN, version : 0..MaxVersion]]
      BY <1>1, <2>1 DEF IndInv, TypeOK
    <2> QED BY <1>2, <2>2 DEF IndInv, TypeOK, At
  <1>4. RunInv'
    <2>1. \A r \in Runs : EmbeddingFacts(r)'
      BY <1>2 DEF IndInv, RunInv, EmbeddingFacts, At
    <2>2. \A r \in Runs : DocumentFacts(r)'
      BY <1>2 DEF IndInv, RunInv, DocumentFacts, Texts
    <2> QED BY <2>1, <2>2 DEF RunInv
  <1>5. EmbeddingsAreOfTheirText' /\ DocumentsAreWhole'
    BY <1>2 DEF IndInv, EmbeddingsAreOfTheirText, DocumentsAreWhole, Of
  <1> QED BY <1>3, <1>4, <1>5 DEF IndInv

-----------------------------------------------------------------------------
\* What is known of a run, by its type.
LEMMA RunTyped ==
    ASSUME IndInv, NEW r \in Runs
    PROVE  /\ runs \in [Runs -> Run] /\ runs[r] \in Run
           /\ runs[r].texts \in Seq(Text) /\ runs[r].embeddings \in Seq(Text)
           /\ runs[r].start \in Nat /\ runs[r].results \in Seq(Result)
           /\ Texts(r) \subseteq Text
           /\ EmbeddingFacts(r) /\ DocumentFacts(r)
  <1>1. runs \in [Runs -> Run] /\ runs[r] \in Run
    BY DEF IndInv, TypeOK
  <1>2. /\ runs[r].texts \in Seq(Text) /\ runs[r].embeddings \in Seq(Text)
        /\ runs[r].start \in Nat /\ runs[r].results \in Seq(Result)
    BY <1>1 DEF Run
  <1>3. Texts(r) \subseteq Text
    BY <1>2, LenProperties DEF Texts, ToSet
  <1> QED BY <1>1, <1>2, <1>3 DEF IndInv, RunInv, TypeOK

\* A run that lists or takes and keeps its texts.
LEMMA KeepsTexts ==
    ASSUME IndInv, NEW r \in Runs, NEW e \in Run, runs[r].pc \in {"fetch", "take"},
           runs' = [runs EXCEPT ![r] = e], UNCHANGED <<documents, chunks>>,
           e.pc \in {"fetch", "take", "embed"}, e.texts = runs[r].texts,
           e.embeddings = runs[r].embeddings, e.start = runs[r].start
    PROVE  IndInv'
  <1>1. runs'[r] = e
    BY RunTyped
  <1>2. EmbeddingFacts(r)'
    BY <1>1, RunTyped DEF EmbeddingFacts, At
  <1>3. DocumentFacts(r)'
    BY <1>1, RunTyped DEF DocumentFacts, Texts
  <1> QED BY <1>2, <1>3, RunGoesOn

\* A request is answered (fetch_confluence_pages, fetch_jira_issues).
LEMMA FetchStep ==
    ASSUME IndInv, NEW r \in Runs, Fetch(r)
    PROVE  IndInv'
  <1>1. PICK results \in Answers(runs[r].source), next \in Cursor :
          runs' = [runs EXCEPT ![r].pc = "take", ![r].results = results, ![r].next = next]
    BY DEF Fetch
  <1> DEFINE e == [runs[r] EXCEPT !.pc = "take", !.results = results, !.next = next]
  <1>2. At(r, "fetch") /\ UNCHANGED <<documents, chunks>>
    BY DEF Fetch
  <1>3. results \in Seq(Result)
    <2>1. PICK ds \in UNION {[1..n -> Listed(runs[r].source)] : n \in 0..LIMIT} :
              results = [i \in DOMAIN ds |->
                            [document |-> ds[i], version |-> documents[ds[i]].version]]
      BY <1>1 DEF Answers
    <2>2. PICK n \in 0..LIMIT : ds \in [1..n -> Listed(runs[r].source)]
      BY <2>1
    <2>3. \A i \in 1..n : ds[i] \in Documents /\ documents[ds[i]].version \in 0..MaxVersion
      BY <2>2 DEF Listed, IndInv, TypeOK
    <2>4. results = [i \in 1..n |-> [document |-> ds[i], version |-> documents[ds[i]].version]]
      BY <2>1, <2>2
    <2>5. results \in [1..n -> Result]
      BY <2>3, <2>4 DEF Result
    <2>6. n \in Nat
      BY <2>2, IndexAssumption
    <2> QED BY <2>5, <2>6, SeqDef
  <1>4. runs' = [runs EXCEPT ![r] = e]
    BY <1>1, RunTyped
  <1>5. e \in Run /\ e.pc = "take" /\ e.texts = runs[r].texts /\ e.embeddings = runs[r].embeddings
        /\ e.start = runs[r].start
    BY <1>3, RunTyped DEF Run, Steps
  <1> HIDE DEF e
  <1> QED BY <1>2, <1>4, <1>5, RunTyped, KeepsTexts DEF At

\* A document is collected, for the first time or once more.
LEMMA Collects ==
    ASSUME IndInv, NEW r \in Runs, NEW d \in Documents, NEW v \in 0..MaxVersion, NEW e \in Run,
           runs' = [runs EXCEPT ![r] = e], UNCHANGED <<documents, chunks>>,
           e.pc = "take", e.texts = runs[r].texts \o ChunkDocument(d, v),
           e.embeddings = <<>>, e.start = 0
    PROVE  IndInv'
  <1>1. runs'[r] = e
    BY RunTyped
  <1>2. runs[r].texts \in Seq(Text) /\ ChunkDocument(d, v) \in Seq(Text)
    BY RunTyped, PiecesTyped
  <1>3. Texts(r)' = Texts(r) \cup Pieces(d, v)
    <2>1. ToSet(runs[r].texts \o ChunkDocument(d, v))
              = ToSet(runs[r].texts) \cup ToSet(ChunkDocument(d, v))
      BY <1>2, ConcatElements
    <2> QED BY <1>1, <2>1 DEF Texts, Pieces
  <1>4. EmbeddingFacts(r)'
    <2>1. Len(e.texts) \in Nat /\ Len(<<>>) = 0
      BY <1>2, ConcatProperties, LenProperties
    <2> QED BY <1>1, <2>1 DEF EmbeddingFacts, At, Lowest
  <1>5. ASSUME NEW t \in Texts(r)'
        PROVE  \E u \in 0..MaxVersion : Pieces(t.document, u) \subseteq LastIn(e.texts)
    <2>1. CASE t.document = d
      BY <1>2, <2>1, CollectedLast
    <2>2. CASE t.document # d
      <3>1. t \in Texts(r)
        BY <1>3, <2>2, PiecesTyped
      <3>2. t.document \in Documents
        BY <3>1, RunTyped DEF Text
      <3>3. PICK u \in 0..MaxVersion : Pieces(t.document, u) \subseteq LastIn(runs[r].texts)
        BY <3>1, RunTyped DEF DocumentFacts
      <3>4. \A x \in Pieces(t.document, u) : x.document = t.document
        BY <3>2, PiecesTyped
      <3> QED BY <1>2, <2>2, <3>3, <3>4, CollectedLast
    <2> QED BY <2>1, <2>2
  <1>6. DocumentFacts(r)'
    BY <1>1, <1>5 DEF DocumentFacts
  <1> QED BY <1>1, <1>4, <1>6, RunGoesOn

\* The first of the results is collected, passed over, or gone (collect_documents).
LEMMA TakeStep ==
    ASSUME IndInv, NEW r \in Runs, Take(r)
    PROVE  IndInv'
  <1> DEFINE d == Head(runs[r].results).document
             v == Head(runs[r].results).version
             rest == [runs[r] EXCEPT !.results = Tail(@)]
             taken == [rest EXCEPT !.texts = @ \o ChunkDocument(d, v)]
  <1>1. At(r, "take") /\ runs[r].results # <<>> /\ UNCHANGED <<documents, chunks>>
    BY DEF Take
  <1>2. d \in Documents /\ v \in 0..MaxVersion /\ Tail(runs[r].results) \in Seq(Result)
    <2>1. Head(runs[r].results) \in Result /\ Tail(runs[r].results) \in Seq(Result)
      BY <1>1, RunTyped, HeadTailProperties
    <2> QED BY <2>1 DEF Result
  <1>3. runs[r].embeddings = <<>> /\ runs[r].start = 0
    BY <1>1, RunTyped DEF EmbeddingFacts, At
  <1>4. rest \in Run /\ rest.pc = "take" /\ rest.texts = runs[r].texts
        /\ rest.embeddings = runs[r].embeddings /\ rest.start = runs[r].start
    BY <1>1, <1>2, RunTyped DEF Run, At
  <1>5. CASE End(r)
    BY <1>1, <1>5, EndStep
  <1>6. CASE runs' = [runs EXCEPT ![r].results = Tail(@)]
    <2>1. runs' = [runs EXCEPT ![r] = rest]
      BY <1>6, RunTyped
    <2> HIDE DEF rest
    <2> QED BY <1>1, <1>4, <2>1, KeepsTexts DEF At
  <1>7. CASE runs' = [[runs EXCEPT ![r].results = Tail(@)] EXCEPT ![r].texts = @ \o ChunkDocument(d, v)]
    <2>1. runs' = [runs EXCEPT ![r] = taken]
      BY <1>7, RunTyped
    <2>2. runs[r].texts \o ChunkDocument(d, v) \in Seq(Text)
      BY <1>2, RunTyped, PiecesTyped, ConcatProperties
    <2>3. taken \in Run /\ taken.pc = "take" /\ taken.embeddings = <<>> /\ taken.start = 0
          /\ taken.texts = runs[r].texts \o ChunkDocument(d, v)
      BY <1>3, <1>4, <2>2 DEF Run
    <2> HIDE DEF taken, d, v
    <2> QED BY <1>1, <1>2, <1>7, <2>1, <2>3, Collects
  <1> QED BY <1>5, <1>6, <1>7 DEF Take

\* The next request, or there were too many (iter_confluence_pages, iter_jira_issues).
LEMMA NextRequestStep ==
    ASSUME IndInv, NEW r \in Runs, NextRequest(r)
    PROVE  IndInv'
  <1> DEFINE made == runs[r].requests + 1
             e == [runs[r] EXCEPT !.pc = "fetch", !.requests = made, !.next = "none"]
  <1>1. At(r, "take") /\ UNCHANGED <<documents, chunks>>
    BY DEF NextRequest
  <1>2. CASE End(r)
    BY <1>1, <1>2, EndStep
  <1>3. CASE runs' = [runs EXCEPT ![r].pc = "fetch", ![r].requests = made, ![r].next = "none"]
    <2>1. runs' = [runs EXCEPT ![r] = e]
      BY <1>3, RunTyped
    <2>2. made \in Nat
      BY RunTyped DEF Run
    <2>3. e \in Run /\ e.pc = "fetch" /\ e.texts = runs[r].texts
          /\ e.embeddings = runs[r].embeddings /\ e.start = runs[r].start
      BY <2>2, RunTyped DEF Run, Steps, Cursor
    <2> HIDE DEF e
    <2> QED BY <1>1, <1>3, <2>1, <2>3, RunTyped, KeepsTexts DEF At
  <1> QED BY <1>2, <1>3 DEF NextRequest

\* A listing ends: the other system is next, or the texts are embedded.
LEMMA EndListingStep ==
    ASSUME IndInv, NEW r \in Runs, EndListing(r)
    PROVE  IndInv'
  <1> DEFINE to == IF runs[r].source = "confluence" THEN "fetch" ELSE "embed"
             e == [runs[r] EXCEPT !.requests = 0, !.next = "none", !.source = "jira", !.pc = to]
  <1>1. At(r, "take") /\ UNCHANGED <<documents, chunks>>
    BY DEF EndListing
  <1>2. runs' = [runs EXCEPT ![r] = e]
    BY RunTyped DEF EndListing
  <1>3. e \in Run /\ e.pc \in {"fetch", "embed"} /\ e.texts = runs[r].texts
        /\ e.embeddings = runs[r].embeddings /\ e.start = runs[r].start
    BY RunTyped DEF Run, Steps, Sources, Cursor
  <1> HIDE DEF e
  <1> QED BY <1>1, <1>2, <1>3, RunTyped, KeepsTexts DEF At

\* The next batch goes behind the texts that are embedded already, or all are.
LEMMA EmbedStep ==
    ASSUME IndInv, NEW r \in Runs, Embed(r)
    PROVE  IndInv'
  <1> DEFINE texts == runs[r].texts
             done == runs[r].embeddings
             from == runs[r].start
             upto == Lowest(from + BATCH_SIZE, Len(texts))
             batched == [runs[r] EXCEPT !.embeddings = @ \o Batch(r), !.start = @ + BATCH_SIZE]
             ready == [runs[r] EXCEPT !.pc = "store"]
  <1>1. At(r, "embed") /\ UNCHANGED <<documents, chunks>>
    BY DEF Embed
  <1>2. /\ texts \in Seq(Text) /\ done \in Seq(Text) /\ from \in Nat
        /\ Len(texts) \in Nat /\ Len(done) \in Nat /\ DOMAIN texts = 1..Len(texts)
        /\ \A i \in 1..Len(texts) : texts[i] \in Text
        /\ Len(done) = Lowest(from, Len(texts))
        /\ \A i \in 1..Len(done) : done[i] = texts[i]
    BY RunTyped, LenProperties DEF EmbeddingFacts
  <1>3. DocumentFacts(r)
    BY RunTyped
  <1>4. CASE from < Len(texts)
    <2>1. runs' = [runs EXCEPT ![r] = batched]
      BY <1>4, RunTyped DEF Embed
    <2>2. BATCH_SIZE \in Nat \ {0}
      BY IndexAssumption
    <2>3. /\ Len(done) = from /\ upto \in Nat /\ from + 1 <= upto /\ upto <= Len(texts)
          /\ from + BATCH_SIZE \in Nat /\ upto = Lowest(from + BATCH_SIZE, Len(texts))
      BY <1>2, <1>4, <2>2 DEF Lowest
    <2> HIDE DEF texts, done, from, upto
    <2>4. /\ SubSeq(texts, from + 1, upto) \in Seq(Text)
          /\ Len(SubSeq(texts, from + 1, upto)) = upto - from
          /\ \A i \in 1..(upto - from) : SubSeq(texts, from + 1, upto)[i] = texts[from + i]
      <3>1. \A i \in (from + 1)..upto : texts[i] \in Text
        BY <1>2, <2>3
      <3>2. from + 1 \in Int /\ upto \in Int
        BY <1>2, <2>3
      <3>3. /\ SubSeq(texts, from + 1, upto) \in Seq(Text)
            /\ Len(SubSeq(texts, from + 1, upto))
                   = IF from + 1 <= upto THEN upto - (from + 1) + 1 ELSE 0
            /\ \A i \in 1..(upto - (from + 1) + 1) :
                  SubSeq(texts, from + 1, upto)[i] = texts[from + 1 + i - 1]
        BY <3>1, <3>2, SubSeqProperties
      <3> QED BY <1>2, <2>3, <3>3
    <2>5. /\ Batch(r) \in Seq(Text) /\ Len(Batch(r)) = upto - from
          /\ \A i \in 1..(upto - from) : Batch(r)[i] = texts[from + i]
      <3>1. Batch(r) = SubSeq(texts, from + 1, upto)
        BY DEF Batch, texts, from, upto
      <3> QED BY <2>4, <3>1
    <2>6. /\ done \o Batch(r) \in Seq(Text) /\ Len(done \o Batch(r)) = upto
          /\ \A i \in 1..upto : (done \o Batch(r))[i] = texts[i]
      <3>1. /\ done \o Batch(r) \in Seq(Text)
            /\ Len(done \o Batch(r)) = Len(done) + Len(Batch(r))
            /\ \A i \in 1..Len(done) + Len(Batch(r)) : (done \o Batch(r))[i]
                  = IF i <= Len(done) THEN done[i] ELSE Batch(r)[i - Len(done)]
        BY <1>2, <2>5, ConcatProperties
      <3>2. ASSUME NEW i \in 1..upto PROVE (done \o Batch(r))[i] = texts[i]
        <4>1. CASE i <= from
          BY <1>2, <2>3, <2>5, <3>1, <4>1
        <4>2. CASE ~(i <= from)
          <5>1. i - from \in 1..(upto - from) /\ from + (i - from) = i
            BY <1>2, <2>3, <4>2
          <5>2. (done \o Batch(r))[i] = Batch(r)[i - from]
            BY <1>2, <2>3, <2>5, <3>1, <4>2
          <5>3. Batch(r)[i - from] = texts[from + (i - from)]
            BY <2>5, <5>1
          <5> QED BY <5>1, <5>2, <5>3
        <4> QED BY <4>1, <4>2
      <3>3. Len(done) + Len(Batch(r)) = upto
        BY <1>2, <2>3, <2>4, <2>5
      <3> QED BY <3>1, <3>2, <3>3
    <2>7. /\ batched \in Run /\ batched.pc = "embed" /\ batched.texts = texts
          /\ batched.embeddings = done \o Batch(r) /\ batched.start = from + BATCH_SIZE
      BY <1>1, <2>3, <2>6, RunTyped DEF Run, Steps, At, done, texts, from
    <2> HIDE DEF batched
    <2>8. runs'[r] = batched
      BY <2>1, RunTyped
    <2>9. EmbeddingFacts(r)'
      BY <2>3, <2>6, <2>7, <2>8 DEF EmbeddingFacts, At
    <2>10. Texts(r)' = Texts(r)
      BY <2>7, <2>8 DEF Texts, texts
    <2>11. DocumentFacts(r)'
      BY <1>3, <2>7, <2>8, <2>10 DEF DocumentFacts, texts
    <2> QED BY <1>1, <2>1, <2>7, <2>9, <2>11, RunTyped, RunGoesOn
  <1>5. CASE ~(from < Len(texts))
    <2>1. runs' = [runs EXCEPT ![r] = ready]
      BY <1>5 DEF Embed, Goto
    <2>2. /\ ready \in Run /\ ready.pc = "store" /\ ready.texts = texts
          /\ ready.embeddings = done /\ ready.start = from
      BY RunTyped DEF Run, Steps
    <2> HIDE DEF ready
    <2>3. runs'[r] = ready
      BY <2>1, RunTyped
    <2>4. EmbeddingFacts(r)'
      BY <1>2, <1>5, <2>2, <2>3 DEF EmbeddingFacts, At
    <2>5. Texts(r)' = Texts(r)
      BY <2>2, <2>3 DEF Texts
    <2>6. DocumentFacts(r)'
      BY <1>3, <2>2, <2>3, <2>5 DEF DocumentFacts
    <2> QED BY <1>1, <2>1, <2>2, <2>4, <2>6, RunTyped, RunGoesOn
  <1> QED BY <1>4, <1>5

\* What a run stores: the texts it collected last for each place, each with the
\* embedding of that text.
LEMMA StoredFacts ==
    ASSUME IndInv, NEW r \in Runs, At(r, "store"), NEW stored,
           stored = {Zipped(r)[i] : i \in LastAtTheirPlace(Zipped(r))}
    PROVE  /\ \A c \in stored : c \in Chunk /\ c.text \in Texts(r) /\ c.embedding = c.text
           /\ \A t \in LastIn(runs[r].texts) : \E c \in stored : c.text = t
           /\ \A c, e \in stored : SamePlace(c, e) => c = e
  <1> DEFINE texts == runs[r].texts
             done == runs[r].embeddings
             new == Zipped(r)
  <1>1. /\ DOMAIN texts = 1..Len(texts) /\ DOMAIN done = 1..Len(texts) /\ Len(texts) \in Nat
        /\ \A i \in 1..Len(texts) : done[i] = texts[i] /\ texts[i] \in Text
    <2>1. /\ texts \in Seq(Text) /\ done \in Seq(Text) /\ runs[r].start \in Nat
          /\ Len(done) = Lowest(runs[r].start, Len(texts)) /\ runs[r].start >= Len(texts)
          /\ \A i \in 1..Len(done) : done[i] = texts[i]
      BY RunTyped DEF EmbeddingFacts
    <2>2. /\ Len(texts) \in Nat /\ DOMAIN texts = 1..Len(texts) /\ DOMAIN done = 1..Len(done)
          /\ \A i \in 1..Len(texts) : texts[i] \in Text
      BY <2>1, LenProperties
    <2>3. Len(done) = Len(texts)
      BY <2>1, <2>2 DEF Lowest
    <2> QED BY <2>1, <2>2, <2>3
  <1>2. new = [i \in 1..Len(texts) |-> [text |-> texts[i], embedding |-> texts[i]]]
    BY <1>1 DEF Zipped
  <1>3. Texts(r) = {texts[i] : i \in 1..Len(texts)}
    BY <1>1 DEF Texts, ToSet
  <1> HIDE DEF texts, done, new
  <1>4. \A i, j \in 1..Len(texts) : SamePlace(new[i], new[j]) <=> Meet(texts[i], texts[j])
    BY <1>2 DEF SamePlace, Meet
  <1>5. DOMAIN new = 1..Len(texts) /\ LastAtTheirPlace(new) \subseteq 1..Len(texts)
    BY <1>2 DEF LastAtTheirPlace
  <1>6. ASSUME NEW c \in stored
        PROVE  c \in Chunk /\ c.text \in Texts(r) /\ c.embedding = c.text
    <2>1. PICK i \in 1..Len(texts) : c = [text |-> texts[i], embedding |-> texts[i]]
      BY <1>2, <1>5 DEF new
    <2> QED BY <1>1, <1>3, <2>1 DEF Chunk
  <1>7. ASSUME NEW t \in LastIn(texts) PROVE \E c \in stored : c.text = t
    <2>1. PICK k \in 1..Len(texts) : /\ t = texts[k]
                                     /\ \A j \in 1..Len(texts) : Meet(texts[k], texts[j]) => j <= k
      BY <1>1 DEF LastIn
    <2>2. k \in LastAtTheirPlace(new)
      BY <1>4, <1>5, <2>1 DEF LastAtTheirPlace
    <2>3. new[k] \in stored
      BY <2>2 DEF new
    <2>4. new[k].text = t
      BY <1>2, <2>1
    <2> QED BY <2>3, <2>4
  <1>8. ASSUME NEW c \in stored, NEW e \in stored, SamePlace(c, e) PROVE c = e
    <2>1. PICK i \in LastAtTheirPlace(new) : c = new[i]
      BY DEF new
    <2>2. PICK j \in LastAtTheirPlace(new) : e = new[j]
      BY DEF new
    <2>3. SamePlace(new[i], new[j]) /\ SamePlace(new[j], new[i])
      BY <1>8, <2>1, <2>2 DEF SamePlace
    <2>4. j <= i /\ i <= j /\ i \in Nat /\ j \in Nat
      BY <1>1, <1>5, <2>3 DEF LastAtTheirPlace
    <2> QED BY <2>1, <2>2, <2>4
  <1> QED BY <1>6, <1>7, <1>8 DEF texts

\* The chunks of a run take the place of those at theirs (upsert_chunk).
LEMMA StoreStep ==
    ASSUME IndInv, NEW r \in Runs, Store(r)
    PROVE  IndInv'
  <1> DEFINE new == {Zipped(r)[i] : i \in LastAtTheirPlace(Zipped(r))}
             kept == {c \in chunks : \A e \in new : ~SamePlace(c, e)}
  <1>1. /\ At(r, "store") /\ chunks' = kept \cup new /\ UNCHANGED documents
        /\ runs' = [runs EXCEPT ![r] = NoRun]
    BY DEF Store, Upsert, End
  <1>2. /\ \A c \in new : c \in Chunk /\ c.text \in Texts(r) /\ c.embedding = c.text
        /\ \A t \in LastIn(runs[r].texts) : \E c \in new : c.text = t
        /\ \A c, e \in new : SamePlace(c, e) => c = e
    BY <1>1, StoredFacts
  <1>3. DocumentFacts(r)
    BY RunTyped
  <1>4. kept \subseteq chunks /\ chunks \subseteq Chunk
    BY DEF IndInv, TypeOK
  <1> HIDE DEF new
  <1>5. TypeOK'
    <2>1. runs' \in [Runs -> Run] /\ runs'[r] = NoRun /\ \A q \in Runs : q # r => runs'[q] = runs[q]
      BY <1>1, NoRunTyped DEF IndInv, TypeOK
    <2>2. chunks' \subseteq Chunk
      BY <1>1, <1>2, <1>4
    <2> QED BY <1>1, <2>1, <2>2 DEF IndInv, TypeOK, At
  <1>6. RunInv'
    <2>1. /\ runs'[r] = NoRun /\ \A q \in Runs : q # r => runs'[q] = runs[q]
      BY <1>1, RunTyped
    <2>2. EmbeddingFacts(r)' /\ DocumentFacts(r)'
      BY <2>1, NoRunTyped, EmptyRun
    <2>3. ASSUME NEW q \in Runs, q # r PROVE EmbeddingFacts(q)' /\ DocumentFacts(q)'
      <3>1. runs'[q] = runs[q] /\ Texts(q)' = Texts(q)
        BY <2>1, <2>3 DEF Texts
      <3>2. EmbeddingFacts(q) /\ DocumentFacts(q)
        BY RunTyped
      <3>3. EmbeddingFacts(q)'
        BY <3>1, <3>2 DEF EmbeddingFacts, At
      <3>4. DocumentFacts(q)'
        BY <3>1, <3>2 DEF DocumentFacts
      <3> QED BY <3>3, <3>4
    <2> QED BY <2>2, <2>3 DEF RunInv
  <1>7. EmbeddingsAreOfTheirText'
    BY <1>1, <1>2, <1>4 DEF IndInv, EmbeddingsAreOfTheirText
  <1>8. ASSUME NEW c \in chunks', NEW e \in chunks', SamePlace(c, e)
        PROVE  c = e
    <2>1. CASE c \in kept /\ e \in kept
      BY <1>4, <1>8, <2>1 DEF IndInv, DocumentsAreWhole
    <2>2. CASE c \in new /\ e \in new
      BY <1>2, <1>8, <2>2
    <2>3. CASE c \in kept /\ e \in new
      BY <1>8, <2>3
    <2>4. CASE c \in new /\ e \in kept
      BY <1>8, <2>4 DEF SamePlace
    <2> QED BY <1>1, <2>1, <2>2, <2>3, <2>4
  <1>9. ASSUME NEW d \in Documents
        PROVE  Of(d)' = {} \/ \E v \in 0..MaxVersion : Pieces(d, v) \subseteq Of(d)'
    <2>1. CASE \A e \in new : e.text.document # d
      <3>1. \A c \in chunks : c.text.document = d => c \in kept
        BY <2>1 DEF SamePlace
      <3>2. Of(d)' = Of(d)
        BY <1>1, <1>4, <2>1, <3>1 DEF Of
      <3> QED BY <3>2 DEF IndInv, DocumentsAreWhole, Pieces
    <2>2. CASE \E e \in new : e.text.document = d
      <3>1. PICK e \in new : e.text.document = d
        BY <2>2
      <3>2. PICK v \in 0..MaxVersion : Pieces(d, v) \subseteq LastIn(runs[r].texts)
        BY <1>2, <1>3, <3>1 DEF DocumentFacts
      <3>3. ASSUME NEW t \in Pieces(d, v) PROVE t \in Of(d)'
        <4>1. t \in LastIn(runs[r].texts) /\ t.document = d
          BY <3>2, PiecesTyped
        <4>2. PICK c \in new : c.text = t
          BY <1>2, <4>1
        <4> QED BY <1>1, <4>1, <4>2 DEF Of
      <3> QED BY <3>3
    <2> QED BY <2>1, <2>2
  <1>10. DocumentsAreWhole'
    BY <1>8, <1>9 DEF DocumentsAreWhole, Pieces
  <1> QED BY <1>5, <1>6, <1>7, <1>10 DEF IndInv

\* Nothing happens.
LEMMA StutterStep ==
    ASSUME IndInv, UNCHANGED vars
    PROVE  IndInv'
  <1>1. TypeOK'
    BY DEF vars, IndInv, TypeOK, At
  <1>2. RunInv'
    BY DEF vars, IndInv, RunInv, EmbeddingFacts, DocumentFacts, Texts, At
  <1>3. EmbeddingsAreOfTheirText' /\ DocumentsAreWhole'
    BY DEF vars, IndInv, EmbeddingsAreOfTheirText, DocumentsAreWhole, Of
  <1> QED BY <1>1, <1>2, <1>3 DEF IndInv

\* Every step keeps the invariant.
LEMMA NextIndInv == IndInv /\ [Next]_vars => IndInv'
  <1> SUFFICES ASSUME IndInv, [Next]_vars PROVE IndInv'
    OBVIOUS
  <1>1. ASSUME NEW d \in Documents, Write(d) PROVE IndInv'
    BY <1>1, WriteStep
  <1>2. ASSUME NEW r \in Runs, Start(r) PROVE IndInv'
    BY <1>2, StartStep
  <1>3. ASSUME NEW r \in Runs, Fetch(r) PROVE IndInv'
    BY <1>3, FetchStep
  <1>4. ASSUME NEW r \in Runs, Take(r) PROVE IndInv'
    BY <1>4, TakeStep
  <1>5. ASSUME NEW r \in Runs, NextRequest(r) PROVE IndInv'
    BY <1>5, NextRequestStep
  <1>6. ASSUME NEW r \in Runs, EndListing(r) PROVE IndInv'
    BY <1>6, EndListingStep
  <1>7. ASSUME NEW r \in Runs, Embed(r) PROVE IndInv'
    BY <1>7, EmbedStep
  <1>8. ASSUME NEW r \in Runs, Store(r) PROVE IndInv'
    BY <1>8, StoreStep
  <1>9. ASSUME NEW r \in Runs, Fail(r) PROVE IndInv'
    BY <1>9, EndStep DEF Fail
  <1>10. CASE UNCHANGED vars
    BY <1>10, StutterStep
  <1> QED BY <1>1, <1>2, <1>3, <1>4, <1>5, <1>6, <1>7, <1>8, <1>9, <1>10 DEF Next, Step

-----------------------------------------------------------------------------
\* The inductive invariant holds of every behaviour of the index, whatever Atlassian
\* lists and however often (iter_confluence_pages, iter_jira_issues).
THEOREM Inductive == Spec => []IndInv
  <1> QED BY InitIndInv, NextIndInv, PTL DEF Spec

\* The documents, the table and the runs keep their types.
THEOREM TypeCorrect == Spec => []TypeOK
  <1>1. IndInv => TypeOK
    BY DEF IndInv
  <1> QED BY <1>1, Inductive, PTL

\* A chunk is found by what it says, for any size of a batch and any number of
\* texts (embed_texts, and the zip of index.main).
THEOREM ChunksAreFoundByTheirText == Spec => []EmbeddingsAreOfTheirText
  <1>1. IndInv => EmbeddingsAreOfTheirText
    BY DEF IndInv
  <1> QED BY <1>1, Inductive, PTL

\* A reader finds some version of a document whole, and one chunk at each place,
\* for any number of runs that overlap, fail and come upon a document several times
\* (upsert_chunk in one transaction).
THEOREM DocumentsStayWhole == Spec => []DocumentsAreWhole
  <1>1. IndInv => DocumentsAreWhole
    BY DEF IndInv
  <1> QED BY <1>1, Inductive, PTL
=============================================================================
