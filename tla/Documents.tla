----------------------------- MODULE Documents -----------------------------
(***************************************************************************)
(* The documents of the knowledge base: the service, which embeds their    *)
(* content by a call of the AI provider, and the store.  An embedding is   *)
(* the content it was computed from.                                       *)
(***************************************************************************)
EXTENDS RecordRequests

CONSTANT FirstDocuments   \* the table at the start

Embed(content) == content

DocumentRow == [workspace : Workspace, title : Name, content : Name,
                embedding : Name, created : Instants]
\* Before the content has its vector.
Draft == [workspace : Workspace, title : Name, content : Name,
          embedding : Name \cup {Null}, created : Instants]
EmbeddingsFit(table) == \A i \in Id :
    Exists(table[i]) => table[i].embedding = Embed(table[i].content)

ASSUME DocumentsAssumption ==
    /\ {Null, Gone} \cap Draft = {}
    /\ FirstDocuments \in Table(DocumentRow) /\ EmbeddingsFit(FirstDocuments)

VARIABLE documents

DocInit == documents = FirstDocuments

-----------------------------------------------------------------------------
DocumentVisible(ws, i) == Exists(documents[i]) /\ documents[i].workspace = ws

\* The bodies that pass the checks of Create.
DocumentRequest == [title : Name, content : Name]
NewDocument(ws, req, now) ==
    [workspace |-> ws, title |-> req.title, content |-> req.content,
     embedding |-> Null, created |-> now]

\* The content is given a vector before anything is written.
CreateDocument(c) == \E req \in DocumentRequest, now \in Instants :
    /\ Arrives(c, Holding("document", Null, NewDocument(Ws(c), req, now), "embed"))
    /\ UNCHANGED documents

\* An empty PATCH is refused.
DocumentPatch == [title : Name] \cup [content : Name] \cup [title : Name, content : Name]

\* Mutant: the content is compared after it was overwritten.
NeedsEmbeddingLate(row, patch) ==
    "content" \in DOMAIN patch /\ patch.content # Overlay(row, patch).content

\* Update embeds again only if the content differs from what it read.
NeedsEmbedding(row, patch) ==
    "content" \in DOMAIN patch /\ patch.content # row.content

UpdateDocument(c) == \E i \in Id, patch \in DocumentPatch :
    /\ Arrives(c, IF DocumentVisible(Ws(c), i)
                  THEN Holding("document", i, Overlay(documents[i], patch),
                        IF NeedsEmbedding(documents[i], patch) THEN "embed" ELSE "write")
                  ELSE Outcome("document", i, "notfound"))
    /\ UNCHANGED documents

\* Mutant: the vector is left for later.
EmbedLater(c) ==
    /\ call[c].pc = "embed" /\ call[c].table = "document"
    /\ Goes(c, [call[c] EXCEPT !.pc = IF call[c].id = Null THEN "insert" ELSE "write"])
    /\ UNCHANGED documents

EmbedContent(c) == LET copy == call[c].copy IN
    /\ call[c].pc = "embed" /\ call[c].table = "document"
    /\ Goes(c, [call[c] EXCEPT
            !.copy = [copy EXCEPT !.embedding = Embed(copy.content)],
            !.pc = IF call[c].id = Null THEN "insert" ELSE "write"])
    /\ UNCHANGED documents

\* Upsert inserts without an id: its conflict path is never taken.
InsertDocument(c) == \E i \in Id :
    /\ call[c].pc = "insert" /\ call[c].table = "document"
    /\ documents[i] = Null
    /\ Goes(c, Outcome("document", i, "ok"))
    /\ documents' = [documents EXCEPT ![i] = call[c].copy]

\* Mutant: an update goes through INSERT ... ON CONFLICT.
WriteByUpsert(c) == LET i == call[c].id IN
    /\ call[c].pc = "write" /\ call[c].table = "document"
    /\ Goes(c, Outcome("document", i, "ok"))
    /\ documents' = [documents EXCEPT ![i] = call[c].copy]

WriteDocument(c) == LET i == call[c].id copy == call[c].copy IN
    /\ call[c].pc = "write" /\ call[c].table = "document"
    /\ IF DocumentVisible(Ws(c), i)
       THEN /\ Goes(c, Outcome("document", i, "ok"))
            /\ documents' = [documents EXCEPT ![i] = copy]
       ELSE Goes(c, Outcome("document", i, "notfound")) /\ UNCHANGED documents

RemoveDocument(c, i) ==
    IF DocumentVisible(Ws(c), i)
    THEN /\ Arrives(c, Outcome("document", i, "ok"))
         /\ documents' = [documents EXCEPT ![i] = Gone]
    ELSE Arrives(c, Outcome("document", i, "notfound")) /\ UNCHANGED documents
DeleteDocument(c) == \E i \in Id : RemoveDocument(c, i)

\* The query is embedded and the nearest documents are shown: nothing changes,
\* but the search is recorded before it is answered.
SearchDocuments(c) ==
    /\ Arrives(c, Holding("document", Null, Null, "search"))
    /\ UNCHANGED documents
Found(c) ==
    /\ call[c].pc = "search" /\ Goes(c, Outcome("document", Null, "ok"))
    /\ UNCHANGED documents

-----------------------------------------------------------------------------
DocStep(c) ==
    \/ CreateDocument(c) \/ UpdateDocument(c) \/ EmbedContent(c)
    \/ InsertDocument(c) \/ WriteDocument(c) \/ DeleteDocument(c)
    \/ SearchDocuments(c) \/ Found(c)
=============================================================================
