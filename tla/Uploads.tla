------------------------------- MODULE Uploads -------------------------------
(***************************************************************************)
(* Images users upload: uploads/service.py puts the object into the        *)
(* storage of the day (storage/service.py), lets a vision model read it    *)
(* (vision/service.py) and inserts its row; previews and the contexts of   *)
(* questions read them back, perhaps after the server was deployed anew    *)
(* with another storage or other models (ModelRouting).                    *)
(*                                                                         *)
(* Content is named by the image it is of.  The definitions of the         *)
(* specification bear the name of the module, since the proofs about it    *)
(* stand beside those about the questions images are sent with.            *)
(***************************************************************************)
EXTENDS ModelRouting, FiniteSets

CONSTANTS
    Images,             \* ids of images (uuid4): fresh for every upload
    Users,
    Environments        \* configurations the server is started with

StorageProviders == {"local", "s3", "supabase", "azure"}

\* What the settings of a server can be.
ASSUME UploadAssumption == \A e \in Environments :
    /\ e.storage \in StorageProviders \cup {"minio", "unknown"}
    /\ e.pinned \in [Tasks -> STRING \cup {None}]
    /\ e.visionProvider \in STRING
    /\ e.keys \subseteq Accounts /\ e.urls \subseteq Accounts
    /\ e.chatModels \in Seq(STRING)
    /\ e.reachable \subseteq StorageProviders

VARIABLES
    environment,    \* what the server runs with
    uploads,        \* the progress of each upload
    objects,        \* what the storages hold: place -> content
    rows,           \* table uploaded_files
    previews,       \* what previews answered (observed)
    contexts        \* whose questions were given which image (observed)

uploadsVars == <<environment, uploads, objects, rows, previews, contexts>>

-----------------------------------------------------------------------------
Place == [provider : StorageProviders, key : Users \X Images]
\* The models a server may know.
Models == Ids(BuiltIn) \cup {e.pinned["vision"] : e \in Environments}
Row == [id : Images, user_id : Users, place : Place, model : Models \cup {None}]
UploadSteps == {"new", "checked", "stored", "analysed", "ended"}
Preview == [user : Users, image : Images, content : Images \cup {None}, reachable : BOOLEAN]
NewUpload == [pc |-> "new", user |-> None, place |-> None, model |-> None]

Advance(i, upload) == uploads' = [uploads EXCEPT ![i] = upload]
End(i) == uploads' = [uploads EXCEPT ![i] = [NewUpload EXCEPT !.pc = "ended"]]

\* get_storage: MinIO is S3; what it does not know raises.
StorageOf(provider) == IF provider = "minio" THEN "s3" ELSE provider
IsReachable(provider) == StorageOf(provider) \in environment.reachable

-----------------------------------------------------------------------------
\* save_uploaded_image refuses other content before it keeps anything.
CheckImage(i, user) ==
    /\ uploads[i].pc = "new"
    /\ \/ Advance(i, [uploads[i] EXCEPT !.pc = "checked", !.user = user])
       \/ End(i)
    /\ UNCHANGED <<environment, objects, rows, previews, contexts>>

StorageKeyByUser(i) == <<uploads[i].user, CHOOSE any \in Images : TRUE>>
StorageKey(i) == <<uploads[i].user, i>>

PutObject(i) ==
    LET place == [provider |-> StorageOf(environment.storage), key |-> StorageKey(i)] IN
    /\ uploads[i].pc = "checked" /\ IsReachable(environment.storage)
    /\ objects' = [p \in DOMAIN objects \cup {place} |-> IF p = place THEN i ELSE objects[p]]
    /\ Advance(i, [uploads[i] EXCEPT !.pc = "stored", !.place = place])
    /\ UNCHANGED <<environment, rows, previews, contexts>>

\* analyze_image: without a VISION_MODEL nothing is read; with one, the model
\* that resolves may be another, and none fails the upload.
AnalyzeImage(i) ==
    /\ uploads[i].pc = "stored"
    /\ IF environment.pinned["vision"] = None THEN Advance(i, [uploads[i] EXCEPT !.pc = "analysed"])
       ELSE LET model == ResolveModel(environment, environment.pinned["vision"], "vision") IN
            /\ model # None
            /\ Advance(i, [uploads[i] EXCEPT !.pc = "analysed", !.model = model])
    /\ UNCHANGED <<environment, objects, rows, previews, contexts>>

CreateUploadedFile(i) ==
    /\ uploads[i].pc = "analysed"
    /\ rows' = rows \cup {[id |-> i, user_id |-> uploads[i].user, place |-> uploads[i].place,
                           model |-> uploads[i].model]}
    /\ End(i)
    /\ UNCHANGED <<environment, objects, previews, contexts>>

\* The storage, the model or the database fails; a stored object stays.
Fail(i) ==
    /\ uploads[i].pc \in {"checked", "stored", "analysed"}
    /\ End(i)
    /\ UNCHANGED <<environment, objects, rows, previews, contexts>>

\* A deployment: uploads under way are lost.
Restart(e) ==
    /\ environment' = e
    /\ uploads' = [i \in Images |-> IF uploads[i].pc \in {"new", "ended"} THEN uploads[i]
                                    ELSE [NewUpload EXCEPT !.pc = "ended"]]
    /\ UNCHANGED <<objects, rows, previews, contexts>>

FetchUploadedFileOfAnyone(user, i) == {r \in rows : r.id = i}
FetchUploadedFile(user, i) == {r \in rows : r.id = i /\ r.user_id = user}

StorageOfTheDay(row) == StorageOf(environment.storage)
StorageOfTheRow(row) == StorageOf(row.place.provider)

\* preview_image reads from the storage the row names; what fails there is 404.
PreviewImage(user, i) ==
    /\ \E r \in FetchUploadedFile(user, i) :
          LET place == [r.place EXCEPT !.provider = StorageOfTheRow(r)]
              found == IsReachable(place.provider) /\ place \in DOMAIN objects IN
          previews' = previews \cup
             {[user |-> user, image |-> i, reachable |-> IsReachable(r.place.provider),
               content |-> IF found THEN objects[place] ELSE None]}
    /\ UNCHANGED <<environment, uploads, objects, rows, contexts>>

\* get_image_contexts for a question with images: those of the asker.
GetImageContexts(user, images) ==
    /\ contexts' = contexts \cup {<<user, i>> : i \in {j \in images : FetchUploadedFile(user, j) # {}}}
    /\ UNCHANGED <<environment, uploads, objects, rows, previews>>

-----------------------------------------------------------------------------
UploadsInit ==
    /\ environment \in Environments
    /\ uploads = [i \in Images |-> NewUpload]
    /\ objects = <<>> /\ rows = {} /\ previews = {} /\ contexts = {}

UploadsNext ==
    \/ \E i \in Images, user \in Users : CheckImage(i, user) \/ PreviewImage(user, i)
    \/ \E i \in Images : PutObject(i) \/ AnalyzeImage(i) \/ CreateUploadedFile(i) \/ Fail(i)
    \/ \E user \in Users, images \in SUBSET Images : GetImageContexts(user, images)
    \/ \E e \in Environments : Restart(e)

UploadsSpec == UploadsInit /\ [][UploadsNext]_uploadsVars

-----------------------------------------------------------------------------
\* Type invariant: rows, objects, and uploads that keep nothing once they ended.
UploadsTypeOK ==
    /\ environment \in Environments
    /\ rows \subseteq Row /\ previews \subseteq Preview /\ contexts \subseteq Users \X Images
    /\ DOMAIN objects \subseteq Place /\ \A place \in DOMAIN objects : objects[place] \in Images
    /\ \A i \in Images : uploads[i].pc \in UploadSteps
          /\ (uploads[i].pc \in {"new", "ended"} => uploads[i] = [NewUpload EXCEPT !.pc = uploads[i].pc])

\* A row's object is there and is its image, whatever failed, was uploaded or
\* was deployed since: put_object comes first, under a key of its own.
RowsHaveObjects == \A r \in rows : r.place \in DOMAIN objects /\ objects[r.place] = r.id

\* "hides_other_users_files" (tests/integration/uploads/test_upload_store.py:54),
\* nor does a question see them; and a preview shows its image, also after another
\* storage was configured, as long as the one it lies in can be reached.
PreviewsAreRight ==
    /\ \A r \in rows : /\ \A p \in previews : r.id = p.image => r.user_id = p.user
                       /\ \A c \in contexts : r.id = c[2] => r.user_id = c[1]
    /\ \A p \in previews : p.content = IF p.reachable THEN p.image ELSE None

\* Only a model that sees reads an image, whichever models are configured or
\* stand in for VISION_MODEL.
ImagesAreSeen == \A i \in Images : uploads[i].model # None =>
    "vision" \in ProfileOf(environment, uploads[i].model).capabilities

\* "A user's UI choice applies to ordinary chat" (.env.example:31): every model
\* offered is the one that answers when it is chosen, in every configuration.
OptionsAreHonoured == \A id \in Options(environment) : ResolveModel(environment, id, "chat") = id
=============================================================================
