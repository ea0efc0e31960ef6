---------------------------- MODULE StoredFiles -----------------------------
(* The storage service (FilesService): uploads to Cloudinary and the rows  *)
(* that describe them.                                                     *)
(*                                                                         *)
(* Ingesting the audio of a URL fetches it, uploads it under an id made    *)
(* from the URL, overwriting what is there, and then stores a row; the id  *)
(* is unique among rows.  Recorded audio goes the same way under an id     *)
(* made from its beginning and the time.  A browser uploads by itself with *)
(* a signature and registers the row afterwards, but nothing ties the two  *)
(* together: POST /files stores a row for whatever file the body names.    *)
(* There is no transaction over upload and row, and nothing is deleted.    *)
EXTENDS Naturals

CONSTANTS
    Files,       \* public ids
    Sourced,     \* the ids made from a URL
    Requests,    \* requests in progress at a time
    MaxContent   \* bound: changes of what a source URL serves

VARIABLES
    source,      \* source[f]: the content now served under f's URL
    asset,       \* asset[f]: the content at Cloudinary, 0 if none
    row,         \* row[f]: the content the row describes, 0 if none
    req,         \* req[r]: where a request is, its file and what it has fetched
    reuploaded,  \* history: files uploaded again by another request
    claimed,     \* history: files whose row a client has described by itself
    broken       \* history: files some upload of which ended without its row

vars == <<source, asset, row, req, reuploaded, claimed, broken>>

Contents == 1..MaxContent

Idle == [pc |-> "idle"]

Init ==
    /\ source = [f \in Sourced |-> 1]
    /\ asset = [f \in Files |-> 0]
    /\ row = [f \in Files |-> 0]
    /\ req = [r \in Requests |-> Idle]
    /\ reuploaded = {}
    /\ claimed = {}
    /\ broken = {}

Respond(r) == req' = [req EXCEPT ![r] = Idle]

\* ingest-remote-audio for an URL, which may be ingested again later.
IngestRemoteAudio(r) ==
    /\ req[r] = Idle
    /\ \E f \in Sourced : req' = [req EXCEPT ![r] = [pc |-> "fetch", file |-> f]]
    /\ UNCHANGED <<source, asset, row, reuploaded, claimed, broken>>

\* 502 or 400: unreachable, an error, a type not allowed or too large.
FetchSource(r) ==
    /\ req[r].pc = "fetch"
    /\ \/ Respond(r)
       \/ req' = [req EXCEPT ![r] = [pc |-> "upload", file |-> @.file,
                                     content |-> source[req[r].file]]]
    /\ UNCHANGED <<source, asset, row, reuploaded, claimed, broken>>

\* An upload of the given content under f is to follow.
Uploads(r, f) ==
    /\ req[r] = Idle
    /\ \E c \in Contents :
         req' = [req EXCEPT ![r] = [pc |-> "upload", file |-> f, content |-> c]]
    /\ UNCHANGED <<source, asset, row, reuploaded, claimed, broken>>

\* ingest-base64, within the limit of size.  Two recordings that begin alike
\* in the same millisecond have the same id.
IngestRecording(r) == \E f \in Files \ Sourced : Uploads(r, f)

Taken(f) == \E q \in Requests : req[q] # Idle /\ req[q].file = f

Fresh(f) == asset[f] = 0 /\ row[f] = 0 /\ ~Taken(f)

\* upload-signature, within the limits of size and type: Cloudinary gives the
\* browser's upload an id of its own.
UploadSigned(r) == \E f \in Files \ Sourced : Fresh(f) /\ Uploads(r, f)

\* overwrite: true.
UploadBuffer(r) ==
    /\ req[r].pc = "upload"
    /\ LET f == req[r].file IN
         /\ asset' = [asset EXCEPT ![f] = req[r].content]
         /\ reuploaded' = IF asset[f] # 0 THEN reuploaded \cup {f} ELSE reuploaded
         /\ req' = [req EXCEPT ![r].pc = "row"]
    /\ UNCHANGED <<source, row, claimed, broken>>

\* The unique id refuses a second row: 409 whatever was uploaded.
RowOver(old, new) == IF old = 0 THEN new ELSE old

\* Variant: the row describes what the source serves by now.
Described_Source(r) ==
    IF req[r].file \in Sourced THEN source[req[r].file] ELSE req[r].content

\* The row describes what Cloudinary says it has taken.
Described(r) == req[r].content

CreateFile(r) ==
    /\ req[r].pc = "row"
    /\ row' = [row EXCEPT ![req[r].file] = RowOver(@, Described(r))]
    /\ Respond(r)
    /\ UNCHANGED <<source, asset, reuploaded, claimed, broken>>

\* POST /files: the body says what file it is and what it holds, and nobody
\* asks Cloudinary.
RegisterFile(f) ==
    /\ \E c \in Contents : row' = [row EXCEPT ![f] = RowOver(@, c)]
    /\ claimed' = IF row[f] = 0 THEN claimed \cup {f} ELSE claimed
    /\ UNCHANGED <<source, asset, req, reuploaded, broken>>

\* The upload or the INSERT fails, the browser registers nothing, or the
\* service restarts.
Fail(r) ==
    /\ req[r] # Idle
    /\ broken' = IF req[r].pc = "row" THEN broken \cup {req[r].file} ELSE broken
    /\ Respond(r)
    /\ UNCHANGED <<source, asset, row, reuploaded, claimed>>

SourceChanges(f) ==
    /\ source[f] < MaxContent
    /\ source' = [source EXCEPT ![f] = @ + 1]
    /\ UNCHANGED <<asset, row, req, reuploaded, claimed, broken>>

Next ==
    \/ \E f \in Sourced : SourceChanges(f)
    \/ \E f \in Files : RegisterFile(f)
    \/ \E r \in Requests :
         \/ IngestRemoteAudio(r) \/ FetchSource(r)
         \/ IngestRecording(r) \/ UploadSigned(r) \/ UploadBuffer(r) \/ CreateFile(r) \/ Fail(r)

Spec == Init /\ [][Next]_vars

-----------------------------------------------------------------------------
(* Properties.                                                             *)

\* The variables keep their types.
TypeOK ==
    /\ source \in [Sourced -> Contents]
    /\ asset \in [Files -> 0..MaxContent]
    /\ row \in [Files -> 0..MaxContent]
    /\ \A r \in Requests :
         req[r] # Idle => req[r].pc \in {"fetch", "upload", "row"} /\ req[r].file \in Files
    /\ reuploaded \subseteq Files /\ claimed \subseteq Files
    /\ broken \subseteq Files

AwaitsRow(f) == \E r \in Requests : req[r] # Idle /\ req[r].file = f /\ req[r].pc = "row"

\* A row names an upload, and describes it unless the file was uploaded
\* again, both apart from rows a client has described by itself; an upload
\* without a row is one whose request broke off or has its row still to write.
RowsDescribeUploads ==
    \A f \in Files :
        /\ (row[f] # 0 /\ f \notin claimed) => asset[f] # 0
        /\ (row[f] # 0 /\ f \notin claimed \cup reuploaded) => row[f] = asset[f]
        /\ (asset[f] # 0 /\ row[f] = 0) => f \in broken \/ AwaitsRow(f)
=============================================================================
