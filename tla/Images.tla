-------------------------------- MODULE Images --------------------------------
(***************************************************************************)
(* The upload of pictures: StreamUpdateHandler with StreamImage, and the   *)
(* route /profile/images with UserProfileImage (internal/api and           *)
(* internal/core).  Each request is a goroutine of net/http that writes a  *)
(* row, works out a path from the id of that row, and copies the picture   *)
(* to the file.  Nothing is locked, so requests of one user overlap.       *)
(*                                                                         *)
(* The id of a row is the sequence of its decimal digits, <<>> for the 0   *)
(* of a session without a row; a picture is a number of chunks, each       *)
(* marked with the request that wrote it.  Module Api puts the requests in *)
(* front of it.                                                            *)
(***************************************************************************)
EXTENDS Integers, Sequences, FiniteSetsExt

CONSTANTS Users,           \* ids of users
          SessionId(_),    \* the id that the row of a user has or will have
          Exts,            \* extensions of file names
          NoExt,           \* the file name of a row without a picture
          MaxUploads,      \* bound: requests of a behaviour
          MaxSize          \* bound: chunks of a picture

Kinds == {"stream", "profile"}
Uploads == 1 .. MaxUploads

ASSUME ImagesAssumption ==
    /\ \A u \in Users : SessionId(u) \in Seq(0 .. 9) \ {<<>>} /\ SessionId(u)[1] # 0
    /\ \A u, v \in Users : SessionId(u) = SessionId(v) => u = v
    /\ NoExt \notin Exts
    /\ MaxUploads \in Nat
    /\ MaxSize \in Nat

VARIABLES upload,      \* the requests that upload
          rows,        \* users who have a row in sessions
          filename,    \* sessions.image_filename of each user: its extension
          savedBy,     \* the request that wrote it last, 0 if none did
          files        \* [paths -> chunks]

imageVars == <<upload, rows, filename, savedBy, files>>

-----------------------------------------------------------------------------
(* Paths                                                                   *)

imgPartLen == 3

\* fmt.Sprintf("%09d", id)
Padded(id) ==
    IF Len(id) < 9 THEN [i \in 1 .. (9 - Len(id)) |-> 0] \o id ELSE id

TailDropped(idStr) ==                                            \* a mutant
    [k \in 1 .. (Len(idStr) \div imgPartLen) |->
       SubSeq(idStr, (k - 1) * imgPartLen + 1, k * imgPartLen)]

\* One round of the loop of idPartition, for the character at pos.
ScanStep(idStr, s, pos) ==
    LET acc == Append(s.acc, idStr[pos])
    IN  CASE s.broken -> s
          [] ~s.broken /\ pos % imgPartLen = 0 ->
               [s EXCEPT !.parts = Append(s.parts, acc), !.acc = <<>>,
                         !.tailLen = s.tailLen - imgPartLen]
          [] ~s.broken /\ pos % imgPartLen # 0 ->
               IF s.tailLen \in 1 .. (imgPartLen - 1)
               THEN [s EXCEPT !.parts = Append(s.parts, SubSeq(idStr, pos, Len(idStr))),
                              !.broken = TRUE]
               ELSE [s EXCEPT !.acc = acc]

\* The state of the loop after each number of characters.
Scan(idStr) ==
    LET scan[pos \in 0 .. Len(idStr)] ==
          IF pos = 0
          THEN [parts |-> <<>>, acc |-> <<>>, tailLen |-> Len(idStr), broken |-> FALSE]
          ELSE ScanStep(idStr, scan[pos - 1], pos)
    IN  scan

Partition(idStr) == Scan(idStr)[Len(idStr)].parts

\* What Save of userProfileImageDbStorage returns.
ProfileId == <<1, 0, 0, 5, 0, 0>>

\* idPartition of every id there is, which is worked out once.
IdPartition ==
    [id \in {SessionId(u) : u \in Users} \cup {ProfileId, <<>>} |-> Partition(Padded(id))]

PathOf(i) ==
    [kind |-> upload[i].kind, parts |-> IdPartition[upload[i].id], ext |-> upload[i].ext]

AnyId(id) == TRUE                                                \* a mutant

\* idPartition returns an error for an id that is not greater than zero.
IsPositive(id) == id # <<>>

-----------------------------------------------------------------------------

States == {"none",
           "found",     \* in UploadHandle, before Save
           "saved",     \* before OpenFile
           "copying",   \* in io.Copy
           "done", "failed"}

NoPath == [kind |-> "none"]

ImagesTypeOK ==
    /\ \A i \in Uploads :
         /\ upload[i].at \in States
         /\ upload[i].at # "none" => /\ upload[i].user \in Users
                                     /\ upload[i].kind \in Kinds
                                     /\ upload[i].ext \in Exts
                                     /\ upload[i].size \in 1 .. MaxSize
                                     /\ upload[i].written \in 0 .. upload[i].size
                                     /\ upload[i].id \in Seq(0 .. 9)
                                     /\ upload[i].path # NoPath =>
                                          upload[i].path \in DOMAIN files
    /\ rows \in SUBSET Users
    /\ filename \in [Users -> Exts \cup {NoExt}]
    /\ savedBy \in [Users -> 0 .. MaxUploads]
    /\ \A p \in DOMAIN files : files[p] \in Seq(Uploads) /\ Len(files[p]) =< MaxSize

ImagesInit ==
    /\ upload = [i \in Uploads |-> [at |-> "none"]]
    /\ rows = {}
    /\ filename = [u \in Users |-> NoExt]
    /\ savedBy = [u \in Users |-> 0]
    /\ files = [p \in {} |-> <<>>]

Request(i, kind, u, id, ext, size) ==
    /\ upload[i].at = "none"
    /\ upload' = [upload EXCEPT ![i] =
                    [at |-> "found", kind |-> kind, user |-> u, id |-> id, ext |-> ext,
                     size |-> size, written |-> 0, path |-> NoPath]]
    /\ UNCHANGED <<rows, filename, savedBy, files>>

\* FindByUserID returns an empty session, with id 0, when there is no row, so
\* the check for nil never answers 404.
StreamUpdateHandler(i, u, ext, size) ==
    Request(i, "stream", u, IF u \in rows THEN SessionId(u) ELSE <<>>, ext, size)

\* The image has no id until it is saved.
ProfileHandler(i, u, ext, size) == Request(i, "profile", u, <<>>, ext, size)

At(i, state) == upload[i].at = state

NoWhere(id) == rows                                              \* a mutant

\* WHERE id = $3: no row has the id 0.
RowsWith(id) == {u \in rows : SessionId(u) = id}

SaveStream(i) ==
    /\ At(i, "found") /\ upload[i].kind = "stream"
    /\ filename' = [u \in Users |-> IF u \in RowsWith(upload[i].id) THEN upload[i].ext
                                    ELSE filename[u]]
    /\ savedBy' = [u \in Users |-> IF u \in RowsWith(upload[i].id) THEN i
                                   ELSE savedBy[u]]
    /\ upload' = [upload EXCEPT ![i].at = "saved"]
    /\ UNCHANGED <<rows, files>>

\* Save of userProfileImageDbStorage writes nothing and returns an id.
SaveProfile(i) ==
    /\ At(i, "found") /\ upload[i].kind = "profile"
    /\ upload' = [upload EXCEPT ![i].at = "saved", ![i].id = ProfileId]
    /\ UNCHANGED <<rows, filename, savedBy, files>>

\* MkdirAll and OpenFile without O_TRUNC: an existing file keeps its chunks.
Create(path) ==
    IF path \in DOMAIN files THEN files
    ELSE [p \in DOMAIN files \cup {path} |-> IF p = path THEN <<>> ELSE files[p]]

Open(i) ==
    /\ At(i, "saved")
    /\ IsPositive(upload[i].id)
    /\ files' = Create(PathOf(i))
    /\ upload' = [upload EXCEPT ![i].at = "copying", ![i].path = PathOf(i)]
    /\ UNCHANGED <<rows, filename, savedBy>>

Appended(chunks, at, i) == Append(chunks, i)                     \* a mutant

Overwrite(chunks, at, i) == [k \in 1 .. Max({Len(chunks), at}) |->
                               IF k = at THEN i ELSE chunks[k]]

\* io.Copy writes at the offset of its own descriptor.
Copy(i) ==
    /\ At(i, "copying")
    /\ upload[i].written < upload[i].size
    /\ upload' = [upload EXCEPT ![i].written = @ + 1]
    /\ files' = [files EXCEPT ![upload[i].path] = Overwrite(@, upload[i].written + 1, i)]
    /\ UNCHANGED <<rows, filename, savedBy>>

UploadReturns(i) ==
    /\ At(i, "copying")
    /\ upload[i].written = upload[i].size
    /\ upload' = [upload EXCEPT ![i].at = "done"]
    /\ UNCHANGED <<rows, filename, savedBy, files>>

\* StatusUnprocessableEntity: an error of the form, the statement, the
\* directory, the file or the copy, or an id that is not greater than zero.
UploadFails(i) ==
    /\ upload[i].at \in {"found", "saved", "copying"}
    /\ upload' = [upload EXCEPT ![i].at = "failed"]
    /\ UNCHANGED <<rows, filename, savedBy, files>>

UploadStep(i) ==
    SaveStream(i) \/ SaveProfile(i) \/ Open(i) \/ Copy(i) \/ UploadReturns(i)
        \/ UploadFails(i)

\* SessionsRepository.Save, when the router handles a join: the row is new, or
\* only columns change that are not modelled here.  Nothing deletes a row.
JoinSaves(u) ==
    /\ rows' = rows \cup {u}
    /\ UNCHANGED <<upload, filename, savedBy, files>>

-----------------------------------------------------------------------------
(* Properties                                                              *)

Opened == {i \in Uploads : upload[i].at # "none" /\ upload[i].path # NoPath}

(* idPartition neither loses nor repeats a digit: the directories and the  *)
(* file name, put together, spell the padded id, in parts of three digits  *)
(* but for the last.                                                       *)
PathsSpellIds ==
    \A i \in Opened :
        LET parts == upload[i].path.parts
            from(k) == (k - 1) * imgPartLen
        IN  /\ \A k \in DOMAIN parts : Len(parts[k]) \in 1 .. imgPartLen
            /\ \A k \in DOMAIN parts : k < Len(parts) => Len(parts[k]) = imgPartLen
            /\ Len(Padded(upload[i].id)) = from(Len(parts)) + Len(parts[Len(parts)])
            /\ \A k \in DOMAIN parts : \A d \in DOMAIN parts[k] :
                 parts[k][d] = Padded(upload[i].id)[from(k) + d]

(* The cover of a stream is made of uploads of one user, who has a session *)
(* row: whatever requests overlap, nobody's picture gets under the path of *)
(* another user.                                                           *)
CoversBelongToOneUser ==
    \A p \in DOMAIN files : p.kind = "stream" =>
        \A k, l \in DOMAIN files[p] :
            /\ upload[files[p][k]].user = upload[files[p][l]].user
            /\ upload[files[p][k]].user \in rows

(* The file name in the row of a session leads to a file, although the row *)
(* is written first and several requests write both in any order, once the *)
(* request that wrote the row has come so far, unless it failed.           *)
RowsLeadToFiles ==
    \A u \in Users :
        savedBy[u] # 0 /\ upload[savedBy[u]].at \in {"copying", "done"} =>
            \E p \in DOMAIN files :
                /\ p.kind = "stream"
                /\ p.parts = IdPartition[SessionId(u)]
                /\ p.ext = filename[u]
=============================================================================
