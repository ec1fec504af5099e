----------------------------- MODULE Library_proofs -----------------------------
(***************************************************************************)
(* Proofs about Library for every set of handlers, every policy, every set of *)
(* tokens and every number of contents and requests.                         *)
(***************************************************************************)
EXTENDS Library, SequenceTheorems, TLAPS

-------------------------------------------------------------------------------
(* The inductive invariant.                                                 *)

\* A row request that has passed its gate: its bytes are for the token, or they
\* are the picture of the one person it is the avatar of.
Entitled(rows, r) ==
    /\ r.avatarOf = {} => Reaches(r.token, "contents:read:all", rows[r.content].owner)
    /\ r.avatarOf # {} => rows[r.content].owner \in r.avatarOf

\* What the phase a request is in says of its content; owners and types never
\* change, so it stays true while others work.
Judged(rows, r) ==
    /\ r.phase \in {"download", "judge", "preview", "judge_avatar"} => Entitled(rows, r)
    /\ r.phase \in {"download", "judge"} => r.avatarOf = {}
    /\ r.phase = "judge_avatar" => r.avatarOf # {}
    /\ r.phase = "preview" =>
        /\ rows[r.content].mime \in SafeInline
        /\ r.avatarOf # {} => rows[r.content].mime \in Raster
    /\ r.phase = "metadata" => rows[r.content].deleted \/ r.mime = rows[r.content].mime
    /\ (r.phase = "upsert" /\ r.content # None) => rows[r.content].owner = r.user

\* The bytes behind a signed URL are of the type that was judged.
Safe(rows, l) ==
    LET row == rows[l.content]
    IN  /\ Entitled(rows, l)
        /\ l.disposition = "inline" => row.mime \in SafeInline /\ row.object = row.mime
        /\ l.avatarOf # {} => row.mime \in Raster /\ row.object = row.mime

AllJudged == \A h \in Handlers : Judged(contents, req[h])

LinksSafe == \A l \in links : Safe(contents, l)

Avatars == \A u \in Users : profiles[u] # None => contents[profiles[u]].owner = u

IInv == TypeOK /\ AllJudged /\ LinksSafe /\ Avatars /\ PicturesAccounted

\* The invariant holds at the start.
LEMMA InitInv == Init => IInv
<1> SUFFICES ASSUME Init PROVE IInv
  OBVIOUS
<1> USE LibraryAssumption DEF Init
<1>1. TypeOK
  BY DEF TypeOK, Ids, Idle
<1>2. AllJudged /\ LinksSafe /\ Avatars
  BY DEF AllJudged, Judged, Idle, LinksSafe, Avatars
<1>3. PicturesAccounted
  BY DEF PicturesAccounted, Ids
<1> QED
  BY <1>1, <1>2, <1>3 DEF IInv

-------------------------------------------------------------------------------
(* Contents.                                                                *)

\* What no step changes of a row that is there.
Lasts(c) ==
    /\ c \in Ids'
    /\ contents'[c].owner = contents[c].owner
    /\ contents'[c].mime = contents[c].mime
    /\ contents'[c].picture = contents[c].picture
    /\ contents[c].deleted => contents'[c].deleted
    /\ contents[c].object # "absent" => contents'[c].object # "absent"

Growing ==
    /\ contents' \in Seq(Contents) /\ Len(contents') <= MaxContents
    /\ \A c \in Ids' : Sound(contents'[c])
    /\ \A c \in Ids : Lasts(c)

\* Nothing is changed.
LEMMA SameContents ==
    ASSUME TypeOK, contents' = contents
    PROVE  Growing
BY DEF Growing, Lasts, TypeOK, Ids

\* One row is replaced by one that keeps what lasts.
LEMMA OneChanged ==
    ASSUME TypeOK, NEW c \in Ids, NEW row \in Contents,
           contents' = [contents EXCEPT ![c] = row], Sound(row),
           row.owner = contents[c].owner, row.mime = contents[c].mime,
           row.picture = contents[c].picture,
           contents[c].deleted => row.deleted,
           contents[c].object # "absent" => row.object # "absent"
    PROVE  Growing
<1>1. contents \in Seq(Contents) /\ c \in 1..Len(contents)
  BY DEF TypeOK, Ids
<1>2. contents' \in Seq(Contents) /\ Len(contents') = Len(contents)
  BY <1>1
<1>3. \A d \in Ids : contents'[d] = IF d = c THEN row ELSE contents[d]
  BY <1>1 DEF Ids
<1> QED
  BY <1>2, <1>3 DEF Growing, Lasts, TypeOK, Ids

\* A row of the table.
LEMMA RowType ==
    ASSUME TypeOK, NEW c \in Ids
    PROVE  contents[c] \in Contents /\ Sound(contents[c])
BY ElementOfSeq DEF TypeOK, Ids

\* A content is made.
LEMMA Inserted ==
    ASSUME TypeOK, NEW h \in Handlers, NEW row \in Contents, Sound(row), NEW phase,
           Insert(h, row, phase)
    PROVE  /\ Growing
           /\ Len(contents) \in Nat /\ Len(contents) + 1 \in Ids'
           /\ Ids' = Ids \cup {Len(contents) + 1}
           /\ contents'[Len(contents) + 1] = row
<1>1. contents \in Seq(Contents) /\ contents' = Append(contents, row) /\ Len(contents) < MaxContents
      /\ MaxContents \in Nat
  BY LibraryAssumption DEF TypeOK, Insert
<1>2. contents' \in Seq(Contents) /\ Len(contents') = Len(contents) + 1 /\ Len(contents) \in Nat
  BY <1>1
<1>3. contents'[Len(contents) + 1] = row /\ \A c \in Ids : contents'[c] = contents[c]
  BY <1>1 DEF Ids
<1>4. Ids' = Ids \cup {Len(contents) + 1}
  BY <1>2 DEF Ids
<1>5. \A c \in Ids : Sound(contents[c])
  BY DEF TypeOK
<1>6. Growing
  <2>1. \A c \in Ids' : Sound(contents'[c])
    BY <1>3, <1>4, <1>5
  <2>2. \A c \in Ids : Lasts(c)
    BY <1>3, <1>4 DEF Lasts
  <2>3. Len(contents') <= MaxContents
    BY <1>1, <1>2
  <2> QED
    BY <1>2, <2>1, <2>2, <2>3 DEF Growing
<1> QED
  BY <1>2, <1>3, <1>4, <1>6

\* A live row is changed, a deleted one is not.
LEMMA Changed ==
    ASSUME TypeOK, NEW h \in Handlers, NEW c \in Ids, NEW row \in Contents, Sound(row),
           contents' = (IF Alive(c) THEN [contents EXCEPT ![c] = row] ELSE contents),
           row.owner = contents[c].owner, row.mime = contents[c].mime,
           row.picture = contents[c].picture, row.object = contents[c].object
    PROVE  Growing
<1>1. CASE Alive(c)
  BY <1>1, OneChanged DEF Alive
<1>2. CASE ~Alive(c)
  BY <1>2, SameContents
<1> QED
  BY <1>1, <1>2

\* The kinds of requests, by phase.
LEMMA RequestKinds ==
    ASSUME NEW r \in Requests
    PROVE  /\ r.phase # "idle"
           /\ r.phase \in {"create", "upload", "prepare"} =>
                r = [phase |-> r.phase, token |-> r.token, mime |-> r.mime] /\ r.token \in Tokens /\ r.mime \in Mimes
           /\ r.phase \in {"update", "delete", "confirm", "read_mime", "download", "judge",
                           "judge_avatar", "preview"} =>
                /\ r = [phase |-> r.phase, token |-> r.token, content |-> r.content, avatarOf |-> r.avatarOf]
                /\ r.token \in Tokens /\ r.content \in Ids /\ r.avatarOf \in SUBSET Users
           /\ r.phase = "metadata" => r.content \in Ids /\ r.mime \in Mimes
           /\ r.phase \in {"picture", "names", "probe", "upsert", "cleanup"} =>
                r.user \in Users /\ r.content \in Ids \cup {None} /\ r.op \in {"put", "avatar"}
           /\ r.phase \in {"picture", "names", "cleanup"} => r.op = "avatar"
           /\ (r.phase \in {"picture", "names", "probe", "upsert", "cleanup"} /\ r.op = "put") =>
                r = [phase |-> r.phase, op |-> r.op, user |-> r.user, content |-> r.content]
           /\ (r.phase \in {"picture", "names", "probe", "upsert", "cleanup"} /\ r.op = "avatar") =>
                /\ r = [phase |-> r.phase, op |-> r.op, user |-> r.user, content |-> r.content, mime |-> r.mime]
                /\ r.mime \in Raster
                /\ IF r.phase = "picture" THEN r.content = None ELSE r.content \in Ids
           /\ "op" \in DOMAIN r => r.phase \in {"picture", "names", "probe", "upsert", "cleanup"}
BY DEF Requests

\* Contents only grow.
LEMMA ContentsStep ==
    ASSUME TypeOK, AllJudged, [Next]_vars
    PROVE  Growing
<1>r. \A h \in Handlers : req[h] \in Requests \cup {Idle} /\ Judged(contents, req[h])
  BY DEF TypeOK, AllJudged
<1>1. ASSUME NEW h \in Handlers, Create(h) \/ Upload(h) \/ Prepare(h) PROVE Growing
  <2>1. req[h] \in Requests /\ req[h].phase \in {"create", "upload", "prepare"}
    <3>1. req[h].phase \in {"create", "upload", "prepare"}
      BY <1>1 DEF Create, Upload, Prepare, At
    <3> QED
      BY <3>1, <1>r DEF Idle
  <2>2. req[h].token.user \in Users /\ req[h].mime \in Mimes
    BY <2>1, RequestKinds DEF Users
  <2>3. CASE Create(h)
    <3>1. Content(req[h].token.user, "none", FALSE, {}, "absent", FALSE) \in Contents
          /\ Sound(Content(req[h].token.user, "none", FALSE, {}, "absent", FALSE))
      BY <2>2 DEF Content, Contents, Sound, Mimes
    <3> QED
      BY <2>3, <3>1, Inserted DEF Create
  <2>4. CASE Upload(h)
    <3>1. Content(req[h].token.user, req[h].mime, TRUE, {}, req[h].mime, FALSE) \in Contents
          /\ Sound(Content(req[h].token.user, req[h].mime, TRUE, {}, req[h].mime, FALSE))
      BY <2>2 DEF Content, Contents, Sound, Mimes, SafeInline, Raster
    <3> QED
      BY <2>4, <3>1, Inserted DEF Upload
  <2>5. CASE Prepare(h)
    <3>1. Content(req[h].token.user, req[h].mime, FALSE, Signed(req[h].mime), "absent", FALSE) \in Contents
          /\ Sound(Content(req[h].token.user, req[h].mime, FALSE, Signed(req[h].mime), "absent", FALSE))
      BY <2>2 DEF Content, Contents, Sound, Signed, Mimes, SafeInline, Raster
    <3> QED
      BY <2>5, <3>1, Inserted DEF Prepare
  <2> QED
    BY <1>1, <2>3, <2>4, <2>5
<1>2. ASSUME NEW h \in Handlers, UploadPicture(h) PROVE Growing
  <2>1. req[h] \in Requests /\ req[h].phase = "picture"
    BY <1>2, <1>r DEF UploadPicture, At, Idle
  <2>2. req[h].user \in Users /\ req[h].mime \in Raster
    BY <2>1, RequestKinds
  <2>3. Content(req[h].user, req[h].mime, TRUE, {}, req[h].mime, TRUE) \in Contents
        /\ Sound(Content(req[h].user, req[h].mime, TRUE, {}, req[h].mime, TRUE))
    BY <2>2 DEF Content, Contents, Sound, Mimes, SafeInline, Raster
  <2> QED
    BY <1>2, <2>3, Inserted DEF UploadPicture
<1>3. ASSUME NEW c \in Ids, PutBytes(c) \/ PutExpires(c) PROVE Growing
  <2>1. contents[c] \in Contents /\ Sound(contents[c])
    BY RowType
  <2>2. CASE PutBytes(c)
    <3>1. PICK mime \in contents[c].put : contents' = [contents EXCEPT ![c].object = mime]
      BY <2>2 DEF PutBytes
    <3> DEFINE row == [contents[c] EXCEPT !.object = mime]
    <3>2. contents' = [contents EXCEPT ![c] = row]
      BY <3>1
    <3>3. row \in Contents /\ Sound(row) /\ row.object # "absent"
          /\ row.owner = contents[c].owner /\ row.mime = contents[c].mime
          /\ row.picture = contents[c].picture /\ row.deleted = contents[c].deleted
      BY <2>1 DEF Contents, Sound, Mimes, SafeInline, Raster
    <3> HIDE DEF row
    <3> QED
      BY <3>2, <3>3, OneChanged
  <2>3. CASE PutExpires(c)
    <3> DEFINE row == [contents[c] EXCEPT !.put = {}]
    <3>2. contents' = [contents EXCEPT ![c] = row]
      BY <2>3 DEF PutExpires
    <3>3. row \in Contents /\ Sound(row) /\ row.object = contents[c].object
          /\ row.owner = contents[c].owner /\ row.mime = contents[c].mime
          /\ row.picture = contents[c].picture /\ row.deleted = contents[c].deleted
      BY <2>1 DEF Contents, Sound
    <3> HIDE DEF row
    <3> QED
      BY <3>2, <3>3, OneChanged
  <2> QED
    BY <1>3, <2>2, <2>3
<1>4. ASSUME NEW h \in Handlers, Delete(h) \/ Confirm(h) PROVE Growing
  <2> DEFINE c == req[h].content
  <2>1. req[h] \in Requests /\ req[h].phase \in {"delete", "confirm"}
    <3>1. req[h].phase \in {"delete", "confirm"}
      BY <1>4 DEF Delete, Confirm, At
    <3> QED
      BY <3>1, <1>r DEF Idle
  <2>2. c \in Ids /\ contents[c] \in Contents /\ Sound(contents[c])
    BY <2>1, RequestKinds, RowType
  <2>3. CASE Delete(h)
    <3> DEFINE row == [contents[c] EXCEPT !.deleted = TRUE]
    <3>1. contents' = IF Alive(c) THEN [contents EXCEPT ![c] = row] ELSE contents
      BY <2>3 DEF Delete, Change
    <3>2. row \in Contents /\ Sound(row) /\ row.object = contents[c].object
          /\ row.owner = contents[c].owner /\ row.mime = contents[c].mime
          /\ row.picture = contents[c].picture
      BY <2>2 DEF Contents, Sound
    <3> HIDE DEF row
    <3> QED
      BY <3>1, <3>2, <2>2, Changed
  <2>4. CASE Confirm(h)
    <3> DEFINE row == [contents[c] EXCEPT !.ready = contents[c].ready \/ contents[c].object # "absent"]
    <3>1. contents' = IF Alive(c) THEN [contents EXCEPT ![c] = row] ELSE contents
      BY <2>4 DEF Confirm, Change
    <3>2. row \in Contents /\ Sound(row) /\ row.object = contents[c].object
          /\ row.owner = contents[c].owner /\ row.mime = contents[c].mime
          /\ row.picture = contents[c].picture
      BY <2>2 DEF Contents, Sound
    <3> HIDE DEF row
    <3> QED
      BY <3>1, <3>2, <2>2, Changed
  <2> QED
    BY <1>4, <2>3, <2>4
<1>5. ASSUME NEW h \in Handlers, WriteMetadata(h) PROVE Growing
  <2> DEFINE c == req[h].content
             row == [contents[c] EXCEPT !.mime = req[h].mime]
  <2>1. req[h] \in Requests /\ req[h].phase = "metadata" /\ Judged(contents, req[h])
    BY <1>5, <1>r DEF WriteMetadata, At, Idle
  <2>2. c \in Ids /\ contents[c] \in Contents /\ Sound(contents[c])
    BY <2>1, RequestKinds, RowType
  <2>3. contents' = IF Alive(c) THEN [contents EXCEPT ![c] = row] ELSE contents
    BY <1>5 DEF WriteMetadata, Change
  <2>4. Alive(c) => row = contents[c]
    BY <2>1, <2>2 DEF Judged, Contents, Alive
  <2>5. contents' = contents
    BY <2>2, <2>3, <2>4 DEF TypeOK, Ids
  <2> QED
    BY <2>5, SameContents
<1>6. ASSUME NEW h \in Handlers, Cleanup(h) PROVE Growing
  <2> DEFINE c == req[h].content
             row == [contents[c] EXCEPT !.deleted = TRUE]
  <2>1. contents' = IF Alive(c) THEN [contents EXCEPT ![c] = row] ELSE contents
    BY <1>6 DEF Cleanup, Change
  <2>2. req[h] \in Requests /\ req[h].phase = "cleanup"
    BY <1>6, <1>r DEF Cleanup, At, Idle
  <2>3. c \in Ids \cup {None}
    BY <2>2, RequestKinds
  <2>4. CASE c = None
    <3>1. contents' = contents
      BY <2>1, <2>4 DEF TypeOK, None
    <3> QED
      BY <3>1, SameContents
  <2>5. CASE c \in Ids
    <3>1. contents[c] \in Contents /\ Sound(contents[c])
      BY <2>5, RowType
    <3>2. row \in Contents /\ Sound(row) /\ row.object = contents[c].object
          /\ row.owner = contents[c].owner /\ row.mime = contents[c].mime
          /\ row.picture = contents[c].picture
      BY <3>1 DEF Contents, Sound
    <3> HIDE DEF row
    <3> QED
      BY <2>1, <2>5, <3>2, Changed
  <2> QED
    BY <2>3, <2>4, <2>5
<1>7. ASSUME ~\E h \in Handlers : \/ Create(h) \/ Upload(h) \/ Prepare(h) \/ UploadPicture(h)
                                  \/ Delete(h) \/ Confirm(h) \/ WriteMetadata(h) \/ Cleanup(h),
             ~\E c \in Ids : PutBytes(c) \/ PutExpires(c)
      PROVE  contents' = contents
  BY <1>7 DEF Next, Route, Handle, vars, store, CreateContent, UploadContent, PrepareUpload, Making,
     UpdateContent, DeleteContent, ConfirmUpload, SetContentMetadata, DownloadContent, PreviewContent,
     Guarded, GetUserAvatar, PutProfile, SetUserProfile, SetUserAvatar, Bind, Serve,
     Update, ReadMime, Download, Preview, Sign, Judge, JudgeAvatar, MimeUnread, ReadNames, Probe,
     BindFails, Upsert, UpsertUnanswered, Bound, CleanupFails, Abort, GetExpires
<1> QED
  BY <1>1, <1>2, <1>3, <1>4, <1>5, <1>6, <1>7, SameContents

-------------------------------------------------------------------------------
(* Requests.                                                                *)

\* What is known of a request stays known while contents grow.
LEMMA Lasting ==
    ASSUME TypeOK, Growing
    PROVE  /\ Ids \subseteq Ids'
           /\ Requests \subseteq Requests'
           /\ \A r \in Requests \cup {Idle} : Judged(contents, r) => Judged(contents', r)
<1>1. Ids \subseteq Ids'
  BY DEF Growing, Lasts
<1>2. Requests \subseteq Requests'
  BY <1>1 DEF Requests
<1>3. ASSUME NEW r \in Requests, Judged(contents, r) PROVE Judged(contents', r)
  <2>1. ASSUME r.content \in Ids
        PROVE  /\ contents'[r.content].owner = contents[r.content].owner
               /\ contents'[r.content].mime = contents[r.content].mime
               /\ contents[r.content].deleted => contents'[r.content].deleted
    BY <2>1 DEF Growing, Lasts
  <2>2. r.phase \in {"download", "judge", "preview", "judge_avatar", "metadata"} => r.content \in Ids
    BY RequestKinds
  <2>3. r.phase = "upsert" => r.content \in Ids \cup {None}
    BY RequestKinds
  <2> QED
    BY <1>3, <2>1, <2>2, <2>3 DEF Judged, Entitled
<1>4. Judged(contents', Idle)
  BY DEF Judged, Idle
<1> QED
  BY <1>1, <1>2, <1>3, <1>4

RequestsStay == req' \in [Handlers -> Requests' \cup {Idle}] /\ AllJudged'

\* A handler goes on, the others wait.
LEMMA Continues ==
    ASSUME TypeOK, AllJudged, Growing, NEW h \in Handlers, NEW r,
           req' = [req EXCEPT ![h] = r], r \in Requests' \cup {Idle}, Judged(contents', r)
    PROVE  RequestsStay
<1>1. \A g \in Handlers : req[g] \in Requests \cup {Idle} /\ Judged(contents, req[g])
  BY DEF TypeOK, AllJudged
<1>2. \A g \in Handlers : req[g] \in Requests' \cup {Idle} /\ Judged(contents', req[g])
  BY <1>1, Lasting
<1>3. req' = [req EXCEPT ![h] = r] /\ req \in [Handlers -> Requests \cup {Idle}]
  BY DEF TypeOK
<1>4. \A g \in Handlers : req'[g] = IF g = h THEN r ELSE req[g]
  BY <1>3
<1>5. req' \in [Handlers -> Requests' \cup {Idle}]
  BY <1>2, <1>3
<1> QED
  BY <1>2, <1>4, <1>5 DEF RequestsStay, AllJudged

\* All wait.
LEMMA AllWait ==
    ASSUME TypeOK, AllJudged, Growing, req' = req
    PROVE  RequestsStay
<1>1. \A g \in Handlers : req[g] \in Requests \cup {Idle} /\ Judged(contents, req[g])
  BY DEF TypeOK, AllJudged
<1>2. \A g \in Handlers : req[g] \in Requests' \cup {Idle} /\ Judged(contents', req[g])
  BY <1>1, Lasting
<1>3. req' \in [Handlers -> Requests' \cup {Idle}]
  BY <1>2 DEF TypeOK
<1> QED
  BY <1>2, <1>3 DEF RequestsStay, AllJudged

\* A handler is done.
LEMMA Finished ==
    ASSUME TypeOK, AllJudged, Growing, NEW h \in Handlers, Finish(h)
    PROVE  RequestsStay
BY Continues DEF Finish, Judged, Idle

\* A row request goes on to another phase.
LEMMA RowGoes ==
    ASSUME TypeOK, AllJudged, Growing, NEW h \in Handlers,
           NEW ph \in {"download", "preview"}, Goto(h, ph),
           At(h, "judge") \/ At(h, "judge_avatar"),
           ph = "download" => At(h, "judge"),
           ph = "preview" => /\ contents[req[h].content].mime \in SafeInline
                             /\ At(h, "judge_avatar") => contents[req[h].content].mime \in Raster
    PROVE  RequestsStay
<1> DEFINE r == [req[h] EXCEPT !.phase = ph]
<1>1. req[h] \in Requests /\ Judged(contents, req[h]) /\ req[h].phase \in {"judge", "judge_avatar"}
  BY DEF TypeOK, AllJudged, At, Idle
<1>2. /\ req[h] = [phase |-> req[h].phase, token |-> req[h].token, content |-> req[h].content,
                   avatarOf |-> req[h].avatarOf]
      /\ req[h].token \in Tokens /\ req[h].content \in Ids /\ req[h].avatarOf \in SUBSET Users
  BY <1>1, RequestKinds
<1>3. r = [phase |-> ph, token |-> req[h].token, content |-> req[h].content, avatarOf |-> req[h].avatarOf]
  BY <1>2
<1>4. r \in Requests
  BY <1>2, <1>3 DEF Requests
<1>5. Judged(contents, r)
  BY <1>1, <1>3 DEF Judged, Entitled, At
<1>6. Judged(contents', r) /\ r \in Requests'
  BY <1>4, <1>5, Lasting
<1>7. req' = [req EXCEPT ![h] = r]
  BY DEF Goto
<1> HIDE DEF r
<1> QED
  BY <1>6, <1>7, Continues

\* A binding goes on to another phase.
LEMMA BindingGoes ==
    ASSUME TypeOK, AllJudged, Growing, NEW h \in Handlers,
           NEW ph \in {"probe", "upsert", "cleanup"}, Goto(h, ph),
           req[h].phase \in {"names", "probe", "upsert"},
           (ph = "upsert" /\ req[h].content # None) => contents[req[h].content].owner = req[h].user,
           req[h].op = "put" => ph # "cleanup"
    PROVE  RequestsStay
<1> DEFINE r == [req[h] EXCEPT !.phase = ph]
<1>1. req[h] \in Requests
  BY DEF TypeOK, Idle
<1>2. /\ req[h].user \in Users /\ req[h].content \in Ids \cup {None} /\ req[h].op \in {"put", "avatar"}
      /\ req[h].op = "put" => req[h] = [phase |-> req[h].phase, op |-> req[h].op, user |-> req[h].user,
                                       content |-> req[h].content]
      /\ req[h].op = "avatar" => /\ req[h] = [phase |-> req[h].phase, op |-> req[h].op,
                                    user |-> req[h].user, content |-> req[h].content, mime |-> req[h].mime]
                                 /\ req[h].mime \in Raster /\ req[h].content \in Ids
  BY <1>1, RequestKinds
<1>3. r \in Requests /\ r.phase = ph /\ r.content = req[h].content /\ r.user = req[h].user
  <2>1. CASE req[h].op = "put"
    <3>1. r = [phase |-> ph, op |-> "put", user |-> req[h].user, content |-> req[h].content]
      BY <1>2, <2>1
    <3> QED
      BY <3>1, <1>2, <2>1 DEF Requests
  <2>2. CASE req[h].op = "avatar"
    <3>1. r = [phase |-> ph, op |-> "avatar", user |-> req[h].user, content |-> req[h].content,
               mime |-> req[h].mime]
      BY <1>2, <2>2
    <3> QED
      BY <3>1, <1>2, <2>2 DEF Requests
  <2> QED
    BY <1>2, <2>1, <2>2
<1>4. Judged(contents, r)
  BY <1>3 DEF Judged
<1>5. Judged(contents', r) /\ r \in Requests'
  BY <1>3, <1>4, Lasting
<1>6. req' = [req EXCEPT ![h] = r]
  BY DEF Goto
<1> HIDE DEF r
<1> QED
  BY <1>5, <1>6, Continues

\* A route accepts a request and changes nothing else.
LEMMA RouteKeeps ==
    ASSUME TypeOK, NEW h \in Handlers, Route(h)
    PROVE  /\ At(h, "idle")
           /\ \A g \in Handlers \ {h} : req'[g] = req[g]
           /\ UNCHANGED <<contents, links, profiles, bound, loose>>
           /\ accepted' = accepted + 1 /\ accepted < MaxAccepted
<1>1. ASSUME NEW request, Serve(h, request)
      PROVE  /\ At(h, "idle")
             /\ \A g \in Handlers \ {h} : req'[g] = req[g]
             /\ UNCHANGED <<contents, links, profiles, bound, loose>>
             /\ accepted' = accepted + 1 /\ accepted < MaxAccepted
  BY <1>1 DEF Serve, store, TypeOK
<1>2. ASSUME NEW t, NEW ph, NEW mime, Making(h, t, ph, mime) PROVE \E request : Serve(h, request)
  BY <1>2 DEF Making
<1>3. ASSUME NEW t, NEW perm, NEW all, NEW c, NEW ph, Guarded(h, t, perm, all, c, ph)
      PROVE  \E request : Serve(h, request)
  BY <1>3 DEF Guarded
<1>4. ASSUME NEW u, NEW c, Bind(h, u, c) PROVE \E request : Serve(h, request)
  BY <1>4 DEF Bind
<1>5. ASSUME NEW t, NEW u, GetUserAvatar(h, t, u) PROVE \E request : Serve(h, request)
  BY <1>5 DEF GetUserAvatar
<1>6. ASSUME NEW t, NEW u, NEW mime, SetUserAvatar(h, t, u, mime) PROVE \E request : Serve(h, request)
  BY <1>6 DEF SetUserAvatar
<1> HIDE DEF Serve
<1>7. \E request : Serve(h, request)
  BY <1>2, <1>3, <1>4, <1>5, <1>6 DEF Route, CreateContent, UploadContent, PrepareUpload, UpdateContent,
     DeleteContent, ConfirmUpload, SetContentMetadata, DownloadContent, PreviewContent, PutProfile,
     SetUserProfile
<1> QED
  BY <1>1, <1>7

\* Who signs URLs and who binds avatars.
LEMMA HandleKeeps ==
    ASSUME NEW h \in Handlers, Handle(h)
    PROVE  /\ links' = links \/ Download(h) \/ Preview(h)
           /\ (profiles' = profiles /\ bound' = bound) \/ Upsert(h) \/ UpsertUnanswered(h)
           /\ accepted' = accepted
<1>1. ASSUME Create(h) \/ Upload(h) \/ Prepare(h) \/ UploadPicture(h)
      PROVE  links' = links /\ profiles' = profiles /\ bound' = bound /\ accepted' = accepted
  <2> PICK row, ph : Insert(h, row, ph)
    BY <1>1 DEF Create, Upload, Prepare, UploadPicture
  <2> QED
    BY DEF Insert
<1>2. ASSUME Delete(h) \/ Confirm(h) \/ WriteMetadata(h) \/ Cleanup(h)
      PROVE  links' = links /\ profiles' = profiles /\ bound' = bound /\ accepted' = accepted
  <2> PICK c, field, value : Change(h, c, field, value)
    BY <1>2 DEF Delete, Confirm, WriteMetadata, Cleanup
  <2> QED
    BY DEF Change
<1>3. ASSUME Update(h) \/ ReadMime(h) \/ Judge(h) \/ JudgeAvatar(h) \/ MimeUnread(h)
      PROVE  links' = links /\ profiles' = profiles /\ bound' = bound /\ accepted' = accepted
  BY <1>3 DEF Update, ReadMime, Judge, JudgeAvatar, MimeUnread, store
<1>4. ASSUME ReadNames(h) \/ Probe(h) \/ BindFails(h) \/ CleanupFails(h) \/ Abort(h)
      PROVE  links' = links /\ profiles' = profiles /\ bound' = bound /\ accepted' = accepted
  BY <1>4 DEF ReadNames, Probe, BindFails, CleanupFails, Abort, store
<1>5. ASSUME Download(h) \/ Preview(h) PROVE profiles' = profiles /\ bound' = bound /\ accepted' = accepted
  BY <1>5 DEF Download, Preview, Sign
<1>6. ASSUME Upsert(h) \/ UpsertUnanswered(h) PROVE links' = links /\ accepted' = accepted
  BY <1>6 DEF Upsert, UpsertUnanswered, Bound, store
<1> QED
  BY <1>1, <1>2, <1>3, <1>4, <1>5, <1>6 DEF Handle

\* A route accepts a request.
LEMMA RouteStep ==
    ASSUME TypeOK, AllJudged, Avatars, Growing, NEW h \in Handlers, Route(h)
    PROVE  RequestsStay
<1>0. PICK t \in Tokens :
        \/ CreateContent(h, t)
        \/ \E mime \in Mimes : UploadContent(h, t, mime) \/ PrepareUpload(h, t, mime)
        \/ \E c \in Ids :
            \/ UpdateContent(h, t, c) \/ DeleteContent(h, t, c) \/ ConfirmUpload(h, t, c)
            \/ SetContentMetadata(h, t, c)
            \/ DownloadContent(h, t, c) \/ PreviewContent(h, t, c)
        \/ \E u \in Users :
            \/ GetUserAvatar(h, t, u)
            \/ \E c \in Ids \cup {None} : PutProfile(h, t, u, c) \/ SetUserProfile(h, t, u, c)
            \/ \E mime \in Mimes : SetUserAvatar(h, t, u, mime)
  BY DEF Route
<1>1. ASSUME NEW ph \in {"create", "upload", "prepare"}, NEW mime \in Mimes, Making(h, t, ph, mime)
      PROVE  RequestsStay
  <2> DEFINE r == [phase |-> ph, token |-> t, mime |-> mime]
  <2>1. req' = [req EXCEPT ![h] = r]
    BY <1>1 DEF Making, Serve
  <2>2. r \in Requests /\ Judged(contents, r)
    BY DEF Requests, Judged
  <2>3. r \in Requests' /\ Judged(contents', r)
    BY <2>2, Lasting
  <2> HIDE DEF r
  <2> QED
    BY <2>1, <2>3, Continues
<1>2. ASSUME NEW ph \in {"update", "delete", "confirm", "read_mime", "download", "judge"},
             NEW c \in Ids, NEW perm, NEW all, Guarded(h, t, perm, all, c, ph),
             ph \in {"download", "judge"} => all = "contents:read:all"
      PROVE  RequestsStay
  <2> DEFINE r == [phase |-> ph, token |-> t, content |-> c, avatarOf |-> {}]
  <2>1. req' = [req EXCEPT ![h] = r] /\ Reaches(t, all, contents[c].owner)
    BY <1>2 DEF Guarded, Serve, FetchOwned
  <2>2. r \in Requests
    BY DEF Requests
  <2>3. Judged(contents, r)
    BY <2>1, <1>2 DEF Judged, Entitled
  <2>4. r \in Requests' /\ Judged(contents', r)
    BY <2>2, <2>3, Lasting
  <2> HIDE DEF r
  <2> QED
    BY <2>1, <2>4, Continues
<1>3. ASSUME NEW u \in Users, GetUserAvatar(h, t, u) PROVE RequestsStay
  <2> DEFINE r == [phase |-> "judge_avatar", token |-> t, content |-> profiles[u], avatarOf |-> {u}]
  <2>1. req' = [req EXCEPT ![h] = r] /\ profiles[u] # None
    BY <1>3 DEF GetUserAvatar, Serve
  <2>2. profiles[u] \in Ids /\ contents[profiles[u]].owner = u
    BY <2>1 DEF TypeOK, Avatars
  <2>3. r \in Requests
    BY <2>2 DEF Requests
  <2>4. Judged(contents, r)
    BY <2>2 DEF Judged, Entitled
  <2>5. r \in Requests' /\ Judged(contents', r)
    BY <2>3, <2>4, Lasting
  <2> HIDE DEF r
  <2> QED
    BY <2>1, <2>5, Continues
<1>4. ASSUME NEW u \in Users, NEW c \in Ids \cup {None}, Bind(h, u, c) PROVE RequestsStay
  <2> DEFINE r == [phase |-> IF c = None THEN "upsert" ELSE "probe",
                   op |-> "put", user |-> u, content |-> c]
  <2>1. req' = [req EXCEPT ![h] = r]
    BY <1>4 DEF Bind, Serve
  <2>2. r \in Requests /\ Judged(contents, r)
    BY DEF Requests, Judged
  <2>3. r \in Requests' /\ Judged(contents', r)
    BY <2>2, Lasting
  <2> HIDE DEF r
  <2> QED
    BY <2>1, <2>3, Continues
<1>5. ASSUME NEW u \in Users, NEW mime \in Mimes, SetUserAvatar(h, t, u, mime) PROVE RequestsStay
  <2> DEFINE r == [phase |-> "picture", op |-> "avatar", user |-> u, content |-> None, mime |-> mime]
  <2>1. req' = [req EXCEPT ![h] = r] /\ mime \in Raster
    BY <1>5 DEF SetUserAvatar, Serve
  <2>2. r \in Requests /\ Judged(contents, r)
    BY <2>1 DEF Requests, Judged
  <2>3. r \in Requests' /\ Judged(contents', r)
    BY <2>2, Lasting
  <2> HIDE DEF r
  <2> QED
    BY <2>1, <2>3, Continues
<1>6. CASE CreateContent(h, t)
  BY <1>1, <1>6 DEF CreateContent, Mimes
<1>7. ASSUME NEW mime \in Mimes, UploadContent(h, t, mime) \/ PrepareUpload(h, t, mime) PROVE RequestsStay
  BY <1>1, <1>7 DEF UploadContent, PrepareUpload
<1>8. ASSUME NEW c \in Ids, UpdateContent(h, t, c) PROVE RequestsStay
  BY <1>2, <1>8 DEF UpdateContent
<1>9. ASSUME NEW c \in Ids, DeleteContent(h, t, c) PROVE RequestsStay
  BY <1>2, <1>9 DEF DeleteContent
<1>10. ASSUME NEW c \in Ids, ConfirmUpload(h, t, c) PROVE RequestsStay
  BY <1>2, <1>10 DEF ConfirmUpload
<1>11. ASSUME NEW c \in Ids, SetContentMetadata(h, t, c) PROVE RequestsStay
  BY <1>2, <1>11 DEF SetContentMetadata
<1>12. ASSUME NEW c \in Ids, DownloadContent(h, t, c) PROVE RequestsStay
  BY <1>2, <1>12 DEF DownloadContent
<1>13. ASSUME NEW c \in Ids, PreviewContent(h, t, c) PROVE RequestsStay
  BY <1>2, <1>13 DEF PreviewContent
<1>14. ASSUME NEW u \in Users, NEW c \in Ids \cup {None}, PutProfile(h, t, u, c) \/ SetUserProfile(h, t, u, c)
       PROVE  RequestsStay
  BY <1>4, <1>14 DEF PutProfile, SetUserProfile
<1> QED
  BY <1>0, <1>3, <1>5, <1>6, <1>7, <1>8, <1>9, <1>10, <1>11, <1>12, <1>13, <1>14

\* Requests keep their kinds and what is known of them.
LEMMA RequestsStep ==
    ASSUME TypeOK, AllJudged, Avatars, [Next]_vars
    PROVE  RequestsStay
<1>g. Growing
  BY ContentsStep
<1>r. \A h \in Handlers : req[h] \in Requests \cup {Idle} /\ Judged(contents, req[h])
  BY DEF TypeOK, AllJudged
<1>1. ASSUME NEW h \in Handlers, Route(h) PROVE RequestsStay
  BY <1>1, <1>g, RouteStep
<1>2. ASSUME NEW h \in Handlers,
             \/ Create(h) \/ Upload(h) \/ Prepare(h)
             \/ Update(h) \/ Delete(h) \/ Confirm(h) \/ WriteMetadata(h) \/ Download(h) \/ Preview(h)
             \/ Upsert(h) \/ Cleanup(h) \/ CleanupFails(h) \/ Abort(h)
      PROVE  RequestsStay
  <2>1. Finish(h)
    BY <1>2 DEF Create, Upload, Prepare, Insert, Update, Delete, Confirm, WriteMetadata, Change, Download,
       Preview, Sign, Upsert, Cleanup, CleanupFails, Abort, Finish
  <2> QED
    BY <2>1, <1>g, Finished
<1>3. ASSUME NEW h \in Handlers, ReadMime(h) PROVE RequestsStay
  <2> DEFINE c == req[h].content
             r == [phase |-> "metadata", content |-> c, mime |-> MimeOf(c)]
  <2>1. req' = [req EXCEPT ![h] = r] /\ req[h].phase = "read_mime"
    BY <1>3 DEF ReadMime, At, TypeOK
  <2>2. c \in Ids
    BY <2>1, <1>r, RequestKinds DEF Idle
  <2>3. contents[c] \in Contents
    BY <2>2, RowType
  <2>4. r \in Requests
    BY <2>2, <2>3 DEF Requests, MimeOf, Contents, Mimes
  <2>5. Judged(contents, r)
    BY DEF Judged, MimeOf, Alive
  <2>6. r \in Requests' /\ Judged(contents', r)
    BY <2>4, <2>5, <1>g, Lasting
  <2> HIDE DEF r
  <2> QED
    BY <2>1, <2>6, <1>g, Continues
<1>4. ASSUME NEW h \in Handlers, Judge(h) PROVE RequestsStay
  <2>1. CASE MimeOf(req[h].content) \in SafeInline
    <3>1. Goto(h, "preview") /\ contents[req[h].content].mime \in SafeInline /\ At(h, "judge")
          /\ ~At(h, "judge_avatar")
      BY <1>4, <2>1 DEF Judge, MimeOf, SafeInline, Raster, At
    <3> QED
      BY <3>1, <1>g, RowGoes
  <2>2. CASE MimeOf(req[h].content) \notin SafeInline
    BY <1>4, <2>2, <1>g, RowGoes DEF Judge
  <2> QED
    BY <2>1, <2>2
<1>5. ASSUME NEW h \in Handlers, JudgeAvatar(h) PROVE RequestsStay
  <2>1. CASE MimeOf(req[h].content) \in Raster
    <3>1. Goto(h, "preview") /\ contents[req[h].content].mime \in Raster /\ At(h, "judge_avatar")
      BY <1>5, <2>1 DEF JudgeAvatar, MimeOf, Raster
    <3>2. contents[req[h].content].mime \in SafeInline
      BY <3>1 DEF SafeInline
    <3> QED
      BY <3>1, <3>2, <1>g, RowGoes
  <2>2. CASE MimeOf(req[h].content) \notin Raster
    BY <1>5, <2>2, <1>g, Finished DEF JudgeAvatar
  <2> QED
    BY <2>1, <2>2
<1>6. ASSUME NEW h \in Handlers, MimeUnread(h) PROVE RequestsStay
  BY <1>6, <1>g, RowGoes, Finished DEF MimeUnread
<1>7. ASSUME NEW h \in Handlers, UploadPicture(h) PROVE RequestsStay
  <2> DEFINE c == Len(contents) + 1
             r == [req[h] EXCEPT !.phase = "names", !.content = c]
  <2>1. req[h] \in Requests /\ req[h].phase = "picture"
    BY <1>7, <1>r DEF UploadPicture, At, Idle
  <2>2. /\ req[h].user \in Users /\ req[h].op = "avatar" /\ req[h].mime \in Raster
        /\ req[h] = [phase |-> req[h].phase, op |-> req[h].op, user |-> req[h].user,
                     content |-> req[h].content, mime |-> req[h].mime]
    BY <2>1, RequestKinds
  <2>3. req' = [req EXCEPT ![h] = r]
    BY <1>7 DEF UploadPicture, Insert
  <2>4. c \in Ids'
    <3>1. Content(req[h].user, req[h].mime, TRUE, {}, req[h].mime, TRUE) \in Contents
          /\ Sound(Content(req[h].user, req[h].mime, TRUE, {}, req[h].mime, TRUE))
      BY <2>2 DEF Content, Contents, Sound, Mimes, SafeInline, Raster
    <3> QED
      BY <1>7, <3>1, Inserted DEF UploadPicture
  <2>5. r = [phase |-> "names", op |-> "avatar", user |-> req[h].user, content |-> c, mime |-> req[h].mime]
    <3> DEFINE q == [req[h] EXCEPT !.phase = "names"]
    <3>1. q = [phase |-> "names", op |-> "avatar", user |-> req[h].user, content |-> req[h].content,
               mime |-> req[h].mime]
      BY <2>2
    <3>2. r = [q EXCEPT !.content = c]
      OBVIOUS
    <3> HIDE DEF q, r
    <3> QED
      BY <3>1, <3>2
  <2>6. r \in Requests'
    BY <2>2, <2>4, <2>5 DEF Requests
  <2>7. Judged(contents', r)
    BY <2>5 DEF Judged
  <2> HIDE DEF r
  <2> QED
    BY <2>3, <2>6, <2>7, <1>g, Continues
<1>8. ASSUME NEW h \in Handlers, Fail(h), req[h].phase \in {"names", "probe", "upsert"} PROVE RequestsStay
  BY <1>8, <1>g, BindingGoes, Finished DEF Fail
<1>9. ASSUME NEW h \in Handlers, ReadNames(h) \/ Probe(h) \/ BindFails(h) \/ UpsertUnanswered(h)
      PROVE  RequestsStay
  <2>1. CASE ReadNames(h)
    BY <2>1, <1>g, BindingGoes DEF ReadNames, At
  <2>2. CASE Probe(h)
    <3>1. CASE Fit(req[h].user, req[h].content)
      BY <2>2, <3>1, <1>g, BindingGoes DEF Probe, Fit, At
    <3> QED
      BY <2>2, <3>1, <1>8 DEF Probe, At
  <2>3. CASE BindFails(h)
    BY <2>3, <1>8 DEF BindFails
  <2>4. CASE UpsertUnanswered(h)
    BY <2>4, <1>8 DEF UpsertUnanswered, Bound, At
  <2> QED
    BY <1>9, <2>1, <2>2, <2>3, <2>4
<1>10. ASSUME ~\E h \in Handlers : Route(h) \/ Handle(h) PROVE req' = req
  BY <1>10 DEF Next, PutBytes, PutExpires, GetExpires, vars
<1> QED
  BY <1>1, <1>2, <1>3, <1>4, <1>5, <1>6, <1>7, <1>9, <1>10, <1>g, AllWait DEF Handle

-------------------------------------------------------------------------------
(* Signed URLs, avatars and pictures.                                       *)

\* Only downloads and previews sign URLs.
LEMMA LinksStep ==
    ASSUME TypeOK, AllJudged, LinksSafe, [Next]_vars
    PROVE  links' \in SUBSET [content : Ids', token : Tokens, disposition : {"inline", "attachment"},
                              avatarOf : SUBSET Users] /\ LinksSafe'
<1> DEFINE L == [content : Ids', token : Tokens, disposition : {"inline", "attachment"},
                 avatarOf : SUBSET Users]
<1>g. Growing /\ Ids \subseteq Ids'
  BY ContentsStep, Lasting
<1>1. \A l \in links : l \in L /\ l.content \in Ids
  BY <1>g DEF TypeOK, Links
<1>2. ASSUME NEW l \in links PROVE Safe(contents', l)
  <2>1. Safe(contents, l) /\ l.content \in Ids
    BY <1>1 DEF LinksSafe
  <2>2. contents[l.content] \in Contents
    BY <2>1, RowType
  <2>3. /\ contents'[l.content].owner = contents[l.content].owner
        /\ contents'[l.content].mime = contents[l.content].mime
        /\ contents[l.content].object # "absent" => contents'[l.content].object # "absent"
        /\ Sound(contents'[l.content])
    BY <2>1, <1>g DEF Growing, Lasts
  <2>4. ASSUME contents[l.content].mime \in SafeInline,
               contents[l.content].object = contents[l.content].mime
        PROVE  contents'[l.content].object = contents'[l.content].mime
    BY <2>3, <2>4 DEF Sound, SafeInline, Raster
  <2> QED
    BY <2>1, <2>3, <2>4 DEF Safe, Entitled, SafeInline
<1>3. ASSUME NEW h \in Handlers, Download(h) \/ Preview(h) PROVE links' \in SUBSET L /\ LinksSafe'
  <2> DEFINE r == req[h]
             c == r.content
             d == IF Download(h) THEN "attachment" ELSE "inline"
             l == [content |-> c, token |-> r.token, disposition |-> d, avatarOf |-> r.avatarOf]
  <2>1. r \in Requests /\ Judged(contents, r) /\ r.phase = IF Download(h) THEN "download" ELSE "preview"
    <3>1. r.phase = (IF Download(h) THEN "download" ELSE "preview")
      BY <1>3 DEF Download, Preview, At
    <3> QED
      BY <3>1 DEF TypeOK, AllJudged, Idle
  <2>2. c \in Ids /\ r.token \in Tokens /\ r.avatarOf \in SUBSET Users
    BY <2>1, RequestKinds
  <2>3. l \in L
    BY <2>2, <1>g
  <2>4. \/ links' = links
        \/ links' = links \cup {l} /\ Alive(c) /\ contents[c].ready
    BY <1>3 DEF Download, Preview, Sign
  <2>5. contents' = contents
    BY <1>3 DEF Download, Preview, Sign
  <2>6. contents[c] \in Contents /\ Sound(contents[c])
    BY <2>2, RowType
  <2>7. contents[c].ready => Safe(contents, l)
    <3>1. SUFFICES ASSUME contents[c].ready PROVE Safe(contents, l)
      OBVIOUS
    <3>2. Entitled(contents, l)
      BY <2>1 DEF Judged, Entitled
    <3>3. contents[c].mime \in SafeInline => contents[c].object = contents[c].mime
      BY <2>6, <3>1 DEF Sound, Contents, SafeInline, Raster
    <3>4. CASE Download(h)
      BY <3>2, <3>4, <2>1 DEF Safe, Judged
    <3>5. CASE ~Download(h)
      BY <3>2, <3>3, <3>5, <2>1 DEF Safe, Judged
    <3> QED
      BY <3>4, <3>5
  <2> HIDE DEF l
  <2>8. \A x \in links' : Safe(contents', x)
    BY <2>4, <2>5, <2>7, <1>2
  <2> QED
    BY <2>3, <2>4, <2>8, <1>1 DEF LinksSafe
<1>4. ASSUME ~\E h \in Handlers : Download(h) \/ Preview(h) PROVE links' \subseteq links
  BY <1>4, RouteKeeps, HandleKeeps DEF Next, vars, store, PutBytes, PutExpires, GetExpires
<1> QED
  BY <1>1, <1>2, <1>3, <1>4 DEF LinksSafe

\* A profile is bound to its user's own content.
LEMMA AvatarsStep ==
    ASSUME TypeOK, AllJudged, Avatars, [Next]_vars
    PROVE  profiles' \in [Users -> Ids' \cup {None}] /\ Avatars'
<1>g. Growing /\ Ids \subseteq Ids'
  BY ContentsStep, Lasting
<1>t. profiles \in [Users -> Ids \cup {None}]
  BY DEF TypeOK
<1>o. \A c \in Ids : contents'[c].owner = contents[c].owner
  BY <1>g DEF Growing, Lasts
<1>1. ASSUME NEW h \in Handlers, Upsert(h) \/ UpsertUnanswered(h)
      PROVE  profiles' \in [Users -> Ids' \cup {None}] /\ Avatars'
  <2>1. req[h] \in Requests /\ Judged(contents, req[h]) /\ req[h].phase = "upsert"
    BY <1>1 DEF Upsert, UpsertUnanswered, Bound, At, TypeOK, AllJudged, Idle
  <2>2. profiles' = [profiles EXCEPT ![req[h].user] = req[h].content]
    BY <1>1 DEF Upsert, UpsertUnanswered, Bound
  <2>3. req[h].user \in Users /\ req[h].content \in Ids \cup {None}
    BY <2>1, RequestKinds
  <2>4. req[h].content # None => contents[req[h].content].owner = req[h].user
    BY <2>1 DEF Judged
  <2>5. profiles' \in [Users -> Ids' \cup {None}]
    BY <2>2, <2>3, <1>t, <1>g
  <2>6. ASSUME NEW u \in Users, profiles'[u] # None PROVE contents'[profiles'[u]].owner = u
    <3>1. CASE u = req[h].user
      BY <3>1, <2>2, <2>3, <2>4, <2>6, <1>t, <1>o
    <3>2. CASE u # req[h].user
      BY <3>2, <2>2, <2>6, <1>t, <1>o DEF Avatars
    <3> QED
      BY <3>1, <3>2
  <2> QED
    BY <2>5, <2>6 DEF Avatars
<1>2. ASSUME profiles' = profiles PROVE profiles' \in [Users -> Ids' \cup {None}] /\ Avatars'
  BY <1>2, <1>t, <1>g, <1>o DEF Avatars
<1>3. ASSUME ~\E h \in Handlers : Upsert(h) \/ UpsertUnanswered(h) PROVE profiles' = profiles
  BY <1>3, RouteKeeps, HandleKeeps DEF Next, vars, PutBytes, PutExpires, GetExpires
<1> QED
  BY <1>1, <1>2, <1>3

\* A handler moves only itself.
LEMMA OthersWait ==
    ASSUME TypeOK, NEW h \in Handlers, Handle(h)
    PROVE  \A g \in Handlers \ {h} : req'[g] = req[g]
<1>t. req \in [Handlers -> Requests \cup {Idle}]
  BY DEF TypeOK
<1>1. ASSUME Finish(h) PROVE \A g \in Handlers \ {h} : req'[g] = req[g]
  BY <1>1, <1>t DEF Finish
<1>2. ASSUME NEW ph, Goto(h, ph) PROVE \A g \in Handlers \ {h} : req'[g] = req[g]
  BY <1>2, <1>t DEF Goto
<1>3. ASSUME NEW row, NEW ph, Insert(h, row, ph) PROVE \A g \in Handlers \ {h} : req'[g] = req[g]
  BY <1>3, <1>t DEF Insert
<1>4. ASSUME ReadMime(h) PROVE \A g \in Handlers \ {h} : req'[g] = req[g]
  BY <1>4, <1>t DEF ReadMime
<1> HIDE DEF Finish, Goto, Insert
<1>5. ASSUME Create(h) \/ Upload(h) \/ Prepare(h) \/ UploadPicture(h)
      PROVE  \A g \in Handlers \ {h} : req'[g] = req[g]
  BY <1>3, <1>5 DEF Create, Upload, Prepare, UploadPicture
<1>6. ASSUME \/ Update(h) \/ Delete(h) \/ Confirm(h) \/ WriteMetadata(h) \/ Download(h) \/ Preview(h)
             \/ Upsert(h) \/ Cleanup(h) \/ CleanupFails(h) \/ Abort(h)
      PROVE  \A g \in Handlers \ {h} : req'[g] = req[g]
  BY <1>1, <1>6 DEF Update, Delete, Confirm, WriteMetadata, Change, Download, Preview, Sign, Upsert,
     Cleanup, CleanupFails, Abort
<1>7. ASSUME Judge(h) \/ JudgeAvatar(h) \/ MimeUnread(h)
      PROVE  \A g \in Handlers \ {h} : req'[g] = req[g]
  BY <1>1, <1>2, <1>7 DEF Judge, JudgeAvatar, MimeUnread
<1>8. ASSUME ReadNames(h) \/ Probe(h) \/ BindFails(h) \/ UpsertUnanswered(h)
      PROVE  \A g \in Handlers \ {h} : req'[g] = req[g]
  BY <1>1, <1>2, <1>8 DEF ReadNames, Probe, BindFails, UpsertUnanswered, Fail
<1> QED
  BY <1>4, <1>5, <1>6, <1>7, <1>8 DEF Handle

Carries(h, c) ==
    /\ ~At(h, "idle") /\ "op" \in DOMAIN req[h]
    /\ req[h].op = "avatar" /\ req[h].content = c

\* Who gives up a picture.
LEMMA HandleLooses ==
    ASSUME NEW h \in Handlers, Handle(h)
    PROVE  loose' = loose \/ CleanupFails(h) \/ Abort(h)
<1>1. ASSUME NEW row, NEW ph, Insert(h, row, ph) PROVE loose' = loose
  BY <1>1 DEF Insert
<1>2. CASE Create(h) \/ Upload(h) \/ Prepare(h) \/ UploadPicture(h)
  BY <1>1, <1>2 DEF Create, Upload, Prepare, UploadPicture
<1>3. CASE Update(h) \/ Delete(h) \/ Confirm(h) \/ WriteMetadata(h) \/ Cleanup(h) \/ ReadMime(h)
  BY <1>3 DEF Update, Delete, Confirm, WriteMetadata, Cleanup, ReadMime
<1>4. CASE Download(h) \/ Preview(h) \/ Judge(h) \/ JudgeAvatar(h) \/ MimeUnread(h)
  BY <1>4 DEF Download, Preview, Sign, Judge, JudgeAvatar, MimeUnread
<1>5. CASE ReadNames(h) \/ Probe(h) \/ BindFails(h) \/ Upsert(h) \/ UpsertUnanswered(h)
  BY <1>5 DEF ReadNames, Probe, BindFails, Upsert, UpsertUnanswered, Bound
<1> QED
  BY <1>2, <1>3, <1>4, <1>5 DEF Handle

\* What was bound or given up stays so.
LEMMA HistoryGrows ==
    ASSUME TypeOK, [Next]_vars
    PROVE  bound \subseteq bound' /\ loose \subseteq loose'
<1>1. ASSUME NEW h \in Handlers, Handle(h) PROVE bound \subseteq bound'
  BY <1>1, HandleKeeps DEF Upsert, UpsertUnanswered, Bound
<1>2. ASSUME NEW h \in Handlers, Handle(h) PROVE loose \subseteq loose'
  BY <1>2, HandleLooses DEF CleanupFails, Abort, Loosen
<1> QED
  BY <1>1, <1>2, RouteKeeps DEF Next, PutBytes, PutExpires, GetExpires, vars

\* A handler lets go of a picture only when it is accounted for.
LEMMA Carrying ==
    ASSUME TypeOK, Growing, NEW h \in Handlers, Handle(h), NEW c \in Ids, Carries(h, c)
    PROVE  \/ Carries(h, c)'
           \/ c \in bound' \cup loose'
           \/ contents'[c].deleted
<1> DEFINE Goal == \/ Carries(h, c)'
                   \/ c \in bound' \cup loose'
                   \/ contents'[c].deleted
<1>1. /\ req[h] \in Requests /\ req[h].op = "avatar" /\ req[h].content = c /\ c # None
      /\ "op" \in DOMAIN req[h]
  BY DEF Carries, At, TypeOK, Idle, Ids, None
<1>2. /\ req[h].phase \in {"names", "probe", "upsert", "cleanup"}
      /\ req[h] = [phase |-> req[h].phase, op |-> req[h].op, user |-> req[h].user,
                   content |-> req[h].content, mime |-> req[h].mime]
  BY <1>1, RequestKinds
<1>3. ASSUME NEW ph \in {"probe", "upsert", "cleanup"}, Goto(h, ph) PROVE Carries(h, c)'
  <2>1. req'[h] = [req[h] EXCEPT !.phase = ph]
    BY <1>3 DEF Goto, TypeOK
  <2>2. req'[h] = [phase |-> ph, op |-> "avatar", user |-> req[h].user, content |-> c,
                   mime |-> req[h].mime]
    BY <2>1, <1>1, <1>2
  <2>3. "op" \in DOMAIN req'[h] /\ req'[h].op = "avatar" /\ req'[h].content = c /\ req'[h].phase # "idle"
    BY <2>2
  <2> QED
    BY <2>3 DEF Carries, At
<1>4. CASE ReadNames(h) \/ Probe(h) \/ BindFails(h)
  BY <1>1, <1>3, <1>4 DEF ReadNames, Probe, BindFails, Fail
<1>5. CASE Upsert(h) \/ UpsertUnanswered(h)
  BY <1>1, <1>5 DEF Upsert, UpsertUnanswered, Bound
<1>6. CASE CleanupFails(h) \/ Abort(h)
  BY <1>1, <1>6 DEF CleanupFails, Abort, Loosen
<1>7. CASE Cleanup(h)
  <2>1. contents' = IF Alive(c) THEN [contents EXCEPT ![c].deleted = TRUE] ELSE contents
    BY <1>1, <1>7 DEF Cleanup, Change
  <2>2. contents[c] \in Contents
    BY RowType
  <2> QED
    BY <2>1, <2>2 DEF Alive, TypeOK, Ids, Contents
<1>8. /\ ~Create(h) /\ ~Upload(h) /\ ~Prepare(h) /\ ~UploadPicture(h)
      /\ ~Update(h) /\ ~Delete(h) /\ ~Confirm(h) /\ ~ReadMime(h) /\ ~WriteMetadata(h)
  BY <1>2 DEF Create, Upload, Prepare, UploadPicture, Update, Delete, Confirm, ReadMime, WriteMetadata, At
<1>9. /\ ~Download(h) /\ ~Judge(h) /\ ~JudgeAvatar(h) /\ ~MimeUnread(h) /\ ~Preview(h)
  BY <1>2 DEF Download, Judge, JudgeAvatar, MimeUnread, Preview, At
<1> QED
  BY <1>4, <1>5, <1>6, <1>7, <1>8, <1>9 DEF Handle

\* A new picture is in the hands of the handler that uploaded it.
LEMMA NewPicture ==
    ASSUME TypeOK, AllJudged, [Next]_vars, NEW c \in Ids', c \notin Ids, contents'[c].picture
    PROVE  \E h \in Handlers : Carries(h, c)'
<1>r. \A h \in Handlers : req[h] \in Requests \cup {Idle}
  BY DEF TypeOK
<1>1. Len(contents') # Len(contents)
  BY DEF Ids
<1>2. ASSUME NEW h \in Handlers, NEW row \in Contents, Sound(row), NEW ph, Insert(h, row, ph)
      PROVE  c = Len(contents) + 1 /\ row.picture
  <2>1. Ids' = Ids \cup {Len(contents) + 1} /\ contents'[Len(contents) + 1] = row
    BY <1>2, Inserted
  <2> QED
    BY <2>1
<1>3. ASSUME NEW h \in Handlers PROVE ~(Create(h) \/ Upload(h) \/ Prepare(h))
  <2> SUFFICES ASSUME Create(h) \/ Upload(h) \/ Prepare(h) PROVE FALSE
    OBVIOUS
  <2>1. req[h] \in Requests /\ req[h].phase \in {"create", "upload", "prepare"}
    <3>1. req[h].phase \in {"create", "upload", "prepare"}
      BY DEF Create, Upload, Prepare, At
    <3> QED
      BY <3>1, <1>r DEF Idle
  <2>2. req[h].token.user \in Users /\ req[h].mime \in Mimes
    BY <2>1, RequestKinds DEF Users
  <2>3. \A mime \in Mimes, ready \in BOOLEAN, put \in SUBSET Mimes, object \in Mimes \cup {"absent"} :
            /\ Content(req[h].token.user, mime, ready, put, object, FALSE) \in Contents
            /\ ~Content(req[h].token.user, mime, ready, put, object, FALSE).picture
    BY <2>2 DEF Content, Contents
  <2>4. CASE Create(h)
    <3> DEFINE row == Content(req[h].token.user, "none", FALSE, {}, "absent", FALSE)
    <3>1. row \in Contents /\ Sound(row) /\ ~row.picture
      BY <2>3 DEF Sound, Mimes, Content
    <3>2. Insert(h, row, "idle")
      BY <2>4 DEF Create
    <3> HIDE DEF row
    <3> QED
      BY <3>1, <3>2, <1>2
  <2>5. CASE Upload(h)
    <3> DEFINE row == Content(req[h].token.user, req[h].mime, TRUE, {}, req[h].mime, FALSE)
    <3>1. row \in Contents /\ Sound(row) /\ ~row.picture
      BY <2>2, <2>3 DEF Sound, Mimes, SafeInline, Raster, Content
    <3>2. Insert(h, row, "idle")
      BY <2>5 DEF Upload
    <3> HIDE DEF row
    <3> QED
      BY <3>1, <3>2, <1>2
  <2>6. CASE Prepare(h)
    <3> DEFINE row == Content(req[h].token.user, req[h].mime, FALSE, Signed(req[h].mime), "absent", FALSE)
    <3>1. row \in Contents /\ Sound(row) /\ ~row.picture
      BY <2>2 DEF Sound, Mimes, SafeInline, Raster, Content, Contents, Signed
    <3>2. Insert(h, row, "idle")
      BY <2>6 DEF Prepare
    <3> HIDE DEF row
    <3> QED
      BY <3>1, <3>2, <1>2
  <2> QED
    BY <2>4, <2>5, <2>6
<1>4. ASSUME NEW h \in Handlers, UploadPicture(h) PROVE Carries(h, c)'
  <2>1. req[h] \in Requests /\ req[h].phase = "picture"
    BY <1>4, <1>r DEF UploadPicture, At, Idle
  <2>2. /\ req[h].user \in Users /\ req[h].mime \in Raster
        /\ req[h] = [phase |-> req[h].phase, op |-> "avatar", user |-> req[h].user,
                     content |-> req[h].content, mime |-> req[h].mime]
    BY <2>1, RequestKinds
  <2> DEFINE row == Content(req[h].user, req[h].mime, TRUE, {}, req[h].mime, TRUE)
             q == [req[h] EXCEPT !.phase = "names"]
  <2>3. row \in Contents /\ Sound(row)
    BY <2>2 DEF Content, Contents, Sound, Mimes, SafeInline, Raster
  <2>4. Insert(h, row, "names")
    BY <1>4 DEF UploadPicture
  <2>5. c = Len(contents) + 1
    <3> HIDE DEF row
    <3> QED
      BY <2>3, <2>4, <1>2
  <2>6. q = [phase |-> "names", op |-> "avatar", user |-> req[h].user, content |-> req[h].content,
             mime |-> req[h].mime]
    BY <2>2
  <2>7. req'[h] = [q EXCEPT !.content = c]
    BY <1>4, <2>5 DEF UploadPicture, Insert, TypeOK
  <2> HIDE DEF q
  <2>8. req'[h] = [phase |-> "names", op |-> "avatar", user |-> req[h].user, content |-> c,
                   mime |-> req[h].mime]
    BY <2>6, <2>7
  <2>9. "op" \in DOMAIN req'[h] /\ req'[h].op = "avatar" /\ req'[h].content = c /\ req'[h].phase # "idle"
    BY <2>8
  <2> QED
    BY <2>9 DEF Carries, At
<1>5. ASSUME ~\E h \in Handlers : UploadPicture(h) PROVE Len(contents') = Len(contents)
  <2>t. contents \in Seq(Contents)
    BY DEF TypeOK
  <2>1. ASSUME NEW d, NEW field, NEW value, NEW h, Change(h, d, field, value)
        PROVE  Len(contents') = Len(contents)
    BY <2>1, <2>t DEF Change
  <2>2. ASSUME NEW h \in Handlers, Handle(h) PROVE Len(contents') = Len(contents)
    <3>1. CASE Delete(h) \/ Confirm(h) \/ WriteMetadata(h) \/ Cleanup(h)
      BY <2>1, <3>1 DEF Delete, Confirm, WriteMetadata, Cleanup
    <3>2. CASE Update(h) \/ ReadMime(h) \/ Judge(h) \/ JudgeAvatar(h) \/ MimeUnread(h)
      BY <3>2 DEF Update, ReadMime, Judge, JudgeAvatar, MimeUnread, store
    <3>3. CASE ReadNames(h) \/ Probe(h) \/ BindFails(h) \/ CleanupFails(h) \/ Abort(h)
      BY <3>3 DEF ReadNames, Probe, BindFails, CleanupFails, Abort, store
    <3>4. CASE Download(h) \/ Preview(h) \/ Upsert(h) \/ UpsertUnanswered(h)
      BY <3>4 DEF Download, Preview, Sign, Upsert, UpsertUnanswered, Bound, store
    <3> QED
      BY <2>2, <3>1, <3>2, <3>3, <3>4, <1>3, <1>5 DEF Handle
  <2>3. ASSUME NEW d \in Ids, PutBytes(d) \/ PutExpires(d) PROVE Len(contents') = Len(contents)
    BY <2>3, <2>t DEF PutBytes, PutExpires
  <2>4. ASSUME NEW l \in links, GetExpires(l) PROVE Len(contents') = Len(contents)
    BY <2>4 DEF GetExpires
  <2> QED
    BY <2>2, <2>3, <2>4, RouteKeeps DEF Next, vars, store
<1> QED
  BY <1>1, <1>4, <1>5

\* Every picture is accounted for after the step.
LEMMA PicturesStep ==
    ASSUME TypeOK, AllJudged, PicturesAccounted, [Next]_vars
    PROVE  PicturesAccounted'
<1>g. Growing /\ bound \subseteq bound' /\ loose \subseteq loose'
  BY ContentsStep, HistoryGrows
<1> SUFFICES ASSUME NEW c \in Ids', contents'[c].picture
             PROVE  \/ c \in bound' \cup loose'
                    \/ contents'[c].deleted
                    \/ \E h \in Handlers : Carries(h, c)'
  BY DEF PicturesAccounted, Carries, Alive
<1>1. CASE c \notin Ids
  BY <1>1, NewPicture
<1>2. CASE c \in Ids
  <2>1. contents[c].picture /\ (contents[c].deleted => contents'[c].deleted)
    BY <1>2, <1>g DEF Growing, Lasts
  <2>2. c \in bound \cup loose \/ contents[c].deleted \/ \E g \in Handlers : Carries(g, c)
    BY <2>1, <1>2 DEF PicturesAccounted, Carries, Alive
  <2>3. ASSUME NEW g \in Handlers, Carries(g, c), req'[g] = req[g] PROVE Carries(g, c)'
    BY <2>3 DEF Carries, At
  <2>4. ASSUME NEW g \in Handlers, Carries(g, c), ~Handle(g) PROVE req'[g] = req[g]
    <3>1. \A h \in Handlers : Handle(h) => req'[g] = req[g]
      BY <2>4, OthersWait
    <3>2. \A h \in Handlers : Route(h) => req'[g] = req[g]
      BY <2>4, RouteKeeps DEF Carries
    <3> QED
      BY <3>1, <3>2 DEF Next, PutBytes, PutExpires, GetExpires, vars
  <2>5. ASSUME NEW g \in Handlers, Carries(g, c), Handle(g)
        PROVE  Carries(g, c)' \/ c \in bound' \cup loose' \/ contents'[c].deleted
    BY <2>5, <1>2, <1>g, Carrying
  <2> QED
    BY <2>1, <2>2, <2>3, <2>4, <2>5, <1>g
<1> QED
  BY <1>1, <1>2

-------------------------------------------------------------------------------
(* The theorems.                                                            *)

\* The rest of the types.
LEMMA HistoryTypes ==
    ASSUME TypeOK, [Next]_vars
    PROVE  /\ accepted' \in 0..MaxAccepted
           /\ bound' \subseteq bound \cup Ids
           /\ loose' \subseteq loose \cup Ids
<1>r. \A h \in Handlers : req[h] \in Requests \cup {Idle}
  BY DEF TypeOK
<1>a. accepted \in 0..MaxAccepted /\ MaxAccepted \in Nat
  BY LibraryAssumption DEF TypeOK
<1>1. ASSUME NEW h \in Handlers, Route(h)
      PROVE  accepted' \in 0..MaxAccepted /\ bound' = bound /\ loose' = loose
  BY <1>1, <1>a, RouteKeeps
<1>2. ASSUME NEW h \in Handlers, Handle(h) PROVE bound' \subseteq bound \cup Ids
  <2>1. CASE Upsert(h) \/ UpsertUnanswered(h)
    <3>1. req[h] \in Requests /\ req[h].phase = "upsert"
      BY <2>1, <1>r DEF Upsert, UpsertUnanswered, Bound, At, Idle
    <3>2. req[h].content \in Ids \cup {None}
      BY <3>1, RequestKinds
    <3> QED
      BY <2>1, <3>2 DEF Upsert, UpsertUnanswered, Bound
  <2> QED
    BY <1>2, <2>1, HandleKeeps
<1>3. ASSUME NEW h \in Handlers, Handle(h) PROVE loose' \subseteq loose \cup Ids
  <2>1. CASE CleanupFails(h) \/ Abort(h)
    <3>1. req[h] \in Requests
      BY <2>1, <1>r DEF CleanupFails, Abort, At, Idle
    <3>2. "op" \in DOMAIN req[h] => req[h].content \in Ids \cup {None}
      BY <3>1, RequestKinds
    <3> QED
      BY <2>1, <3>2 DEF CleanupFails, Abort, Loosen
  <2> QED
    BY <1>3, <2>1, HandleLooses
<1> QED
  BY <1>1, <1>2, <1>3, <1>a, HandleKeeps DEF Next, PutBytes, PutExpires, GetExpires, vars

\* The invariant is inductive.
LEMMA Inductive == Spec => []IInv
<1>1. IInv /\ [Next]_vars => IInv'
  <2> SUFFICES ASSUME TypeOK, AllJudged, LinksSafe, Avatars, PicturesAccounted, [Next]_vars
               PROVE  IInv'
    BY DEF IInv
  <2>g. Growing /\ Ids \subseteq Ids'
    BY ContentsStep, Lasting
  <2>1. req' \in [Handlers -> Requests' \cup {Idle}] /\ AllJudged'
    BY RequestsStep DEF RequestsStay
  <2>2. links' \in SUBSET [content : Ids', token : Tokens, disposition : {"inline", "attachment"},
                           avatarOf : SUBSET Users] /\ LinksSafe'
    BY LinksStep
  <2>3. profiles' \in [Users -> Ids' \cup {None}] /\ Avatars'
    BY AvatarsStep
  <2>4. bound' \subseteq Ids' /\ loose' \subseteq Ids' /\ accepted' \in 0..MaxAccepted
    BY <2>g, HistoryTypes DEF TypeOK
  <2>5. TypeOK'
    BY <2>g, <2>1, <2>2, <2>3, <2>4 DEF TypeOK, Links, Growing, Idle
  <2> QED
    BY <2>1, <2>2, <2>3, <2>5, PicturesStep DEF IInv
<1> QED
  BY <1>1, InitInv, PTL DEF Spec

\* Types; what is confirmed has bytes and what is declared is what is uploaded
\* (SetContentMetadata, confirm_upload, S3ObjectStore).
THEOREM TypeCorrect == Spec => []TypeOK
<1>1. IInv => TypeOK
  BY DEF IInv
<1> QED
  BY <1>1, Inductive, PTL

\* Behind a URL that shows its bytes inline is something safe to show
\* (preview_content, get_user_avatar, presign_get).
THEOREM InlineIsSafe == Spec => []InlineSafe
<1>1. IInv => InlineSafe
  BY DEF IInv, LinksSafe, Safe, InlineSafe
<1> QED
  BY <1>1, Inductive, PTL

\* Bytes reach only those who may read them, and as a picture only of the person
\* it belongs to (data_access in content/routes.rs, the checks of put).
THEOREM BytesReachTheEntitled == Spec => []BytesReach
<1>1. IInv => BytesReach
  <2> SUFFICES ASSUME IInv, NEW l \in links
               PROVE  \/ Reaches(l.token, "contents:read:all", contents[l.content].owner)
                      \/ \E u \in l.avatarOf : contents[l.content].owner = u /\ contents[l.content].object \in Raster
    BY DEF BytesReach
  <2>1. Safe(contents, l)
    BY DEF IInv, LinksSafe
  <2> QED
    BY <2>1 DEF Safe, Entitled
<1> QED
  BY <1>1, Inductive, PTL

\* No picture of set_user_avatar is left behind unless the cleanup was given up
\* (profile/routes.rs).
THEOREM PicturesAreAccounted == Spec => []PicturesAccounted
<1>1. IInv => PicturesAccounted
  BY DEF IInv
<1> QED
  BY <1>1, Inductive, PTL

\* No step changes the declared type of an upload (set_content_metadata).
THEOREM MimeIsKept == Spec => MimeKept
<1>1. IInv /\ [Next]_vars => [\A c \in Ids : contents[c].mime # "none" => contents'[c].mime = contents[c].mime]_vars
  <2> SUFFICES ASSUME IInv, [Next]_vars, NEW c \in Ids PROVE contents'[c].mime = contents[c].mime
    OBVIOUS
  <2>1. Growing
    BY ContentsStep DEF IInv
  <2> QED
    BY <2>1 DEF Growing, Lasts
<1> QED
  BY <1>1, Inductive, PTL DEF Spec, MimeKept
===============================================================================
