-------------------------------- MODULE Library --------------------------------
(***************************************************************************)
(* Contents, their objects in the bucket, and the profiles that use one as     *)
(* the avatar (src/features/content, src/features/profile,                      *)
(* src/infra/objectstore.rs, src/app/adapters/content_avatar_probe.rs).         *)
(*                                                                         *)
(* Handlers await the gate on the row, the metadata, the probe and the write,    *)
(* each a step; a request arrives with the first of them.  They run at the same  *)
(* time and can be dropped at any await.  A call of the content crate is one      *)
(* step.  Bytes never pass through the program: browsers send and fetch them      *)
(* with signed URLs, which nobody can take back before they expire.              *)
(***************************************************************************)
EXTENDS Naturals, Sequences, FiniteSets, Authz

CONSTANTS
    Grants,         \* the rows [role, perm] of the policy
    Tokens,         \* records [user, roles, scope]
    Seeded,         \* the contents there may be at the start
    Handlers,
    MaxContents,    \* bound: contents ever created
    MaxAccepted     \* bound: requests

Users == {t.user : t \in Tokens}

(* Types: what a browser shows safely inline, of which the raster images may be  *)
(* an avatar; what can run scripts; and no type at all.                         *)
Raster == {"png"}
SafeInline == Raster \cup {"pdf"}
Mimes == SafeInline \cup {"html", "none"}

\* A row with its metadata and its object.  put: the types a signed URL still lets
\* its holder upload; object: the type of the bytes in the bucket.
Contents ==
    [owner : Users, mime : Mimes, ready : BOOLEAN, deleted : BOOLEAN,
     put : SUBSET Mimes, object : Mimes \cup {"absent"}, picture : BOOLEAN]

\* What is confirmed has bytes, and a type that was declared is theirs.
Sound(content) ==
    /\ content.ready => content.object # "absent"
    /\ content.mime # "none" =>
        content.put \cup {content.object} \subseteq {content.mime, "absent"}

ASSUME LibraryAssumption ==
    /\ MaxContents \in Nat /\ MaxAccepted \in Nat
    /\ \A seeded \in Seeded :
        /\ seeded \in Seq(Contents) /\ Len(seeded) <= MaxContents
        /\ \A c \in 1..Len(seeded) : Sound(seeded[c]) /\ ~seeded[c].picture

VARIABLES
    contents,   \* contents[c]: the row, its metadata and its object
    profiles,   \* profiles[u]: the avatar u is bound to
    links,      \* signed GET URLs that have not expired
    req,        \* req[h]: the request handler h serves
    accepted,
    bound,      \* history: contents that have been an avatar
    loose       \* history: uploads of set_user_avatar it could not finish

store == <<contents, links>>
vars == <<store, profiles, req, accepted, bound, loose>>

None == 0

Ids == 1..Len(contents)

Policy == FromRoles(Grants)

May(t, p) == RequireScoped(Policy, t.roles, t.scope, p)

\* data_access(..).allows(owner)
Reaches(t, all, owner) == Allows(DataAccess(Policy, t.user, t.roles, t.scope, all), owner)

Alive(c) == ~contents[c].deleted

Idle == [phase |-> "idle"]

Init ==
    /\ contents \in Seeded
    /\ profiles = [u \in Users |-> None]
    /\ links = {}
    /\ req = [h \in Handlers |-> Idle]
    /\ accepted = 0
    /\ bound = {}
    /\ loose = {}

-------------------------------------------------------------------------------
(* The routes.                                                               *)

At(h, phase) == req[h].phase = phase

Goto(h, phase) == req' = [req EXCEPT ![h].phase = phase]

Finish(h) == req' = [req EXCEPT ![h] = Idle]

\* fetch_content_owned: 404 for what is gone or somebody else's.
FetchOwned(t, all, c) == Alive(c) /\ Reaches(t, all, contents[c].owner)

Serve(h, request) ==
    /\ At(h, "idle")
    /\ accepted < MaxAccepted
    /\ accepted' = accepted + 1
    /\ req' = [req EXCEPT ![h] = request]
    /\ UNCHANGED <<store, profiles, bound, loose>>

\* A route with a gate on the row c.
Guarded(h, t, perm, all, c, phase) ==
    /\ May(t, perm)
    /\ FetchOwned(t, all, c)
    /\ Serve(h, [phase |-> phase, token |-> t, content |-> c, avatarOf |-> {}])

\* A route that makes a content.
Making(h, t, phase, mime) ==
    /\ May(t, "contents:write")
    /\ Serve(h, [phase |-> phase, token |-> t, mime |-> mime])

CreateContent(h, t) == Making(h, t, "create", "none")

\* The type of the part; it may have none.
UploadContent(h, t, mime) == Making(h, t, "upload", mime)

PrepareUpload(h, t, mime) == Making(h, t, "prepare", mime)

UpdateContent(h, t, c) == Guarded(h, t, "contents:write", "contents:write:all", c, "update")

DeleteContent(h, t, c) == Guarded(h, t, "contents:delete", "contents:write:all", c, "delete")

ConfirmUpload(h, t, c) == Guarded(h, t, "contents:write", "contents:write:all", c, "confirm")

SetContentMetadata(h, t, c) == Guarded(h, t, "contents:write", "contents:write:all", c, "read_mime")

DownloadContent(h, t, c) == Guarded(h, t, "contents:read", "contents:read:all", c, "download")

PreviewContent(h, t, c) == Guarded(h, t, "contents:read", "contents:read:all", c, "judge")

\* Anybody who is signed in, for the avatar of u.
GetUserAvatar(h, t, u) ==
    /\ profiles[u] # None
    /\ Serve(h, [phase |-> "judge_avatar", token |-> t, content |-> profiles[u], avatarOf |-> {u}])

Bind(h, u, c) ==
    Serve(h, [phase |-> IF c = None THEN "upsert" ELSE "probe",
              op |-> "put", user |-> u, content |-> c])

\* One's own profile, or anybody's with profiles:write:all.
PutProfile(h, t, u, c) ==
    /\ May(t, "profiles:write") /\ Reaches(t, "profiles:write:all", u)
    /\ Bind(h, u, c)

\* The routes of an administrator.
Administers(t) == EntersAdmin(Policy, t.roles, t.scope) /\ May(t, "users:admin")

SetUserProfile(h, t, u, c) == Administers(t) /\ Bind(h, u, c)

\* Anything but a raster image is refused before anything is written.
SetUserAvatar(h, t, u, mime) ==
    /\ Administers(t)
    /\ mime \in Raster
    /\ Serve(h, [phase |-> "picture", op |-> "avatar", user |-> u, content |-> None, mime |-> mime])

-------------------------------------------------------------------------------
(* The content crate and the bucket.                                         *)

Content(owner, mime, ready, put, object, picture) ==
    [owner |-> owner, mime |-> mime, ready |-> ready, deleted |-> FALSE,
     put |-> put, object |-> object, picture |-> picture]

Insert(h, content, phase) ==
    /\ Len(contents) < MaxContents
    /\ contents' = Append(contents, content)
    /\ req' = [req EXCEPT ![h] = IF phase = "idle" THEN Idle
                                 ELSE [req[h] EXCEPT !.phase = phase, !.content = Len(contents) + 1]]
    /\ UNCHANGED <<links, profiles, accepted, bound, loose>>

Create(h) ==
    /\ At(h, "create")
    /\ Insert(h, Content(req[h].token.user, "none", FALSE, {}, "absent", FALSE), "idle")

\* The bytes are stored with the type the metadata get.
Upload(h) ==
    /\ At(h, "upload")
    /\ Insert(h, Content(req[h].token.user, req[h].mime, TRUE, {}, req[h].mime, FALSE), "idle")

\* A type that was declared is signed into the URL.
Signed(mime) == IF mime = "none" THEN Mimes ELSE {mime}

Prepare(h) ==
    LET mime == req[h].mime
    IN  /\ At(h, "prepare")
        /\ Insert(h, Content(req[h].token.user, mime, FALSE, Signed(mime), "absent", FALSE), "idle")

\* The fields the client may edit; none is read here.
Update(h) ==
    /\ At(h, "update")
    /\ Finish(h)
    /\ UNCHANGED <<store, profiles, accepted, bound, loose>>

Change(h, c, field, value) ==
    /\ contents' = IF Alive(c) THEN [contents EXCEPT ![c][field] = value] ELSE contents
    /\ Finish(h)
    /\ UNCHANGED <<links, profiles, accepted, bound>>

Delete(h) ==
    /\ At(h, "delete")
    /\ Change(h, req[h].content, "deleted", TRUE)
    /\ UNCHANGED loose

\* Mutant: confirmed on the client's word.
ConfirmBlind(h) ==
    /\ At(h, "confirm")
    /\ Change(h, req[h].content, "ready", TRUE)
    /\ UNCHANGED loose

\* 409 without bytes; again when it is confirmed already.
Confirm(h) ==
    LET c == req[h].content
    IN  /\ At(h, "confirm")
        /\ Change(h, c, "ready", contents[c].ready \/ contents[c].object # "absent")
        /\ UNCHANGED loose

\* What get_content_metadata says of c: NotFound is no type, too.
MimeOf(c) == IF Alive(c) THEN contents[c].mime ELSE "none"

\* The type belongs to the server: it is read to be written back.
ReadMime(h) ==
    /\ At(h, "read_mime")
    /\ req' = [req EXCEPT ![h] = [phase |-> "metadata", content |-> @.content, mime |-> MimeOf(@.content)]]
    /\ UNCHANGED <<store, profiles, accepted, bound, loose>>

\* All of the metadata is replaced.
WriteMetadata(h) ==
    /\ At(h, "metadata")
    /\ Change(h, req[h].content, "mime", req[h].mime)
    /\ UNCHANGED loose

-------------------------------------------------------------------------------
(* Signed URLs.                                                              *)

\* A direct upload, again and again until the URL expires.
PutBytes(c) ==
    /\ \E mime \in contents[c].put : contents' = [contents EXCEPT ![c].object = mime]
    /\ UNCHANGED <<links, profiles, req, accepted, bound, loose>>

PutExpires(c) ==
    /\ contents[c].put # {}
    /\ contents' = [contents EXCEPT ![c].put = {}]
    /\ UNCHANGED <<links, profiles, req, accepted, bound, loose>>

Sign(h, disposition) ==
    LET c == req[h].content
    IN  /\ links' = IF Alive(c) /\ contents[c].ready
                    THEN links \cup {[content |-> c, token |-> req[h].token,
                                      disposition |-> disposition, avatarOf |-> req[h].avatarOf]}
                    ELSE links
        /\ Finish(h)
        /\ UNCHANGED <<contents, profiles, accepted, bound, loose>>

Download(h) == At(h, "download") /\ Sign(h, "attachment")

\* Mutant: inline unless it is known to run scripts.
JudgeBlacklist(h) ==
    /\ At(h, "judge")
    /\ Goto(h, IF MimeOf(req[h].content) = "html" THEN "download" ELSE "preview")
    /\ UNCHANGED <<store, profiles, accepted, bound, loose>>

\* Inline only what is safe to show; not to know is not safe.
Judge(h) ==
    /\ At(h, "judge")
    /\ Goto(h, IF MimeOf(req[h].content) \in SafeInline THEN "preview" ELSE "download")
    /\ UNCHANGED <<store, profiles, accepted, bound, loose>>

JudgeAvatar(h) ==
    /\ At(h, "judge_avatar")
    /\ IF MimeOf(req[h].content) \in Raster THEN Goto(h, "preview") ELSE Finish(h)
    /\ UNCHANGED <<store, profiles, accepted, bound, loose>>

\* Mutant: whatever went wrong, there was no type.
MimeUnreadAsNone(h) ==
    /\ \/ At(h, "judge") /\ Goto(h, "download")
       \/ At(h, "judge_avatar") /\ Finish(h)
       \/ /\ At(h, "read_mime")
          /\ req' = [req EXCEPT ![h] = [phase |-> "metadata", content |-> @.content, mime |-> "none"]]
    /\ UNCHANGED <<store, profiles, accepted, bound, loose>>

\* The metadata cannot be read.
MimeUnread(h) ==
    /\ \/ At(h, "judge") /\ Goto(h, "download")
       \/ (At(h, "judge_avatar") \/ At(h, "read_mime")) /\ Finish(h)
    /\ UNCHANGED <<store, profiles, accepted, bound, loose>>

Preview(h) == At(h, "preview") /\ Sign(h, "inline")

\* After five minutes.
GetExpires(l) ==
    /\ links' = links \ {l}
    /\ UNCHANGED <<contents, profiles, req, accepted, bound, loose>>

-------------------------------------------------------------------------------
(* Binding an avatar.  set_user_avatar uploads it first and takes it back when    *)
(* the binding fails.                                                        *)

\* The picture belongs to the user whose avatar it is to be.
UploadPicture(h) ==
    /\ At(h, "picture")
    /\ Insert(h, Content(req[h].user, req[h].mime, TRUE, {}, req[h].mime, TRUE), "names")

\* The rest of the profile, to be written back.
ReadNames(h) ==
    /\ At(h, "names")
    /\ Goto(h, "probe")
    /\ UNCHANGED <<store, profiles, accepted, bound, loose>>

\* Mutant: any raster image that is there.
FitAnybodys(u, c) == Alive(c) /\ contents[c].ready /\ contents[c].mime \in Raster

\* What may become the avatar of u: alive, u's own, uploaded and a raster image.
Fit(u, c) ==
    /\ Alive(c)
    /\ contents[c].owner = u
    /\ contents[c].ready
    /\ contents[c].mime \in Raster

Fail(h) == IF req[h].op = "avatar" THEN Goto(h, "cleanup") ELSE Finish(h)

Probe(h) ==
    /\ At(h, "probe")
    /\ IF Fit(req[h].user, req[h].content) THEN Goto(h, "upsert") ELSE Fail(h)
    /\ UNCHANGED <<store, profiles, accepted, bound, loose>>

\* Mutant: only the put is cleaned up after.
BindFailsEarly(h) ==
    /\ \/ At(h, "names") /\ Finish(h)
       \/ req[h].phase \in {"probe", "upsert"} /\ Fail(h)
    /\ UNCHANGED <<store, profiles, accepted, bound, loose>>

\* An error of the names, the probe or the upsert.
BindFails(h) ==
    /\ req[h].phase \in {"names", "probe", "upsert"}
    /\ Fail(h)
    /\ UNCHANGED <<store, profiles, accepted, bound, loose>>

Bound(h) ==
    /\ At(h, "upsert")
    /\ profiles' = [profiles EXCEPT ![req[h].user] = req[h].content]
    /\ bound' = bound \cup ({req[h].content} \ {None})
    /\ UNCHANGED <<store, accepted, loose>>

Upsert(h) == Bound(h) /\ Finish(h)

\* It commits and the answer is lost.
UpsertUnanswered(h) == Bound(h) /\ Fail(h)

Cleanup(h) ==
    /\ At(h, "cleanup")
    /\ Change(h, req[h].content, "deleted", TRUE)
    /\ UNCHANGED loose

Loosen(h) == loose' = IF "op" \in DOMAIN req[h] /\ req[h].op = "avatar"
                      THEN loose \cup ({req[h].content} \ {None}) ELSE loose

\* A warning.
CleanupFails(h) ==
    /\ At(h, "cleanup")
    /\ Loosen(h)
    /\ Finish(h)
    /\ UNCHANGED <<store, profiles, accepted, bound>>

\* Timeout, client gone, an error of the crate.
Abort(h) ==
    /\ ~At(h, "idle")
    /\ Loosen(h)
    /\ Finish(h)
    /\ UNCHANGED <<store, profiles, accepted, bound>>

-------------------------------------------------------------------------------
Route(h) ==
    \E t \in Tokens :
        \/ CreateContent(h, t)
        \/ \E mime \in Mimes : UploadContent(h, t, mime) \/ PrepareUpload(h, t, mime)
        \/ \E c \in Ids :
            \/ UpdateContent(h, t, c) \/ DeleteContent(h, t, c) \/ ConfirmUpload(h, t, c)
            \/ SetContentMetadata(h, t, c)
            \/ DownloadContent(h, t, c) \/ PreviewContent(h, t, c)
        \/ \E u \in Users :
            \/ GetUserAvatar(h, t, u)
            \/ \E c \in Ids \cup {None} : PutProfile(h, t, u, c) \/ SetUserProfile(h, t, u, c)
            \/ \E mime \in Mimes : SetUserAvatar(h, t, u, mime)

Handle(h) ==
    \/ Create(h) \/ Upload(h) \/ Prepare(h) \/ Update(h) \/ Delete(h) \/ Confirm(h)
    \/ ReadMime(h) \/ WriteMetadata(h)
    \/ Download(h) \/ Judge(h) \/ JudgeAvatar(h) \/ MimeUnread(h) \/ Preview(h)
    \/ UploadPicture(h) \/ ReadNames(h) \/ Probe(h) \/ BindFails(h)
    \/ Upsert(h) \/ UpsertUnanswered(h) \/ Cleanup(h) \/ CleanupFails(h)
    \/ Abort(h)

Next ==
    \/ \E h \in Handlers : Route(h) \/ Handle(h)
    \/ \E c \in Ids : PutBytes(c) \/ PutExpires(c)
    \/ \E l \in links : GetExpires(l)

Spec == Init /\ [][Next]_vars

-------------------------------------------------------------------------------
Requests ==
    [phase : {"create", "upload", "prepare"}, token : Tokens, mime : Mimes]
    \cup [phase : {"update", "delete", "confirm", "read_mime", "download", "judge",
                   "judge_avatar", "preview"},
          token : Tokens, content : Ids, avatarOf : SUBSET Users]
    \cup [phase : {"metadata"}, content : Ids, mime : Mimes]
    \cup [phase : {"probe", "upsert"}, op : {"put"}, user : Users, content : Ids \cup {None}]
    \cup [phase : {"picture"}, op : {"avatar"}, user : Users, content : {None}, mime : Raster]
    \cup [phase : {"names", "probe", "upsert", "cleanup"}, op : {"avatar"},
          user : Users, content : Ids, mime : Raster]

Links == [content : Ids, token : Tokens, disposition : {"inline", "attachment"},
          avatarOf : SUBSET Users]

\* Types; rows and their objects fit together, although bytes and confirmations
\* come by different ways.
TypeOK ==
    /\ contents \in Seq(Contents) /\ Len(contents) <= MaxContents
    /\ \A c \in Ids : Sound(contents[c])
    /\ profiles \in [Users -> Ids \cup {None}]
    /\ links \subseteq Links
    /\ req \in [Handlers -> Requests \cup {Idle}]
    /\ accepted \in 0..MaxAccepted
    /\ bound \subseteq Ids /\ loose \subseteq Ids

\* The type the whitelist was asked about is the type the browser gets (comments
\* of SetContentMetadataRequest and presign_get): behind a URL that shows its
\* bytes inline is always something safe to show, although the type is read
\* from the metadata, a later step signs, the bucket answers, and bytes are
\* uploaded and metadata replaced before and after.
InlineSafe ==
    \A l \in links : l.disposition = "inline" => contents[l.content].object \in SafeInline

\* Replacing the metadata, from two clients at once, after an upload or when the
\* database hiccups, never changes or loses the type of an upload: no client
\* could restore it.
MimeKept ==
    [][\A c \in Ids : contents[c].mime # "none" => contents'[c].mime = contents[c].mime]_vars

\* Through download, preview and the avatars, the bytes of somebody else's content
\* reach a user without contents:read:all only as that person's own picture,
\* whoever bound it and whatever was bound, replaced or deleted meanwhile.
BytesReach ==
    \A l \in links :
        LET c == contents[l.content]
        IN  \/ Reaches(l.token, "contents:read:all", c.owner)
            \/ \E u \in l.avatarOf : c.owner = u /\ c.object \in Raster

\* No orphans (comment of set_user_avatar): once the handler is done, a picture it
\* uploaded has been an avatar or is deleted, unless the handler was dropped or
\* the cleanup itself failed.
PicturesAccounted ==
    \A c \in Ids : contents[c].picture =>
        \/ c \in bound \cup loose
        \/ ~Alive(c)
        \/ \E h \in Handlers : ~At(h, "idle") /\ "op" \in DOMAIN req[h]
                               /\ req[h].op = "avatar" /\ req[h].content = c
===============================================================================
